--------------------------- MODULE ConsumerProofs ---------------------------
(***************************************************************************)
(* Proofs about FileCarver and TopologyBuilder over the reassembler: what  *)
(* they do to its table is what feed does, and their own tables agree with *)
(* it.  All of it for every set of flows, table size, stream length and    *)
(* assignment of ports.                                                    *)
(***************************************************************************)
EXTENDS Consumers, ReassemblerProofs

LEMMA DefaultArguments == Plain /\ fill_gaps = FALSE
  BY ConsumersAssumption, ReassemblerAssumption DEF Plain

-----------------------------------------------------------------------------
(* carve and build find every buffer drained.                              *)
DrainedConn(c) ==
  [c EXCEPT !.c2s = AfterGetData(@, FALSE), !.s2c = AfterGetData(@, FALSE)]

LEMMA NothingInConn ==
  ASSUME NEW c \in Conns
  PROVE  DrainedConn(c) = c
<1> DEFINE x == c.c2s
           y == c.s2c
           id == c.id
<1>1. x \in Settled(id) /\ y \in Settled(Reverse(id)) /\ c = Conn(id, x, y)
  BY ConnParts DEF Conn
<1>2. x = c.c2s /\ y = c.s2c
  OBVIOUS
<1> HIDE DEF x, y, id
<1>3. AfterGetData(x, FALSE) = x /\ AfterGetData(y, FALSE) = y
  BY <1>1, SettledStays
<1>4. DrainedConn(c) = WithBoth(c, x, y)
  BY <1>2, <1>3, Zenon DEF DrainedConn, WithBoth
<1>5. WithBoth(c, x, y) = c
  BY <1>1, ConnUpdate
<1> QED BY <1>4, <1>5

LEMMA NothingInTable ==
  ASSUME TableSound
  PROVE  \A i \in Indices(connections) : DrainedConn(connections[i]) = connections[i]
<1> SUFFICES ASSUME NEW i \in Indices(connections)
             PROVE  DrainedConn(connections[i]) = connections[i]
  OBVIOUS
<1>1. connections[i] \in Conns
  BY ElementOfSeq DEF TableSound, Indices
<1> QED BY <1>1, NothingInConn

LEMMA PullIsQuiet ==
  ASSUME TableSound, PullAll
  PROVE  UNCHANGED vars
<1>1. connections' = connections
  <2>1. connections' = [i \in Indices(connections) |-> DrainedConn(connections[i])]
    BY Zenon DEF PullAll, DrainedConn
  <2>2. [i \in Indices(connections) |-> DrainedConn(connections[i])]
          = [i \in Indices(connections) |-> connections[i]]
    BY NothingInTable
  <2>3. [i \in Indices(connections) |-> connections[i]] = connections
    BY LenProperties DEF TableSound, Indices
  <2> QED BY <2>1, <2>2, <2>3, Zenon
<1> QED BY <1>1 DEF PullAll, vars

LEMMA AppStepIsStep ==
  ASSUME TableSound, [AppNext]_appVars
  PROVE  [Next]_vars
<1>1. CASE CarverPacket
  BY <1>1 DEF CarverPacket, Next, Packet
<1>2. CASE TopologyPacket
  BY <1>2 DEF TopologyPacket, Next, Packet
<1>3. CASE Carve \/ Build
  BY <1>3, PullIsQuiet DEF Carve, Build
<1>4. CASE \E rid \in Speakers, proto \in DOMAIN Listing : Report(rid, proto)
  BY <1>4 DEF Report
<1>5. CASE UNCHANGED appVars
  BY <1>5 DEF appVars
<1> QED BY <1>1, <1>2, <1>3, <1>4, <1>5 DEF AppNext

LEMMA AppTableInvariant == AppSpec => []TableSound
<1>1. AppInit => TableSound
  BY TableSoundInit DEF AppInit
<1>2. TableSound /\ [AppNext]_appVars => TableSound'
  BY AppStepIsStep, TableSoundNext
<1> QED BY <1>1, <1>2, PTL DEF AppSpec

(* The two applications use the reassembler as its specification allows:   *)
(* what carve and build do to its connections outside feed changes none.   *)
THEOREM ApplicationsFollowSpec == AppSpec => Spec
<1>1. AppInit => Init
  BY DEF AppInit
<1>2. TableSound /\ [AppNext]_appVars => [Next]_vars
  BY AppStepIsStep
<1> QED BY <1>1, <1>2, AppTableInvariant, PTL DEF AppSpec, Spec

(* So the table they feed keeps its bound ...                              *)
THEOREM ApplicationsBounded == AppSpec => []TableBound
  BY ApplicationsFollowSpec, TableBounded, PTL

(* ... and evicts closed connections first.                                *)
THEOREM ApplicationsEvictionOrder == AppSpec => EvictionOrder
  BY ApplicationsFollowSpec, EvictionOrdered, PTL
-----------------------------------------------------------------------------
(* The carver's own map of connections.                                    *)
Ids(conns) == {conns[i].id : i \in Indices(conns)}

LEMMA IdsHas ==
  ASSUME NEW conns, NEW id
  PROVE  id \in Ids(conns) <=> Has(conns, id)
  BY DEF Ids, Has

(* What a packet does to the keys of the table and to those evicted.       *)
LEMMA PacketKeys ==
  ASSUME TableSound, NEW f \in Flows,
         NEW seq, NEW payload, NEW syn, NEW fin, IsPacket(f, seq, payload, syn, fin),
         FeedPacket(f[1], f[2], seq, payload, syn, fin)
  PROVE  Ids(connections') \cup evicted'
           = Ids(connections) \cup evicted \cup {ConnId(f[1], f[2])}
<1> DEFINE id    == ConnId(f[1], f[2])
           table == Admit(connections, id)
           i     == IndexOf(table, id)
           fed   == ConnectionFeed(table[i], f[1], seq, payload, syn, fin)
           left  == AfterOutput(fed)
<1>1. id \in ConnIds
  BY FlowId
<1>2. /\ table \in Seq(Conns) /\ UniqueIds(table) /\ Has(table, id)
      /\ FromOrNew(connections, table, id)
  BY <1>1, AdmitKeeps DEF TableSound
<1>3. \E raised \in Nat :
        connections' = Put(table, i, IF raised = 0 THEN AfterLimits(left) ELSE left)
  <2>1. \E raised : connections' = Put(table, i, IF raised = 0 THEN AfterLimits(left) ELSE left)
    <3>1. \E raised \in 0 .. Calls(fed) : Fed(table, i, id, fed, raised)
      BY FeedPacketFed
    <3> QED BY <3>1, Zenon DEF Fed, Put
  <2>2. CASE \E raised : raised = 0 /\ connections' = Put(table, i, AfterLimits(left))
    BY <2>2
  <2>3. CASE \E raised : raised # 0 /\ connections' = Put(table, i, left)
    <3>1. connections' = Put(table, i, IF 1 = 0 THEN AfterLimits(left) ELSE left)
      BY <2>3
    <3> QED BY <3>1
  <2> QED BY <2>1, <2>2, <2>3
<1>4. \E c \in Conns : c.id = id /\ connections' = Put(table, i, c)
  <2> HIDE DEF table
  <2>1. i \in Indices(table) /\ table[i].id = id
    BY <1>2, IndexOfFound
  <2>2. table[i] \in Conns
    BY <1>2, <2>1, ElementOfSeq DEF Indices
  <2> DEFINE old == table[i]
  <2>3. old \in Conns /\ old.id = ConnId(f[1], f[2])
    BY <2>1, <2>2
  <2>4. fed = ConnectionFeed(old, f[1], seq, payload, syn, fin)
    OBVIOUS
  <2> HIDE DEF old
  <2>5. /\ IsFedConn(ConnectionFeed(old, f[1], seq, payload, syn, fin))
        /\ ConnectionFeed(old, f[1], seq, payload, syn, fin).id = old.id
    BY <2>3, ConnectionFeedFed
  <2> HIDE DEF fed
  <2>6. IsFedConn(fed) /\ fed.id = old.id
    BY <2>4, <2>5, Zenon
  <2>7. /\ left \in Conns /\ left.id = id
        /\ AfterLimits(left) \in Conns /\ AfterLimits(left).id = id
    BY <2>3, <2>6, OutputSettles
  <2> HIDE DEF left, i, id
  <2> QED BY <1>3, <2>7
<1>5. PICK c \in Conns : c.id = id /\ connections' = Put(table, i, c)
  BY <1>4
<1>6. \A d : Has(connections', d) <=> Has(table, d)
  <2> HIDE DEF table, id
  <2>1. i = IndexOf(table, id)
    OBVIOUS
  <2> HIDE DEF i
  <2>2. \A d : Has(Put(table, i, c), d) <=> Has(table, d)
    BY <1>2, <1>5, <2>1, PutBack
  <2> QED BY <1>5, <2>2, Zenon
<1>7. evicted' = evicted \cup
        {d \in ConnIds : Has(connections, d) /\ ~ Has(table, d)}
  BY Zenon DEF FeedPacket
<1>8. \A d \in Ids(connections) : d \in ConnIds
  BY ElementOfSeq, ConnParts DEF TableSound, Indices, Ids
<1>9. \A d \in Ids(table) : d \in Ids(connections) \/ d = id
  <2> HIDE DEF table
  <2>1. NewConnection(id).id = id
    BY DEF NewConnection
  <2> HIDE DEF id
  <2> SUFFICES ASSUME NEW j \in Indices(table)
               PROVE  table[j].id \in Ids(connections) \/ table[j].id = id
    BY DEF Ids
  <2>2. CASE \E k \in Indices(connections) : table[j] = connections[k]
    BY <2>2 DEF Ids
  <2>3. CASE table[j] = NewConnection(id)
    BY <2>1, <2>3
  <2> QED BY <1>2, <2>2, <2>3 DEF FromOrNew
<1> HIDE DEF table, id
<1>10. \A d : d \in Ids(connections') <=> d \in Ids(table)
  BY <1>6, IdsHas
<1>11. \A d \in Ids(connections) : d \in Ids(table) \/ d \in evicted'
  BY <1>7, <1>8, IdsHas
<1>12. \A d \in evicted' : d \in evicted \/ d \in Ids(connections)
  BY <1>7, IdsHas
<1>13. evicted \subseteq evicted' /\ id \in Ids(table)
  BY <1>2, <1>7, IdsHas
<1>14. Ids(connections') \cup evicted' = Ids(connections) \cup evicted \cup {id}
  BY <1>9, <1>10, <1>11, <1>12, <1>13
<1> QED BY <1>14 DEF id

LEMMA StepKeys ==
  ASSUME TableSound, NEW f \in Flows,
         \/ Syn(f)
         \/ \E p \in 1 .. StreamLen + 1, n \in 0 .. StreamLen, fin \in BOOLEAN :
              Data(f, p, n, fin)
  PROVE  Ids(connections') \cup evicted'
           = Ids(connections) \cup evicted \cup {ConnId(f[1], f[2])}
<1>1. CASE Syn(f)
  BY <1>1, SynIsPacket, PacketKeys DEF Syn
<1>2. ASSUME NEW p \in 1 .. StreamLen + 1, NEW n \in 0 .. StreamLen,
             NEW fin \in BOOLEAN, Data(f, p, n, fin)
      PROVE  Ids(connections') \cup evicted'
               = Ids(connections) \cup evicted \cup {ConnId(f[1], f[2])}
  <2>1. /\ p + n - 1 <= StreamLen /\ (fin => p + n - 1 = StreamLen)
        /\ FeedPacket(f[1], f[2], p, Text(f, p, n), FALSE, fin)
    BY <1>2 DEF Data
  <2>2. IsPacket(f, p, Text(f, p, n), FALSE, fin)
    BY <2>1, DataIsPacket
  <2> QED BY <2>1, <2>2, PacketKeys
<1> QED BY <1>1, <1>2

(* The ports tell the same protocol in either direction.                   *)
LEMMA ProtocolOfEither ==
  ASSUME NEW f, NEW h, {f[1], f[2]} = {h[1], h[2]}
  PROVE  DetectProtocol(f) = DetectProtocol(h)
<1> DEFINE of(s) == {i \in DOMAIN Services : \E e \in s : ServiceOf[e] = Services[i]}
           proto(s) == IF of(s) = {} THEN "unknown" ELSE Services[First(of(s))]
<1>1. DetectProtocol(f) = proto({f[1], f[2]}) /\ DetectProtocol(h) = proto({h[1], h[2]})
  BY Zenon DEF DetectProtocol
<1> HIDE DEF proto
<1> QED BY <1>1, Zenon

LEMMA EndsOfConn ==
  ASSUME NEW f \in Flows
  PROVE  {f[1], f[2]} = {ConnId(f[1], f[2])[2], ConnId(f[1], f[2])[1]}
  BY DEF ConnId

(* FileCarver computes the key of a connection on its own: it has the      *)
(* protocol of every connection the table holds or ever held, and of no    *)
(* other, as the ports tell it in either direction.                        *)
THEOREM StreamsMatchTable == AppSpec => []StreamsFollowTable
<1> DEFINE Follow ==
      /\ DOMAIN streams = Ids(connections) \cup evicted
      /\ \A id \in DOMAIN streams : streams[id] = DetectProtocol(<<id[2], id[1]>>)
<1>1. Follow /\ app = "carver" => StreamsFollowTable
  BY DEF StreamsFollowTable, Ids
<1>2. app # "carver" => StreamsFollowTable
  BY DEF StreamsFollowTable
<1>3. StreamsFollowTable <=> (app = "carver" => Follow)
  BY <1>1, <1>2 DEF StreamsFollowTable, Ids
<1>4. AppInit => StreamsFollowTable
  <2> SUFFICES ASSUME AppInit PROVE Follow
    BY <1>3
  <2>1. Ids(connections) = {} /\ evicted = {}
    BY EmptySeq DEF AppInit, Init, Ids, Indices
  <2>2. DOMAIN streams = {}
    BY DEF AppInit
  <2> QED BY <2>1, <2>2
<1>5. TableSound /\ StreamsFollowTable /\ [AppNext]_appVars => StreamsFollowTable'
  <2> SUFFICES ASSUME TableSound, StreamsFollowTable, [AppNext]_appVars
               PROVE  StreamsFollowTable'
    OBVIOUS
  <2>1. CASE CarverPacket
    <3>1. app = "carver" /\ app' = app /\ Follow
      BY <2>1, <1>3 DEF CarverPacket
    <3>2. PICK f \in Flows :
            /\ \/ Syn(f)
               \/ \E p \in 1 .. StreamLen + 1, n \in 0 .. StreamLen, fin \in BOOLEAN :
                    Data(f, p, n, fin)
            /\ streams' = Track(f)
      BY <2>1 DEF CarverPacket
    <3> DEFINE id == ConnId(f[1], f[2])
               r  == <<id[2], id[1]>>
    <3>3. Ids(connections') \cup evicted' = Ids(connections) \cup evicted \cup {id}
      BY <3>2, StepKeys
    <3>4. DetectProtocol(f) = DetectProtocol(r)
      <4>1. {f[1], f[2]} = {r[1], r[2]}
        BY EndsOfConn
      <4> HIDE DEF r
      <4> QED BY <4>1, ProtocolOfEither
    <3>5. streams' = IF id \in DOMAIN streams THEN streams
                     ELSE [c \in DOMAIN streams \cup {id} |->
                             IF c = id THEN DetectProtocol(f) ELSE streams[c]]
      BY <3>2, Zenon DEF Track
    <3> HIDE DEF id
    <3>6. DOMAIN streams' = DOMAIN streams \cup {id}
      BY <3>5
    <3>7. ASSUME NEW d \in DOMAIN streams'
          PROVE  streams'[d] = DetectProtocol(<<d[2], d[1]>>)
      <4>1. CASE d \in DOMAIN streams
        <5>1. streams'[d] = streams[d]
          BY <3>5, <4>1
        <5> QED BY <3>1, <4>1, <5>1
      <4>2. CASE d \notin DOMAIN streams
        <5>1. d = id /\ streams'[d] = DetectProtocol(f)
          BY <3>5, <3>6, <4>2
        <5> QED BY <3>4, <5>1, Zenon
      <4> QED BY <4>1, <4>2
    <3>8. Follow'
      BY <3>1, <3>3, <3>6, <3>7
    <3> QED BY <3>1, <3>8 DEF StreamsFollowTable, Ids
  <2>2. CASE Carve \/ Build
    <3>1. UNCHANGED vars /\ app' = app /\ streams' = streams
      BY <2>2, PullIsQuiet DEF Carve, Build, PullAll
    <3> QED BY <3>1 DEF StreamsFollowTable, vars, Indices
  <2>3. CASE TopologyPacket
    <3>1. app = "topology" /\ app' = app
      BY <2>3 DEF TopologyPacket
    <3> QED BY <3>1 DEF StreamsFollowTable
  <2>4. CASE \E rid \in Speakers, proto \in DOMAIN Listing : Report(rid, proto)
    <3>1. app = "topology" /\ app' = app
      BY <2>4 DEF Report
    <3> QED BY <3>1 DEF StreamsFollowTable
  <2>5. CASE UNCHANGED appVars
    BY <2>5 DEF StreamsFollowTable, appVars, vars, tables, Indices
  <2> QED BY <2>1, <2>2, <2>3, <2>4, <2>5 DEF AppNext
<1> QED BY <1>4, <1>5, AppTableInvariant, PTL DEF AppSpec
-----------------------------------------------------------------------------
(* TopologyBuilder's entries.  Routers are only added and learn protocols. *)
LEMMA FoundAre ==
  ASSUME NEW id, NEW proto, NEW items
  PROVE  /\ \A l \in LinksFound(id, proto, items) :
              l.proto = proto /\ id \in {l.src, l.dst}
         /\ \A p \in PrefixesFound(id, proto, items) : p.proto = proto /\ p.router = id
<1>1. \A item : /\ LinkOf(id, proto, item).proto = proto
                /\ id \in {LinkOf(id, proto, item).src, LinkOf(id, proto, item).dst}
  BY DEF LinkOf
<1> QED BY <1>1 DEF LinksFound, PrefixesFound

LEMMA GetRouterGrows ==
  ASSUME NEW id, NEW proto, routers' = GetRouter(id, proto)
  PROVE  /\ Speaks(id, proto)'
         /\ \A r, q : Speaks(r, q) => Speaks(r, q)'
  BY DEF GetRouter, Speaks

(* However far an extractor gets before it raises, it leaves no prefix of  *)
(* a router that is not entered with that protocol, and no link of which   *)
(* no end is.                                                              *)
THEOREM EntriesOfRouters == AppSpec => []EntriesHaveRouter
<1>1. AppInit => EntriesHaveRouter
  BY DEF AppInit, EntriesHaveRouter
<1>2. EntriesHaveRouter /\ [AppNext]_appVars => EntriesHaveRouter'
  <2> SUFFICES ASSUME EntriesHaveRouter, [AppNext]_appVars PROVE EntriesHaveRouter'
    OBVIOUS
  <2>1. CASE UNCHANGED <<links, prefixes, routers>>
    BY <2>1 DEF EntriesHaveRouter, Speaks
  <2>2. ASSUME NEW rid \in Speakers, NEW proto \in DOMAIN Listing, Report(rid, proto)
        PROVE  EntriesHaveRouter'
    <3>1. PICK items : Extract(rid, proto, items)
      BY <2>2 DEF Report
    <3> DEFINE id == NameIn(proto, rid)
               new1 == LinksFound(id, proto, items)
               new2 == PrefixesFound(id, proto, items)
    <3>2. /\ routers' = GetRouter(id, proto)
          /\ links' = links \cup new1 /\ prefixes' = prefixes \cup new2
      BY <3>1 DEF Extract
    <3>3. /\ \A l \in new1 : l.proto = proto /\ id \in {l.src, l.dst}
          /\ \A p \in new2 : p.proto = proto /\ p.router = id
      BY FoundAre
    <3> HIDE DEF new1, new2, id
    <3>4. Speaks(id, proto)' /\ \A r, q : Speaks(r, q) => Speaks(r, q)'
      BY <3>2, GetRouterGrows
    <3>5. \A p \in prefixes' : Speaks(p.router, p.proto)'
      BY <3>2, <3>3, <3>4 DEF EntriesHaveRouter
    <3>6. \A l \in links' : \E end \in {l.src, l.dst} : Speaks(end, l.proto)'
      BY <3>2, <3>3, <3>4 DEF EntriesHaveRouter
    <3> QED BY <3>5, <3>6 DEF EntriesHaveRouter
  <2>3. CASE Build
    <3>1. PICK speakers :
            /\ routers' = [r \in DOMAIN routers \cup speakers |->
                 (IF r \in DOMAIN routers THEN routers[r] ELSE {})
                   \cup (IF r \in speakers THEN {"bgp"} ELSE {})]
            /\ prefixes' = prefixes \cup [proto : {"bgp"}, router : speakers]
            /\ links' = links
      BY <2>3 DEF Build
    <3>2. \A p \in [proto : {"bgp"}, router : speakers] :
            p.router \in speakers /\ p.proto = "bgp"
      OBVIOUS
    <3>3. \A r, q : Speaks(r, q) => Speaks(r, q)'
      BY <3>1 DEF Speaks
    <3>4. \A r \in speakers : Speaks(r, "bgp")'
      BY <3>1 DEF Speaks
    <3>5. \A p \in prefixes' : Speaks(p.router, p.proto)'
      BY <3>1, <3>2, <3>3, <3>4 DEF EntriesHaveRouter
    <3>6. \A l \in links' : \E end \in {l.src, l.dst} : Speaks(end, l.proto)'
      BY <3>1, <3>3 DEF EntriesHaveRouter
    <3> QED BY <3>5, <3>6 DEF EntriesHaveRouter
  <2> QED BY <2>1, <2>2, <2>3
        DEF AppNext, CarverPacket, Carve, TopologyPacket, appVars, tables
<1> QED BY <1>1, <1>2, PTL DEF AppSpec
=============================================================================
