------------------------------ MODULE Consumers ------------------------------
(***************************************************************************)
(* dpkt/filecarver.py and dpkt/topology.py: the two applications that own a *)
(* StreamReassembler with its default arguments and no callback, feed it    *)
(* packet by packet and ask its connections for their data at the end.      *)
(* app says which of the two owns this one.  What they list (files, links,  *)
(* prefixes) is modelled as a set: nothing depends on its order.            *)
(***************************************************************************)
EXTENDS StreamReassembler

CONSTANTS ServiceOf,   \* [endpoint -> the service of its port, or "unknown"]
          Speakers,    \* routers that send routing packets or are named in them
          MaxReports,  \* bound: routing packets processed
          MaxAsked     \* bound: calls of carve or build

ASSUME ConsumersAssumption ==
  /\ \A f \in Flows : {f[1], f[2]} \subseteq DOMAIN ServiceOf
  /\ MaxReports \in Nat
  /\ MaxAsked \in Nat
  /\ MaxCallbacks = 0 /\ output_mode = "separate" /\ ~ fill_gaps

VARIABLES app,       \* "carver" or "topology"
          streams,   \* FileCarver._streams: connection -> protocol
          files,     \* FileCarver.files: protocol and content of each
          routers,   \* TopologyBuilder.routers: name -> protocols
          links,     \* TopologyBuilder.links
          prefixes,  \* TopologyBuilder.prefixes
          asked,     \* calls of carve or build so far
          pulled,    \* bytes of each flow that carve or build was given
          reports    \* routing packets processed so far

tables == <<streams, files, routers, links, prefixes>>
appVars == <<vars, app, tables, asked, pulled, reports>>

AppInit ==
  /\ Init
  /\ app \in {"carver", "topology"}
  /\ streams = << >> /\ routers = << >>
  /\ files = {} /\ links = {} /\ prefixes = {}
  /\ asked = 0 /\ reports = 0
  /\ pulled = [f \in Flows |-> NoBytes]
-----------------------------------------------------------------------------
(* FileCarver.  The first service that one of the two ports has.           *)
Services == <<"http", "ftp", "smtp", "pop3", "imap", "smb">>
DetectProtocol(f) ==
  LET of == {i \in DOMAIN Services : \E e \in {f[1], f[2]} : ServiceOf[e] = Services[i]}
  IN  IF of = {} THEN "unknown" ELSE Services[First(of)]

(* Variant: the key is made of the packet's addresses as they come.        *)
TrackUnnormalised(f) ==
  IF f \in DOMAIN streams THEN streams
  ELSE [c \in DOMAIN streams \cup {f} |->
          IF c = f THEN DetectProtocol(f) ELSE streams[c]]

(* process_packet remembers the protocol of a connection it has not seen.  *)
Track(f) ==
  LET id == ConnId(f[1], f[2])
  IN  IF id \in DOMAIN streams THEN streams
      ELSE [c \in DOMAIN streams \cup {id} |->
              IF c = id THEN DetectProtocol(f) ELSE streams[c]]

CarverPacket ==
  /\ app = "carver"
  /\ \E f \in Flows :
       /\ \/ Syn(f)
          \/ \E p \in 1 .. StreamLen + 1, n \in 0 .. StreamLen, fin \in BOOLEAN : Data(f, p, n, fin)
       /\ streams' = Track(f)
  /\ UNCHANGED <<app, files, routers, links, prefixes, asked, pulled, reports>>

(* carve and build take the data out of every connection.                  *)
PullAll ==
  /\ asked < MaxAsked
  /\ asked' = asked + 1
  /\ connections' = [i \in Indices(connections) |->
       [connections[i] EXCEPT !.c2s = AfterGetData(@, FALSE), !.s2c = AfterGetData(@, FALSE)]]
  /\ pulled' = [f \in Flows |-> pulled[f] \o DataOf(BufferOf(f[1], f[2]), FALSE)]
  /\ UNCHANGED <<app, callbacks, received, seen, evicted, reports>>

(* The data _carve_* look for files in: one direction of http, what the    *)
(* server sends of ftp, both of the others.                                *)
CarvedFrom(proto, c2s, s2c) ==
  (CASE proto = "http"    -> {IF s2c # NoBytes THEN s2c ELSE c2s}
     [] proto = "ftp"     -> {s2c}
     [] proto = "unknown" -> {}
     [] OTHER             -> {c2s, s2c}) \ {NoBytes}

(* Whether those data hold a file is up to their content: in holds.        *)
Carve ==
  /\ app = "carver"
  /\ PullAll
  /\ \E holds \in SUBSET {connections[i].id : i \in Indices(connections)} :
       LET ProtoOf(id) == IF id \in DOMAIN streams THEN streams[id] ELSE "unknown"
           Found(c) == {[proto |-> ProtoOf(c.id), content |-> data] :
                          data \in CarvedFrom(ProtoOf(c.id), DataOf(c.c2s, FALSE),
                                              DataOf(c.s2c, FALSE))}
       IN  files' = files \cup
             UNION {Found(connections[i]) :
                      i \in {k \in Indices(connections) : connections[k].id \in holds}}
  /\ UNCHANGED <<streams, routers, links, prefixes>>
-----------------------------------------------------------------------------
(* TopologyBuilder.  BGP goes to the reassembler, which the first packet   *)
(* makes.                                                                  *)
TopologyPacket ==
  /\ app = "topology"
  /\ \E f \in Flows :
       /\ "bgp" \in {ServiceOf[f[1]], ServiceOf[f[2]]}
       /\ \/ Syn(f)
          \/ \E p \in 1 .. StreamLen + 1, n \in 0 .. StreamLen, fin \in BOOLEAN : Data(f, p, n, fin)
  /\ UNCHANGED <<app, tables, asked, pulled, reports>>

(* How a router is named: by its address as _inet_to_str writes it, by the *)
(* integer that str() writes of the same address, by its IS-IS system id.  *)
Dotted(r)   == [form |-> "dotted", of |-> r]
Decimal(r)  == [form |-> "decimal", of |-> r]
SystemId(r) == [form |-> "system id", of |-> r]

NameIn(proto, r) == IF proto = "isis" THEN SystemId(r) ELSE Dotted(r)

(* _get_router, and the protocol added to what it speaks.                  *)
GetRouter(rid, proto) ==
  [r \in DOMAIN routers \cup {rid} |->
     (IF r \in DOMAIN routers THEN routers[r] ELSE {}) \cup (IF r = rid THEN {proto} ELSE {})]

(* What the packets of a protocol hold: links to a far end, and what needs *)
(* none.  An external route with a forwarding address and every RIP entry  *)
(* have an address that is an integer, which inet_ntop refuses with        *)
(* TypeError.                                                              *)
Linking == [ospf |-> {"link", "network"}, isis |-> {"link"}, eigrp |-> {}, rip |-> {}]
Listing == [ospf |-> {"prefix", "forwarded"}, isis |-> {"prefix"},
            eigrp |-> {"prefix"}, rip |-> {"entry"}]
Raises == {"forwarded", "entry"}

Reported(proto) ==
  [kind : Linking[proto], far : Speakers] \cup [kind : Listing[proto], far : {None}]

(* The items before the first one that raises.                             *)
Taken(items) ==
  LET bad == {i \in DOMAIN items : items[i].kind \in Raises}
  IN  IF bad = {} THEN items ELSE SubSeq(items, 1, First(bad) - 1)

TakenOf(items, kinds) ==
  {Taken(items)[i] : i \in {k \in DOMAIN Taken(items) : Taken(items)[k].kind \in kinds}}

(* Variant: both ends of what a network LSA lists are written as integers. *)
LinkOfNumbers(id, proto, item) ==
  IF item.kind = "network"
    THEN [proto |-> proto, src |-> Decimal(item.far), dst |-> Decimal(id.of)]
    ELSE [proto |-> proto, src |-> id,
          dst |-> IF proto = "isis" THEN SystemId(item.far) ELSE Decimal(item.far)]

(* A router LSA and an IS-IS TLV link the router to the far end; a network *)
(* LSA links each router it lists to the one that sent it.                 *)
LinkOf(id, proto, item) ==
  IF item.kind = "network"
    THEN [proto |-> proto, src |-> Decimal(item.far), dst |-> id]
    ELSE [proto |-> proto, src |-> id,
          dst |-> IF proto = "isis" THEN SystemId(item.far) ELSE Decimal(item.far)]

LinksFound(id, proto, items) ==
  {LinkOf(id, proto, item) : item \in TakenOf(items, {"link", "network"})}

PrefixesFound(id, proto, items) ==
  {[proto |-> proto, router |-> id] : item \in TakenOf(items, {"prefix"})}

(* Variant: the router is entered once all items went well.                *)
ExtractLate(rid, proto, items) ==
  LET id == NameIn(proto, rid)
  IN  /\ routers' = IF Taken(items) = items THEN GetRouter(id, proto) ELSE routers
      /\ links' = links \cup LinksFound(id, proto, items)
      /\ prefixes' = prefixes \cup PrefixesFound(id, proto, items)

(* _extract_ospf, _extract_isis, _extract_eigrp and _extract_rip: the      *)
(* router first, then item by item.  What was entered before an exception  *)
(* stays, whether process_packet catches it (rip, isis) or not.            *)
Extract(rid, proto, items) ==
  LET id == NameIn(proto, rid)
  IN  /\ routers' = GetRouter(id, proto)
      /\ links' = links \cup LinksFound(id, proto, items)
      /\ prefixes' = prefixes \cup PrefixesFound(id, proto, items)

Report(rid, proto) ==
  /\ app = "topology"
  /\ reports < MaxReports
  /\ reports' = reports + 1
  /\ \E n \in 0 .. 2 : \E items \in [1 .. n -> Reported(proto)] :
       Extract(rid, proto, items)
  /\ UNCHANGED <<vars, app, streams, files, asked, pulled>>

(* build: the updates found in either direction give prefixes by way of    *)
(* the first endpoint of the connection, those in updates.                 *)
Build ==
  /\ app = "topology"
  /\ PullAll
  /\ \E updates \in SUBSET {connections[i].id : i \in Indices(connections)} :
       LET speakers == {Dotted(connections[i].id[1]) : i \in
             {k \in Indices(connections) :
                /\ connections[k].id \in updates
                /\ \/ DataOf(connections[k].c2s, FALSE) # NoBytes
                   \/ DataOf(connections[k].s2c, FALSE) # NoBytes}}
       IN  /\ routers' = [r \in DOMAIN routers \cup speakers |->
                (IF r \in DOMAIN routers THEN routers[r] ELSE {})
                  \cup (IF r \in speakers THEN {"bgp"} ELSE {})]
           /\ prefixes' = prefixes \cup [proto : {"bgp"}, router : speakers]
  /\ UNCHANGED <<streams, files, links>>

AppNext == CarverPacket \/ Carve \/ TopologyPacket \/ Build
             \/ \E rid \in Speakers, proto \in DOMAIN Listing : Report(rid, proto)

AppSpec == AppInit /\ [][AppNext]_appVars
-----------------------------------------------------------------------------
(* FileCarver computes the key of a connection on its own: each connection *)
(* in the table is in _streams under the same key, with the protocol its   *)
(* ports tell in either direction.  _streams has no limit: it has an entry *)
(* for every connection the table ever had, the evicted ones too, and for  *)
(* no other.                                                               *)
StreamsFollowTable ==
  app = "carver" =>
    /\ DOMAIN streams = {connections[i].id : i \in Indices(connections)} \cup evicted
    /\ \A id \in DOMAIN streams : streams[id] = DetectProtocol(<<id[2], id[1]>>)

Speaks(id, proto) == id \in DOMAIN routers /\ proto \in routers[id]

(* However far an extractor gets before it raises, no prefix is left whose *)
(* router, and no link of which neither end, is entered as a router with   *)
(* the protocol it was reported in.                                        *)
EntriesHaveRouter ==
  /\ \A p \in prefixes : Speaks(p.router, p.proto)
  /\ \A l \in links : \E end \in {l.src, l.dst} : Speaks(end, l.proto)

(* "Extract files from all reassembled streams": carve and build are given *)
(* all that was reassembled of every connection still in the table.        *)
PullGetsReassembled ==
  [][asked' > asked => \A f \in Flows :
       LET b == BufferOf(f[1], f[2]) IN b.isn # None => Len(pulled'[f]) = b.next_seq - 1]_appVars
==============================================================================
