----------------------------- MODULE RelayMesh -----------------------------
(***************************************************************************)
(* How the relay publishers of one private network find each other and     *)
(* stay connected (PrivateNetworkRelayRecordDirectory, in its role of a    *)
(* publisher).  Publishers send records of their addresses over public     *)
(* pubsub, on their own account or when asked.  A publisher caches what it *)
(* hears, and a discovery pass dials what is cached and not connected, one *)
(* record after the other.  Of each pair the lower identifier dials; the   *)
(* higher one does when it has missed the link for the fallback window.    *)
(*                                                                         *)
(* Time is kept as ages: Tick adds to all of them.  Records do not count   *)
(* their time to live: Expire says when it is over.  A network that is     *)
(* taken away and registered again is a new object (its life), while the   *)
(* passes, the record handlers and the subscriptions of the process go on  *)
(* with the one they began with.                                           *)
(***************************************************************************)
EXTENDS Naturals, FiniteSets

CONSTANTS
    Nodes,       \* peer identifiers, ordered as the strings are
    Addresses,   \* multiaddrs a publisher may listen at
    Reach,       \* the pairs <<n, p>> of which n can reach p
    Window,      \* meshFallbackDialDelayMs
    None,
    MaxLives,    \* bound on starts of each node
    MaxFaults    \* bound on links that drop and changes of configuration

ASSUME MeshConstants ==
    /\ Nodes \subseteq Nat /\ Reach \subseteq Nodes \X Nodes
    /\ Window \in Nat \ {0} /\ MaxLives \in [Nodes -> Nat] /\ MaxFaults \in Nat
    /\ None \notin Nat /\ None \notin [at : Addresses, live : BOOLEAN]
    /\ None \notin [peer : Nodes, at : Addresses]

VARIABLES
    node,    \* the processes: is the network up, which life, where it listens,
             \* and the life whose network hears records
    book,    \* the directory: relayRecordEnvelopeCache, knownRelayPublisherPeerIds
             \* and relayPublisherPeerObservedAt, as ages
    pass,    \* activeDiscoveries: the pass of each node
    jobs,    \* handlers of records
    links,   \* connected pairs
    wire,    \* records on their way
    asked,   \* nodes that a request for records is on its way to
    faults,  \* how many links dropped and configurations changed
    seen     \* history: ages of the last look at which the link was up

vars == <<node, book, pass, jobs, links, wire, asked, faults, seen>>

EmptyBook == [cache |-> [p \in Nodes |-> None], known |-> {},
              observed |-> [p \in Nodes |-> None]]

(* The public network, as the end of a pass finds it.                      *)
Public == {"none", "connection", "peers"}
NoPass == [stage |-> "idle", life |-> 0, todo |-> {}, dial |-> None]

Init ==
    /\ node \in [Nodes -> [up : {FALSE}, life : {0}, at : Addresses, hears : {0}]]
    /\ book = [n \in Nodes |-> EmptyBook]
    /\ pass = [n \in Nodes |-> NoPass]
    /\ jobs = {} /\ links = {} /\ wire = {} /\ asked = {} /\ faults = 0
    /\ seen = [n \in Nodes |-> [p \in Nodes |-> Window]]

-----------------------------------------------------------------------------
(* getPeers of the network of one life: a stopped one has none.            *)
Peers(n, l) ==
    IF node[n].up /\ node[n].life = l THEN {p \in Nodes \ {n} : {n, p} \in links} ELSE {}

(* The history: n has looked at the links to P and found them up.          *)
Look(n, P) == seen' = [seen EXCEPT ![n] = [p \in Nodes |-> IF p \in P THEN 0 ELSE @[p]]]

Unobserved(b, P) ==
    [b EXCEPT !.observed = [p \in Nodes |-> IF p \in P THEN None ELSE @[p]]]

(* Mutant of Pruned: what expires is dropped, and still known.             *)
PrunedCache(b) ==
    [b EXCEPT !.cache = [p \in Nodes |-> IF @[p] # None /\ @[p].live THEN @[p] ELSE None]]

(* cachedRelayRecords: an expired record goes with what it was known for.  *)
Pruned(b) ==
    LET gone == {p \in Nodes : b.cache[p] # None /\ ~b.cache[p].live}
    IN  Unobserved([b EXCEPT !.cache = [p \in Nodes |-> IF p \in gone THEN None ELSE @[p]],
                             !.known = @ \ gone], gone)

(* Mutant of Refreshed: inbound connections are not observed.              *)
OnlyPruned(b, P) == Pruned(b)

(* refreshRelayPublisherObservations                                       *)
Refreshed(b, P) == Unobserved(Pruned(b), P)

(* The dials under way, by activePrivateRelayDialKeys.                     *)
Dials(n) == ({pass[n].dial} \ {None}) \cup {j.rec : j \in {k \in jobs : k.node = n /\ k.stage = "dialing"}}

(* shouldDialRelayPublisherPeer, with the network of life l: may n dial,   *)
(* and since when it misses the link.                                      *)
MayDial(n, l, p) ==
    /\ p \notin Peers(n, l)
    /\ n < p \/ (book[n].observed[p] # None /\ book[n].observed[p] >= Window)

(* Mutant of Observed: the first look does not begin the window.           *)
NeverObserved(n, l, p) ==
    IF p \in Peers(n, l) THEN Unobserved(book[n], {p}) ELSE book[n]

Observed(n, l, p) ==
    IF p \in Peers(n, l) THEN Unobserved(book[n], {p})
    ELSE IF n < p \/ book[n].observed[p] # None THEN book[n]
    ELSE [book[n] EXCEPT !.observed[p] = 0]

LooksAt(n, l, p) ==
    /\ book' = [book EXCEPT ![n] = Observed(n, l, p)]
    /\ Look(n, {p} \cap Peers(n, l))

(* dialDiscoveredPrivateRelay starts a dial: one that is under way is not   *)
(* repeated, and a stopped network refuses at once.                        *)
Dialable(n, l, r) ==
    MayDial(n, l, r.peer) /\ r \notin Dials(n) /\ node[n].up /\ node[n].life = l

(* A dial reaches the peer where it listens, if it can be reached at all.  *)
Works(n, l, r) ==
    /\ node[n].up /\ node[n].life = l
    /\ \/ {n, r.peer} \in links
       \/ <<n, r.peer>> \in Reach /\ node[r.peer].up /\ node[r.peer].at = r.at

(* dialDiscoveredPrivateRelay and the rest of connectRelayPublisherPeer    *)
DialSucceeds(n, l, r) ==
    /\ Works(n, l, r)
    /\ links' = links \cup {{n, r.peer}}
    /\ book' = [book EXCEPT ![n] = Unobserved(@, {r.peer})]
    /\ Look(n, {r.peer})
DialFails(n) == UNCHANGED <<links, book, seen>>

-----------------------------------------------------------------------------
(* start: publication and discovery begin with the network.                *)
Start(n) ==
    /\ ~node[n].up /\ node[n].life < MaxLives[n]
    /\ node' = [node EXCEPT ![n].up = TRUE, ![n].life = @ + 1]
    /\ UNCHANGED <<book, pass, jobs, links, wire, asked, faults, seen>>

Unlinked(n) == {l \in links : n \notin l}

(* stop: the network goes, and what runs goes on with the stopped one.     *)
Stop(n) ==
    /\ node[n].up
    /\ node' = [node EXCEPT ![n].up = FALSE]
    /\ book' = [book EXCEPT ![n] = EmptyBook]
    /\ links' = Unlinked(n)
    /\ UNCHANGED <<pass, jobs, wire, asked, faults, seen>>

(* The process ends; the next one may listen elsewhere.                    *)
Crash(n) ==
    /\ node[n].up
    /\ \E a \in Addresses :
         node' = [node EXCEPT ![n] = [@ EXCEPT !.up = FALSE, !.hears = 0, !.at = a]]
    /\ book' = [book EXCEPT ![n] = EmptyBook]
    /\ pass' = [pass EXCEPT ![n] = NoPass]
    /\ jobs' = {j \in jobs : j.node # n}
    /\ links' = Unlinked(n) /\ asked' = asked \ {n}
    /\ UNCHANGED <<wire, faults, seen>>

Drop(l) ==
    /\ faults < MaxFaults
    /\ links' = links \ {l} /\ faults' = faults + 1
    /\ UNCHANGED <<node, book, pass, jobs, wire, asked, seen>>

-----------------------------------------------------------------------------
Broadcast(n, at) == {[to |-> p, rec |-> [peer |-> n, at |-> at]] : p \in Nodes \ {n}}

(* publishRelayRecord, once the public connection has peers.               *)
Publish(n) ==
    /\ node[n].up
    /\ book' = [book EXCEPT ![n].cache[n] = [at |-> node[n].at, live |-> TRUE]]
    /\ wire' = wire \cup Broadcast(n, node[n].at)
    /\ UNCHANGED <<node, pass, jobs, links, asked, faults, seen>>

(* The handler of requests, of an active publication.                      *)
Answer(n) ==
    /\ n \in asked
    /\ asked' = asked \ {n}
    /\ wire' = IF node[n].up /\ book[n].cache[n] # None /\ book[n].cache[n].live
                 THEN wire \cup Broadcast(n, book[n].cache[n].at) ELSE wire
    /\ UNCHANGED <<node, book, pass, jobs, links, faults, seen>>

(* The handler of records, up to the save that it waits for.               *)
Hear(m) ==
    LET n == m.to
        p == m.rec.peer
        l == node[n].hears
        up == p \in Peers(n, l) /\ node[n].up
        heard == [book[n] EXCEPT !.cache[p] = [at |-> m.rec.at, live |-> TRUE],
                                 !.known = IF node[n].up THEN @ \cup {p} ELSE @]
    IN  /\ m \in wire /\ l # 0
        /\ wire' = wire \ {m}
        /\ book' = [book EXCEPT ![n] = IF up THEN Unobserved(heard, {p}) ELSE heard]
        /\ Look(n, IF up THEN {p} ELSE {})
        /\ jobs' = jobs \cup {[node |-> n, life |-> l, stage |-> "saving", rec |-> m.rec]}
        /\ UNCHANGED <<node, pass, links, asked, faults>>

(* Pubsub loses messages, and a record may expire on its way.              *)
Lose(m) ==
    /\ m \in wire /\ wire' = wire \ {m}
    /\ UNCHANGED <<node, book, pass, jobs, links, asked, faults, seen>>
LoseRequest(n) ==
    /\ n \in asked /\ asked' = asked \ {n}
    /\ UNCHANGED <<node, book, pass, jobs, links, wire, faults, seen>>

(* connectRelayRecord of a handler.  Without a network it dials as a leaf, *)
(* from a network that is stopped.                                         *)
JobLooks(j) ==
    /\ j \in jobs /\ j.stage = "saving"
    /\ \/ /\ node[j.node].up
          /\ LooksAt(j.node, j.life, j.rec.peer)
          /\ jobs' = (jobs \ {j}) \cup
                     IF Dialable(j.node, j.life, j.rec)
                       THEN {[j EXCEPT !.stage = "dialing"]} ELSE {}
       \/ /\ ~node[j.node].up
          /\ jobs' = jobs \ {j}
          /\ UNCHANGED <<book, seen>>
    /\ UNCHANGED <<node, pass, links, wire, asked, faults>>

JobDials(j, dials) ==
    /\ j \in jobs /\ j.stage = "dialing"
    /\ IF dials THEN DialSucceeds(j.node, j.life, j.rec) ELSE DialFails(j.node)
    /\ jobs' = jobs \ {j}
    /\ UNCHANGED <<node, pass, wire, asked, faults>>

-----------------------------------------------------------------------------
(* getDiscoveryState: is a link missing, or a refresh due?                 *)
NeedsDiscovery(b, P, due) == b.known \cap P = {} \/ ~(b.known \subseteq P) \/ due

(* discover, and discoverNow up to the records to reconnect.               *)
StartPass(n, due) ==
    LET l == node[n].life
        P == Peers(n, l)
        b == Refreshed(book[n], P)
    IN  /\ node[n].up /\ pass[n].stage = "idle"
        /\ book' = [book EXCEPT ![n] = b]
        /\ Look(n, P)
        /\ pass' = IF NeedsDiscovery(b, P, due)
                     THEN [pass EXCEPT ![n] =
                            [stage |-> "reconnecting", life |-> l, dial |-> None,
                             todo |-> {[peer |-> p, at |-> b.cache[p].at] :
                                         p \in {q \in Nodes \ {n} : b.cache[q] # None}}]]
                     ELSE pass
        /\ UNCHANGED <<node, jobs, links, wire, asked, faults>>

(* reconnectCachedRelayPublishers: the next record, and its dial.          *)
PassLooks(n, r) ==
    /\ pass[n].stage = "reconnecting" /\ pass[n].dial = None /\ r \in pass[n].todo
    /\ LooksAt(n, pass[n].life, r.peer)
    /\ pass' = [pass EXCEPT ![n].todo = @ \ {r},
                            ![n].dial = IF Dialable(n, pass[n].life, r) THEN r ELSE None]
    /\ UNCHANGED <<node, jobs, links, wire, asked, faults>>

PassDials(n, dials) ==
    /\ pass[n].dial # None
    /\ IF dials THEN DialSucceeds(n, pass[n].life, pass[n].dial) ELSE DialFails(n)
    /\ pass' = [pass EXCEPT ![n].dial = None]
    /\ UNCHANGED <<node, jobs, wire, asked, faults>>

(* The end of a pass: without a public connection nothing more; with one   *)
(* it subscribes, once for the connection, and with public peers it asks   *)
(* for records.                                                            *)
PassEnds(n, public) ==
    /\ pass[n].stage = "reconnecting" /\ pass[n].dial = None /\ pass[n].todo = {}
    /\ node' = IF public # "none" /\ node[n].hears = 0
                 THEN [node EXCEPT ![n].hears = pass[n].life] ELSE node
    /\ asked' = IF public = "peers" THEN asked \cup (Nodes \ {n}) ELSE asked
    /\ pass' = [pass EXCEPT ![n] = NoPass]
    /\ UNCHANGED <<book, jobs, links, wire, faults, seen>>

(* configurePublicConnection with other options: the next connection has   *)
(* no subscriptions.                                                       *)
Reconfigure(n) ==
    /\ faults < MaxFaults /\ faults' = faults + 1
    /\ node[n].hears # 0
    /\ node' = [node EXCEPT ![n].hears = 0]
    /\ UNCHANGED <<book, pass, jobs, links, wire, asked, seen>>

(* A record reaches the end of its time to live in a cache.                *)
Expire(n, p) ==
    /\ book[n].cache[p] # None /\ book[n].cache[p].live
    /\ book' = [book EXCEPT ![n].cache[p].live = FALSE]
    /\ UNCHANGED <<node, pass, jobs, links, wire, asked, faults, seen>>

(* Time passes, up to the window in every age.                             *)
Older(a) == IF a = None \/ a = Window THEN a ELSE a + 1
Tick ==
    /\ book' = [n \in Nodes |->
                 [book[n] EXCEPT !.observed = [p \in Nodes |-> Older(@[p])]]]
    /\ seen' = [n \in Nodes |-> [p \in Nodes |-> Older(seen[n][p])]]
    /\ UNCHANGED <<node, pass, jobs, links, wire, asked, faults>>

Next ==
    \/ \E n \in Nodes :
         \/ Start(n) \/ Stop(n) \/ Crash(n) \/ Publish(n) \/ Answer(n) \/ LoseRequest(n)
         \/ Reconfigure(n)
         \/ \E b \in BOOLEAN : StartPass(n, b) \/ PassDials(n, b)
         \/ \E c \in Public : PassEnds(n, c)
         \/ \E r \in pass[n].todo : PassLooks(n, r)
         \/ \E p \in Nodes : Expire(n, p)
    \/ \E m \in wire : Hear(m) \/ Lose(m)
    \/ \E j \in jobs : JobLooks(j) \/ \E b \in BOOLEAN : JobDials(j, b)
    \/ \E l \in links : Drop(l)
    \/ Tick

Spec == Init /\ [][Next]_vars
=============================================================================
