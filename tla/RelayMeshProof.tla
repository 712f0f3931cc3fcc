--------------------------- MODULE RelayMeshProof ---------------------------
(***************************************************************************)
(* The higher identifier of a pair waits for the whole fallback window     *)
(* before it dials, for any number of publishers, restarts, handlers and   *)
(* faults and any window.                                                  *)
(***************************************************************************)
EXTENDS RelayMeshProperties, TLAPS

Records == [peer : Nodes, at : Addresses]
Seen    == [Nodes -> 0 .. Window]
Books   == [cache    : [Nodes -> [at : Addresses, live : BOOLEAN] \cup {None}],
            known    : SUBSET Nodes,
            observed : [Nodes -> (0 .. Window) \cup {None}]]

NodesOK  == node \in [Nodes -> [up : BOOLEAN, life : Nat, at : Addresses, hears : Nat]]
PassesOK == pass \in [Nodes -> [stage : {"idle", "reconnecting"}, life : Nat,
                                todo : SUBSET Records, dial : Records \cup {None}]]
JobsOK   == jobs \subseteq [node : Nodes, life : Nat, stage : {"saving", "dialing"}, rec : Records]
WireOK   == wire \subseteq [to : Nodes, rec : Records]

(* A directory notes a missing link only after the last look that found it *)
(* up: what it has observed is no older than that look.                    *)
IsNoOlder(b, s) == \A p \in Nodes : b.observed[p] # None => b.observed[p] <= s[p]
BooksOK ==
    /\ book \in [Nodes -> Books] /\ seen \in [Nodes -> Seen]
    /\ \A n \in Nodes : IsNoOlder(book[n], seen[n])

Inv == NodesOK /\ PassesOK /\ JobsOK /\ WireOK /\ BooksOK

-----------------------------------------------------------------------------
(* Forgetting the observations of what a look has found keeps a directory  *)
(* right.                                                                  *)
LEMMA ForgetSeen ==
    ASSUME NEW b \in Books, NEW s \in Seen, NEW P, IsNoOlder(b, s)
    PROVE  /\ Unobserved(b, P) \in Books
           /\ Unobserved(b, P).cache = b.cache
           /\ IsNoOlder(Unobserved(b, P), s)
           /\ IsNoOlder(Unobserved(b, P), [p \in Nodes |-> IF p \in P THEN 0 ELSE s[p]])
<1> DEFINE o == [p \in Nodes |-> IF p \in P THEN None ELSE b.observed[p]]
<1>1. Unobserved(b, P) = [b EXCEPT !.observed = o]
  BY DEF Unobserved
<1>2. o \in [Nodes -> (0 .. Window) \cup {None}]
  BY DEF Books
<1>3. \A p \in Nodes : o[p] # None => p \notin P /\ o[p] = b.observed[p]
  OBVIOUS
<1> HIDE DEF o
<1>4. /\ Unobserved(b, P) \in Books /\ Unobserved(b, P).cache = b.cache
      /\ Unobserved(b, P).observed = o
  BY <1>1, <1>2 DEF Books
<1> QED
  BY <1>3, <1>4 DEF IsNoOlder

(* Dropping what has expired keeps a directory right.                      *)
LEMMA PrunedOK ==
    ASSUME NEW b \in Books, NEW s \in Seen, IsNoOlder(b, s)
    PROVE  Pruned(b) \in Books /\ IsNoOlder(Pruned(b), s)
<1> DEFINE gone == {p \in Nodes : b.cache[p] # None /\ ~b.cache[p].live}
           c == [p \in Nodes |-> IF p \in gone THEN None ELSE b.cache[p]]
           d == [b EXCEPT !.cache = c, !.known = @ \ gone]
<1>1. Pruned(b) = Unobserved(d, gone)
  BY DEF Pruned
<1>2. c \in [Nodes -> [at : Addresses, live : BOOLEAN] \cup {None}]
  BY DEF Books
<1> HIDE DEF c, gone
<1>3. d \in Books /\ d.observed = b.observed
  BY <1>2 DEF Books
<1> HIDE DEF d
<1>4. IsNoOlder(d, s)
  BY <1>3 DEF IsNoOlder
<1> QED
  BY <1>1, <1>3, <1>4, ForgetSeen

(* A look at one publisher keeps the directories right, whatever it finds. *)
LEMMA LooksAtOK ==
    ASSUME BooksOK, NEW n \in Nodes, NEW l, NEW p \in Nodes, LooksAt(n, l, p)
    PROVE  BooksOK'
<1> DEFINE P == {p} \cap Peers(n, l)
           s == [q \in Nodes |-> IF q \in P THEN 0 ELSE seen[n][q]]
<1>1. /\ book[n] \in Books /\ seen[n] \in Seen /\ IsNoOlder(book[n], seen[n])
      /\ book' = [book EXCEPT ![n] = Observed(n, l, p)]
      /\ seen' = [seen EXCEPT ![n] = s]
  BY DEF BooksOK, LooksAt, Look
<1>2. s \in Seen
  BY <1>1, MeshConstants DEF Seen
<1>3. Observed(n, l, p) \in Books /\ IsNoOlder(Observed(n, l, p), s)
  <2>1. CASE p \in Peers(n, l)
    <3>1. P = {p} /\ Observed(n, l, p) = Unobserved(book[n], P)
      BY <2>1 DEF Observed
    <3> HIDE DEF P
    <3> QED
      BY <1>1, <3>1, ForgetSeen
  <2>2. CASE p \notin Peers(n, l)
    <3>1. s = seen[n]
      BY <1>1, <2>2 DEF Seen
    <3>2. CASE n < p \/ book[n].observed[p] # None
      BY <1>1, <2>2, <3>1, <3>2 DEF Observed
    <3>3. CASE ~(n < p \/ book[n].observed[p] # None)
      <4>1. Observed(n, l, p) = [book[n] EXCEPT !.observed[p] = 0]
        BY <2>2, <3>3 DEF Observed
      <4> DEFINE o == [book[n].observed EXCEPT ![p] = 0]
      <4>2. o \in [Nodes -> (0 .. Window) \cup {None}]
        BY <1>1, MeshConstants DEF Books
      <4>3. \A q \in Nodes : o[q] = IF q = p THEN 0 ELSE book[n].observed[q]
        BY <1>1 DEF Books
      <4>4. Observed(n, l, p) = [book[n] EXCEPT !.observed = o]
        BY <4>1
      <4> HIDE DEF o
      <4>5. Observed(n, l, p) \in Books /\ Observed(n, l, p).observed = o
        BY <1>1, <4>2, <4>4 DEF Books
      <4>6. \A q \in Nodes : 0 <= seen[n][q]
        BY <1>1, MeshConstants DEF Seen
      <4> QED
        BY <1>1, <3>1, <4>3, <4>5, <4>6 DEF IsNoOlder
    <3> QED
      BY <3>2, <3>3
  <2> QED
    BY <2>1, <2>2
<1> HIDE DEF s, P
<1> QED
  BY <1>1, <1>2, <1>3 DEF BooksOK

(* What is found up is forgotten with the same look.                       *)
LEMMA FoundUp ==
    ASSUME BooksOK, NEW n \in Nodes, NEW b \in Books, IsNoOlder(b, seen[n]), NEW P,
           book' = [book EXCEPT ![n] = Unobserved(b, P)], Look(n, P)
    PROVE  BooksOK'
<1> DEFINE s == [p \in Nodes |-> IF p \in P THEN 0 ELSE seen[n][p]]
<1>1. seen[n] \in Seen /\ seen' = [seen EXCEPT ![n] = s]
  BY DEF BooksOK, Look
<1>2. s \in Seen
  BY <1>1, MeshConstants DEF Seen
<1>3. Unobserved(b, P) \in Books /\ IsNoOlder(Unobserved(b, P), s)
  BY <1>1, ForgetSeen
<1> HIDE DEF s
<1> QED
  BY <1>1, <1>2, <1>3 DEF BooksOK

(* A look that finds nothing leaves the history as it is.                  *)
LEMMA NothingFound ==
    ASSUME BooksOK, NEW n \in Nodes, Look(n, {})
    PROVE  seen' = seen
BY DEF BooksOK, Look, Seen

(* A directory may take what it knows and caches from anywhere.            *)
LEMMA Rewritten ==
    ASSUME BooksOK, NEW n \in Nodes, NEW b \in Books, IsNoOlder(b, seen[n]),
           book' = [book EXCEPT ![n] = b], seen' = seen
    PROVE  BooksOK'
BY DEF BooksOK

LEMMA EmptyOK ==
    ASSUME NEW s \in Seen
    PROVE  EmptyBook \in Books /\ IsNoOlder(EmptyBook, s)
BY DEF EmptyBook, Books, IsNoOlder

LEMMA Cached ==
    ASSUME BooksOK, NEW n \in Nodes, NEW p \in Nodes, NEW K \in SUBSET Nodes,
           NEW e \in [at : Addresses, live : BOOLEAN], NEW b,
           b = [book[n] EXCEPT !.cache[p] = e, !.known = K]
    PROVE  b \in Books /\ IsNoOlder(b, seen[n])
<1> DEFINE c == [book[n].cache EXCEPT ![p] = e]
<1>1. book[n] \in Books /\ IsNoOlder(book[n], seen[n])
  BY DEF BooksOK
<1>2. c \in [Nodes -> [at : Addresses, live : BOOLEAN] \cup {None}]
  BY <1>1 DEF Books
<1>3. b = [book[n] EXCEPT !.cache = c, !.known = K]
  OBVIOUS
<1> HIDE DEF c
<1>4. b \in Books /\ b.observed = book[n].observed
  BY <1>1, <1>2, <1>3 DEF Books
<1> QED
  BY <1>1, <1>4 DEF IsNoOlder

(* Time adds the same to what was observed and to what was seen.           *)
LEMMA TickOK ==
    ASSUME BooksOK, Tick
    PROVE  BooksOK'
<1>1. \A a \in 0 .. Window : Older(a) \in 0 .. Window
  BY MeshConstants DEF Older
<1>2. \A a, b \in 0 .. Window : a <= b => Older(a) <= Older(b)
  BY MeshConstants DEF Older
<1>3. Older(None) = None /\ \A a \in 0 .. Window : Older(a) # None
  BY <1>1, MeshConstants DEF Older
<1>4. seen' \in [Nodes -> Seen] /\ \A n, p \in Nodes : seen'[n][p] = Older(seen[n][p])
  BY <1>1 DEF Tick, BooksOK, Seen
<1>5. ASSUME NEW n \in Nodes
      PROVE  book'[n] \in Books /\ IsNoOlder(book'[n], seen'[n])
  <2> DEFINE o == [p \in Nodes |-> Older(book[n].observed[p])]
  <2>1. /\ book[n] \in Books /\ seen[n] \in Seen /\ IsNoOlder(book[n], seen[n])
        /\ book'[n] = [book[n] EXCEPT !.observed = o]
    BY DEF BooksOK, Tick
  <2>2. \A p \in Nodes : book[n].observed[p] \in (0 .. Window) \cup {None}
    BY <2>1 DEF Books
  <2>3. o \in [Nodes -> (0 .. Window) \cup {None}]
    BY <1>1, <1>3, <2>2
  <2>4. \A p \in Nodes : o[p] = Older(book[n].observed[p])
    OBVIOUS
  <2> HIDE DEF o
  <2>5. book'[n] \in Books /\ book'[n].observed = o
    BY <2>1, <2>3 DEF Books
  <2>6. ASSUME NEW p \in Nodes, o[p] # None
        PROVE  o[p] <= seen'[n][p]
    <3>1. book[n].observed[p] # None
      BY <1>3, <2>4, <2>6
    <3>2. book[n].observed[p] \in 0 .. Window /\ book[n].observed[p] <= seen[n][p]
      BY <2>1, <2>2, <3>1 DEF IsNoOlder
    <3>3. seen[n][p] \in 0 .. Window
      BY <2>1 DEF Seen
    <3> QED
      BY <1>2, <1>4, <2>4, <3>2, <3>3
  <2> QED
    BY <2>5, <2>6 DEF IsNoOlder
<1>6. book' \in [Nodes -> Books]
  <2>1. book' = [n \in Nodes |-> book'[n]]
    BY DEF Tick
  <2>2. \A n \in Nodes : book'[n] \in Books
    BY <1>5
  <2> DEFINE B == book'
  <2>3. B = [n \in Nodes |-> B[n]] /\ \A n \in Nodes : B[n] \in Books
    BY <2>1, <2>2
  <2> HIDE DEF B
  <2>4. B \in [Nodes -> Books]
    BY <2>3, Zenon
  <2> QED
    BY <2>4 DEF B
<1> QED
  BY <1>4, <1>5, <1>6 DEF BooksOK

LEMMA InitOK == Init => Inv
<1> SUFFICES ASSUME Init PROVE Inv
  OBVIOUS
<1>1. [p \in Nodes |-> Window] \in Seen
  BY MeshConstants DEF Seen
<1>2. BooksOK
  BY <1>1, EmptyOK DEF Init, BooksOK
<1>3. NodesOK
  <2>1. [up : {FALSE}, life : {0}, at : Addresses, hears : {0}]
          \subseteq [up : BOOLEAN, life : Nat, at : Addresses, hears : Nat]
    <3>1. FALSE \in BOOLEAN /\ 0 \in Nat
      OBVIOUS
    <3> QED
      BY <3>1, Zenon
  <2> QED
    BY <2>1 DEF Init, NodesOK
<1>4. PassesOK
  BY DEF Init, PassesOK, NoPass
<1> QED
  BY <1>2, <1>3, <1>4 DEF Inv, Init, JobsOK, WireOK

-----------------------------------------------------------------------------
LEMMA NodesStep == Inv /\ [Next]_vars => NodesOK'
<1> SUFFICES ASSUME Inv, [Next]_vars PROVE NodesOK'
  OBVIOUS
<1> USE DEF Inv, NodesOK
<1>1. ASSUME NEW n \in Nodes, Start(n) PROVE NodesOK'
  BY <1>1 DEF Start
<1>2. ASSUME NEW n \in Nodes, Stop(n) PROVE NodesOK'
  BY <1>2 DEF Stop
<1>3. ASSUME NEW n \in Nodes, Crash(n) PROVE NodesOK'
  <2>1. PICK a \in Addresses :
          node' = [node EXCEPT ![n] = [@ EXCEPT !.up = FALSE, !.hears = 0, !.at = a]]
    BY <1>3 DEF Crash
  <2>2. [node[n] EXCEPT !.up = FALSE, !.hears = 0, !.at = a]
          \in [up : BOOLEAN, life : Nat, at : Addresses, hears : Nat]
    OBVIOUS
  <2> QED
    BY <2>1, <2>2
<1>4. ASSUME NEW n \in Nodes, Reconfigure(n) PROVE NodesOK'
  BY <1>4 DEF Reconfigure
<1>5. ASSUME NEW n \in Nodes, NEW c \in Public, PassEnds(n, c) PROVE NodesOK'
  <2>1. pass[n].life \in Nat
    BY DEF PassesOK
  <2> QED
    BY <1>5, <2>1 DEF PassEnds
<1>6. CASE UNCHANGED node
  BY <1>6
<1> QED
  BY <1>1, <1>2, <1>3, <1>4, <1>5, <1>6
  DEF Next, vars, Publish, Answer, LoseRequest, StartPass, PassDials, PassLooks, Expire, Hear,
      Lose, JobLooks, JobDials, Drop, Tick

LEMMA WireStep == Inv /\ [Next]_vars => WireOK'
<1> SUFFICES ASSUME Inv, [Next]_vars PROVE WireOK'
  OBVIOUS
<1> USE DEF Inv, WireOK
<1>1. ASSUME NEW n \in Nodes, NEW at \in Addresses
      PROVE  Broadcast(n, at) \subseteq [to : Nodes, rec : Records]
  BY DEF Broadcast, Records
<1>2. ASSUME NEW n \in Nodes, Publish(n) PROVE WireOK'
  <2>1. node[n].at \in Addresses
    BY DEF NodesOK
  <2> QED
    BY <1>1, <1>2, <2>1 DEF Publish
<1>3. ASSUME NEW n \in Nodes, Answer(n) PROVE WireOK'
  <2>1. book[n].cache[n] # None => book[n].cache[n].at \in Addresses
    BY DEF BooksOK, Books
  <2> QED
    BY <1>1, <1>3, <2>1 DEF Answer
<1>4. CASE wire' \subseteq wire
  BY <1>4
<1> QED
  BY <1>2, <1>3, <1>4
  DEF Next, vars, Start, Stop, Crash, Reconfigure, LoseRequest, StartPass, PassDials, PassLooks,
      PassEnds, Expire, Hear, Lose, JobLooks, JobDials, Drop, Tick

LEMMA JobsStep == Inv /\ [Next]_vars => JobsOK'
<1> SUFFICES ASSUME Inv, [Next]_vars PROVE JobsOK'
  OBVIOUS
<1> USE DEF Inv, JobsOK
<1>1. ASSUME NEW m \in wire, Hear(m) PROVE JobsOK'
  <2>1. m.to \in Nodes /\ m.rec \in Records
    BY DEF WireOK
  <2>2. node[m.to].hears \in Nat
    BY <2>1 DEF NodesOK
  <2> QED
    BY <1>1, <2>1, <2>2 DEF Hear
<1>2. ASSUME NEW j \in jobs, JobLooks(j) PROVE JobsOK'
  BY <1>2 DEF JobLooks
<1>3. CASE jobs' \subseteq jobs
  BY <1>3
<1> QED
  BY <1>1, <1>2, <1>3
  DEF Next, vars, Start, Stop, Crash, Reconfigure, Publish, Answer, LoseRequest, StartPass,
      PassDials, PassLooks, PassEnds, Expire, Lose, JobDials, Drop, Tick

LEMMA PassesStep == Inv /\ [Next]_vars => PassesOK'
<1> SUFFICES ASSUME Inv, [Next]_vars PROVE PassesOK'
  OBVIOUS
<1> USE DEF Inv, PassesOK
<1>1. ASSUME NEW n \in Nodes, NEW due \in BOOLEAN, StartPass(n, due) PROVE PassesOK'
  <2> DEFINE b == Refreshed(book[n], Peers(n, node[n].life))
             todo == {[peer |-> p, at |-> b.cache[p].at] :
                        p \in {q \in Nodes \ {n} : b.cache[q] # None}}
  <2>1. book[n] \in Books /\ seen[n] \in Seen /\ IsNoOlder(book[n], seen[n])
    BY DEF BooksOK
  <2>2. b \in Books
    BY <2>1, PrunedOK, ForgetSeen DEF Refreshed
  <2>3. node[n].life \in Nat
    BY DEF NodesOK
  <2>4. pass' = pass \/
        pass' = [pass EXCEPT ![n] = [stage |-> "reconnecting", life |-> node[n].life,
                                     dial |-> None, todo |-> todo]]
    BY <1>1 DEF StartPass
  <2> HIDE DEF b
  <2>5. todo \subseteq Records
    BY <2>2 DEF Books, Records
  <2> HIDE DEF todo
  <2> QED
    BY <2>3, <2>4, <2>5
<1>2. ASSUME NEW n \in Nodes, NEW r \in pass[n].todo, PassLooks(n, r) PROVE PassesOK'
  <2> DEFINE P == [stage : {"idle", "reconnecting"}, life : Nat,
                   todo : SUBSET Records, dial : Records \cup {None}]
             d == IF Dialable(n, pass[n].life, r) THEN r ELSE None
             q == [pass[n] EXCEPT !.todo = pass[n].todo \ {r}, !.dial = d]
  <2>1. pass \in [Nodes -> P]
    OBVIOUS
  <2>2. pass' = [pass EXCEPT ![n] = q]
    BY <1>2 DEF PassLooks
  <2> HIDE DEF Inv, PassesOK
  <2>3. pass[n] \in P
    BY <2>1
  <2>4. d \in Records \cup {None}
    BY <1>2, <2>3
  <2> HIDE DEF d
  <2>5. q \in P
    BY <2>3, <2>4
  <2> HIDE DEF q, P
  <2>6. pass' \in [Nodes -> P]
    BY <2>1, <2>2, <2>5
  <2> QED
    BY <2>6 DEF P, PassesOK
<1>3. ASSUME NEW n \in Nodes, NEW d \in BOOLEAN, PassDials(n, d) PROVE PassesOK'
  BY <1>3 DEF PassDials
<1>4. ASSUME NEW n \in Nodes, NEW c \in Public, PassEnds(n, c) PROVE PassesOK'
  BY <1>4 DEF PassEnds, NoPass
<1>5. ASSUME NEW n \in Nodes, Crash(n) PROVE PassesOK'
  BY <1>5 DEF Crash, NoPass
<1>6. CASE UNCHANGED pass
  BY <1>6
<1> HIDE DEF Inv, PassesOK
<1> QED
  BY <1>1, <1>2, <1>3, <1>4, <1>5, <1>6
  DEF Next, vars, Start, Stop, Reconfigure, Publish, Answer, LoseRequest, Expire, Hear, Lose,
      JobLooks, JobDials, Drop, Tick

LEMMA DialSucceedsOK ==
    ASSUME BooksOK, NEW n \in Nodes, NEW l, NEW r \in Records, DialSucceeds(n, l, r)
    PROVE  BooksOK'
BY FoundUp DEF DialSucceeds, BooksOK

LEMMA BooksStep == Inv /\ [Next]_vars => BooksOK'
<1> SUFFICES ASSUME Inv, [Next]_vars PROVE BooksOK'
  OBVIOUS
<1>0. /\ NodesOK /\ PassesOK /\ JobsOK /\ WireOK /\ BooksOK
      /\ \A n \in Nodes : book[n] \in Books /\ seen[n] \in Seen /\ IsNoOlder(book[n], seen[n])
  BY DEF Inv, BooksOK
<1>1. ASSUME NEW n \in Nodes, Stop(n) \/ Crash(n) PROVE BooksOK'
  BY <1>0, <1>1, EmptyOK, Rewritten DEF Stop, Crash
<1>2. ASSUME NEW n \in Nodes, Publish(n) PROVE BooksOK'
  <2> DEFINE e == [at |-> node[n].at, live |-> TRUE]
             b == [book[n] EXCEPT !.cache[n] = e, !.known = book[n].known]
  <2>1. e \in [at : Addresses, live : BOOLEAN] /\ book[n].known \in SUBSET Nodes
    BY <1>0 DEF NodesOK, Books
  <2> HIDE DEF e
  <2>2. b \in Books /\ IsNoOlder(b, seen[n])
    BY <1>0, <2>1, Cached
  <2>3. b = [book[n] EXCEPT !.cache[n] = e]
    BY <1>0 DEF Books
  <2>4. book' = [book EXCEPT ![n] = b] /\ seen' = seen
    BY <1>2, <2>3 DEF Publish, e
  <2> HIDE DEF b
  <2> QED
    BY <1>0, <2>2, <2>4, Rewritten
<1>3. ASSUME NEW m \in wire, Hear(m) PROVE BooksOK'
  <2> DEFINE n == m.to
             p == m.rec.peer
             up == p \in Peers(n, node[n].hears) /\ node[n].up
             e == [at |-> m.rec.at, live |-> TRUE]
             K == IF node[n].up THEN book[n].known \cup {p} ELSE book[n].known
             heard == [book[n] EXCEPT !.cache[p] = e, !.known = K]
  <2>1. n \in Nodes /\ p \in Nodes /\ m.rec.at \in Addresses
    BY <1>0 DEF WireOK, Records
  <2>2. K \in SUBSET Nodes /\ e \in [at : Addresses, live : BOOLEAN]
    BY <1>0, <2>1 DEF Books
  <2>3. /\ book' = [book EXCEPT ![n] = IF up THEN Unobserved(heard, {p}) ELSE heard]
        /\ Look(n, IF up THEN {p} ELSE {})
    BY <1>3 DEF Hear
  <2> HIDE DEF n, p, e, K
  <2>4. heard \in Books /\ IsNoOlder(heard, seen[n])
    BY <1>0, <2>1, <2>2, Cached
  <2> HIDE DEF heard, up
  <2>5. CASE up
    BY <1>0, <2>1, <2>3, <2>4, <2>5, FoundUp
  <2>6. CASE ~up
    <3>1. seen' = seen
      BY <1>0, <2>1, <2>3, <2>6, NothingFound
    <3> QED
      BY <1>0, <2>1, <2>3, <2>4, <2>6, <3>1, Rewritten
  <2> QED
    BY <2>5, <2>6
<1>4. ASSUME NEW j \in jobs, JobLooks(j) PROVE BooksOK'
  <2>1. j.node \in Nodes /\ j.rec.peer \in Nodes
    BY <1>0 DEF JobsOK, Records
  <2>2. CASE LooksAt(j.node, j.life, j.rec.peer)
    BY <1>0, <2>1, <2>2, LooksAtOK
  <2>3. CASE UNCHANGED <<book, seen>>
    BY <1>0, <2>3 DEF BooksOK
  <2> QED
    BY <1>4, <2>2, <2>3 DEF JobLooks
<1>5. ASSUME NEW j \in jobs, NEW d \in BOOLEAN, JobDials(j, d) PROVE BooksOK'
  <2>1. j.node \in Nodes /\ j.rec \in Records
    BY <1>0 DEF JobsOK
  <2>2. CASE DialSucceeds(j.node, j.life, j.rec)
    BY <1>0, <2>1, <2>2, DialSucceedsOK
  <2>3. CASE UNCHANGED <<book, seen>>
    BY <1>0, <2>3 DEF BooksOK
  <2> QED
    BY <1>5, <2>2, <2>3 DEF JobDials, DialFails
<1>6. ASSUME NEW n \in Nodes, NEW due \in BOOLEAN, StartPass(n, due) PROVE BooksOK'
  <2> DEFINE P == Peers(n, node[n].life)
             b == Pruned(book[n])
  <2>1. b \in Books /\ IsNoOlder(b, seen[n])
    BY <1>0, PrunedOK
  <2>2. book' = [book EXCEPT ![n] = Unobserved(b, P)] /\ Look(n, P)
    BY <1>6 DEF StartPass, Refreshed
  <2> HIDE DEF b, P
  <2> QED
    BY <1>0, <2>1, <2>2, FoundUp
<1>7. ASSUME NEW n \in Nodes, NEW r \in pass[n].todo, PassLooks(n, r) PROVE BooksOK'
  <2>1. r.peer \in Nodes
    BY <1>0 DEF PassesOK, Records
  <2> QED
    BY <1>0, <1>7, <2>1, LooksAtOK DEF PassLooks
<1>8. ASSUME NEW n \in Nodes, NEW d \in BOOLEAN, PassDials(n, d) PROVE BooksOK'
  <2>1. pass[n].dial \in Records
    BY <1>0, <1>8 DEF PassesOK, PassDials
  <2>2. CASE DialSucceeds(n, pass[n].life, pass[n].dial)
    BY <1>0, <2>1, <2>2, DialSucceedsOK
  <2>3. CASE UNCHANGED <<book, seen>>
    BY <1>0, <2>3 DEF BooksOK
  <2> QED
    BY <1>8, <2>2, <2>3 DEF PassDials, DialFails
<1>9. ASSUME NEW n \in Nodes, NEW p \in Nodes, Expire(n, p) PROVE BooksOK'
  <2> DEFINE e == [book[n].cache[p] EXCEPT !.live = FALSE]
             b == [book[n] EXCEPT !.cache[p] = e, !.known = book[n].known]
  <2>1. e \in [at : Addresses, live : BOOLEAN] /\ book[n].known \in SUBSET Nodes
    <3>1. book[n].cache \in [Nodes -> [at : Addresses, live : BOOLEAN] \cup {None}]
          /\ book[n].known \in SUBSET Nodes
      BY <1>0 DEF Books
    <3>2. book[n].cache[p] \in [at : Addresses, live : BOOLEAN]
      BY <1>9, <3>1 DEF Expire
    <3> QED
      BY <3>1, <3>2
  <2>2. book' = [book EXCEPT ![n].cache[p].live = FALSE] /\ seen' = seen
    BY <1>9 DEF Expire
  <2>3. b = [book[n] EXCEPT !.cache[p].live = FALSE]
    BY <1>0 DEF Books
  <2>4. book' = [book EXCEPT ![n] = b]
    BY <2>2, <2>3
  <2> HIDE DEF e
  <2>5. b \in Books /\ IsNoOlder(b, seen[n])
    BY <1>0, <2>1, Cached
  <2> HIDE DEF b
  <2> QED
    BY <1>0, <2>2, <2>4, <2>5, Rewritten
<1>10. CASE Tick
  BY <1>0, <1>10, TickOK
<1>11. CASE UNCHANGED <<book, seen>>
  BY <1>0, <1>11 DEF BooksOK
<1> QED
  BY <1>1, <1>2, <1>3, <1>4, <1>5, <1>6, <1>7, <1>8, <1>9, <1>10, <1>11
  DEF Next, vars, Start, Reconfigure, Answer, LoseRequest, PassEnds, Lose, Drop

(* The directories of the publishers are never older than what was seen.   *)
THEOREM MeshInvariant == Spec => []Inv
<1>1. Inv /\ [Next]_vars => Inv'
  BY NodesStep, WireStep, JobsStep, PassesStep, BooksStep DEF Inv
<1> QED
  BY <1>1, InitOK, PTL DEF Spec

-----------------------------------------------------------------------------
(* A dial that may start against the order has missed a whole window.      *)
LEMMA MayDialWaits ==
    ASSUME Inv, NEW n \in Nodes, NEW p \in Nodes, NEW l, MayDial(n, l, p), n > p
    PROVE  seen[n][p] = Window
<1>1. ~(n < p) /\ book[n].observed[p] # None /\ book[n].observed[p] >= Window
  BY MeshConstants DEF MayDial
<1>2. /\ book[n].observed[p] \in 0 .. Window /\ seen[n][p] \in 0 .. Window
      /\ book[n].observed[p] <= seen[n][p]
  BY <1>1 DEF Inv, BooksOK, Books, Seen, IsNoOlder
<1> QED
  BY <1>1, <1>2, MeshConstants

(* Only looks start dials.                                                 *)
LEMMA DialsStartWithALook ==
    ASSUME Inv, [Next]_vars, NEW n \in Nodes, NEW r, r \in Dials(n)', r \notin Dials(n)
    PROVE  r \in Records /\ \E l \in Nat : MayDial(n, l, r.peer)
<1>1. ASSUME NEW m \in Nodes, NEW q \in pass[m].todo, PassLooks(m, q)
      PROVE  r \in Records /\ \E l \in Nat : MayDial(n, l, r.peer)
  <2>1. q \in Records /\ pass[m].life \in Nat
    BY DEF Inv, PassesOK
  <2>2. pass'[n].dial # pass[n].dial /\ pass'[n].dial # None /\ r = pass'[n].dial
    BY <1>1 DEF PassLooks, Dials
  <2>3. m = n /\ pass'[n].dial = IF Dialable(m, pass[m].life, q) THEN q ELSE None
    BY <1>1, <2>2 DEF PassLooks, Inv, PassesOK
  <2> QED
    BY <2>1, <2>2, <2>3 DEF Dialable
<1>2. ASSUME NEW j \in jobs, JobLooks(j)
      PROVE  r \in Records /\ \E l \in Nat : MayDial(n, l, r.peer)
  <2>1. j \in [node : Nodes, life : Nat, stage : {"saving", "dialing"}, rec : Records]
    BY DEF Inv, JobsOK
  <2>2. pass' = pass
    BY <1>2 DEF JobLooks
  <2>3. PICK k \in jobs' : k.node = n /\ k.stage = "dialing" /\ k.rec = r
    BY <2>2 DEF Dials
  <2>4. k \notin jobs
    BY <2>3 DEF Dials
  <2>5. Dialable(j.node, j.life, j.rec) /\ k = [j EXCEPT !.stage = "dialing"]
    BY <1>2, <2>4 DEF JobLooks
  <2>6. j.node = n /\ j.rec = r
    BY <2>1, <2>3, <2>5
  <2> QED
    BY <2>1, <2>5, <2>6 DEF Dialable
<1>3. ASSUME NEW m \in Nodes, NEW due \in BOOLEAN, StartPass(m, due)
      PROVE  FALSE
  <2>1. pass'[n].dial = pass[n].dial \/ pass'[n].dial = None
    BY <1>3 DEF StartPass, Inv, PassesOK
  <2> QED
    BY <1>3, <2>1 DEF StartPass, Dials
<1>4. ASSUME NEW m \in wire, Hear(m)
      PROVE  FALSE
  BY <1>4 DEF Hear, Dials
<1>5. ASSUME \/ pass' = pass
             \/ \E m \in Nodes : \/ pass' = [pass EXCEPT ![m] = NoPass]
                                 \/ pass' = [pass EXCEPT ![m].dial = None],
             jobs' \subseteq jobs
      PROVE  FALSE
  <2>1. pass'[n].dial = pass[n].dial \/ pass'[n].dial = None
    BY <1>5 DEF NoPass, Inv, PassesOK
  <2> QED
    BY <1>5, <2>1 DEF Dials
<1> QED
  BY <1>1, <1>2, <1>3, <1>4, <1>5
  DEF Next, vars, Start, Stop, Crash, Reconfigure, Publish, Answer, LoseRequest, PassDials,
      PassEnds, Expire, Lose, JobDials, Drop, Tick

(* The higher identifier of a pair dials only after it has missed the link *)
(* in every look of a whole window (shouldDialRelayPublisherPeer,          *)
(* refreshRelayPublisherObservations and the handlers of records).         *)
THEOREM LosersTheorem == Spec => LosersWait
<1>1. Inv /\ [Next]_vars =>
        [\A n \in Nodes : \A r \in Dials(n)' \ Dials(n) :
            n > r.peer => seen[n][r.peer] = Window]_vars
  BY DialsStartWithALook, MayDialWaits DEF Records
<1> QED
  BY <1>1, MeshInvariant, PTL DEF Spec, LosersWait
=============================================================================
