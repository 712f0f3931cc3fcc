---------------------------- MODULE MailboxQueue -----------------------------
(***************************************************************************)
(* What a mailbox is to its sender and its readers: a queue whose cursors   *)
(* are never given out twice, that holds an envelope until every reader     *)
(* has acknowledged it or it is old, and shows it to every reader that      *)
(* comes for it.  No handler, snapshot, counter, batch or crash.            *)
(***************************************************************************)
EXTENDS Integers

CONSTANTS Ids, Readers, Cursors,
          Envelopes,   \* records [envelopeId, cursor, size, storedAt]
          Keep         \* ticks an envelope is kept

VARIABLES open, readers, acked, stored,
          top,                       \* highest cursor ever given out
          seen, shown,               \* what each reader has received
          clock

vars == <<open, readers, acked, stored, top, seen, shown, clock>>

Init ==
    /\ open = {}
    /\ readers = [id \in Ids |-> {}]
    /\ acked = [id \in Ids |-> [r \in Readers |-> 0]]
    /\ stored = [id \in Ids |-> {}]
    /\ top = [id \in Ids |-> 0]
    /\ seen = [r \in Readers |-> [id \in Ids |-> 0]]
    /\ shown = [r \in Readers |-> [id \in Ids |-> {}]]
    /\ clock = 0

Settles(id, e) == \A r \in readers'[id] : e.cursor <= acked'[id][r]

Open(id) == \E r \in Readers :
    /\ id \notin open
    /\ open' = open \cup {id}
    /\ readers' = [readers EXCEPT ![id] = {r}]
    /\ UNCHANGED <<acked, stored, top, seen, shown, clock>>

(* A new envelope comes after all that were ever given out and after all    *)
(* that anyone has acknowledged or received.                                *)
Post(id) == \E e \in Envelopes :
    /\ id \in open
    /\ e.storedAt = clock
    /\ e.cursor > top[id]
    /\ \A r \in Readers : e.cursor > acked[id][r] /\ e.cursor > seen[r][id]
    /\ \A x \in stored[id] : x.envelopeId # e.envelopeId
    /\ stored' = [stored EXCEPT ![id] = @ \cup {e}]
    /\ top' = [top EXCEPT ![id] = e.cursor]
    /\ UNCHANGED <<open, readers, acked, seen, shown, clock>>

Show(id) == \E r \in readers[id], e \in stored[id] :
    LET page == {x \in stored[id] : x.cursor > seen[r][id] /\ x.cursor <= e.cursor}
    IN  /\ page # {}
        /\ seen' = [seen EXCEPT ![r][id] = e.cursor]
        /\ shown' = [shown EXCEPT ![r][id] = @ \cup {x.cursor : x \in page}]
        /\ UNCHANGED <<open, readers, acked, stored, top, clock>>

DropSettled(id) ==
    stored' = [stored EXCEPT ![id] = {e \in @ : ~Settles(id, e)}]

Acknowledge(id) == \E r \in readers[id], upTo \in Cursors :
    /\ upTo >= acked[id][r]
    /\ acked' = [acked EXCEPT ![id][r] = upTo]
    /\ readers' = readers
    /\ DropSettled(id)
    /\ UNCHANGED <<open, top, seen, shown, clock>>

Join(id) == \E r \in Readers \ readers[id] :
    /\ id \in open
    /\ readers' = [readers EXCEPT ![id] = @ \cup {r}]
    /\ UNCHANGED <<open, acked, stored, top, seen, shown, clock>>

Leave(id) == \E r \in readers[id] :
    /\ readers[id] # {r}
    /\ readers' = [readers EXCEPT ![id] = @ \ {r}]
    /\ acked' = [acked EXCEPT ![id][r] = 0]
    /\ DropSettled(id)
    /\ UNCHANGED <<open, top, seen, shown, clock>>

Age(id) == \E old \in SUBSET {e \in stored[id] : e.storedAt + Keep <= clock} :
    /\ stored' = [stored EXCEPT ![id] = @ \ old]
    /\ UNCHANGED <<open, readers, acked, top, seen, shown, clock>>

Close(id) ==
    /\ id \in open
    /\ open' = open \ {id}
    /\ readers' = [readers EXCEPT ![id] = {}]
    /\ acked' = [acked EXCEPT ![id] = [r \in Readers |-> 0]]
    /\ stored' = [stored EXCEPT ![id] = {}]
    /\ UNCHANGED <<top, seen, shown, clock>>

Pass ==
    /\ clock' = clock + 1
    /\ UNCHANGED <<open, readers, acked, stored, top, seen, shown>>

Next ==
    \/ \E id \in Ids : \/ Open(id) \/ Post(id) \/ Show(id) \/ Acknowledge(id)
                       \/ Join(id) \/ Leave(id) \/ Age(id) \/ Close(id)
    \/ Pass

Spec == Init /\ [][Next]_vars
=============================================================================
