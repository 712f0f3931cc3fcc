----------------------------- MODULE MailboxHints ------------------------------
(***************************************************************************)
(* Realtime hints beside the mailbox service.  A socket subscribes to a     *)
(* mailbox with a read token: the server checks the token, adds the         *)
(* subscription and checks again, with database reads in between, while     *)
(* the mailbox handlers commit and then tell MailboxEnvelopeSubscriptions   *)
(* what to drop.                                                            *)
(***************************************************************************)
EXTENDS Mailboxes

CONSTANTS Sockets,
          MaxSubscriptions,   \* MAX_MAILBOX_SUBSCRIPTIONS_PER_CLIENT
          MaxPending          \* bound: subscribe messages in progress at once

VARIABLES connected,       \* sockets with readyState OPEN
          subscriptions,   \* <<socket, id, reader>>
          pending          \* subscribe messages being handled

hints    == <<connected, subscriptions, pending>>
hintVars == <<vars, hints>>

(* round 1 guards the add, round 2 confirms it; each looks the mailbox up   *)
(* (hasById), loads it (requireById) and then acts on what it loaded.       *)
Pending == [ socket : Sockets, id : Ids, reader : Readers,
             round : 1 .. 2, stage : {"look", "load", "act"}, authorized : BOOLEAN ]

HintInit == Init /\ connected = {} /\ subscriptions = {} /\ pending = {}

Key(p) == <<p.socket, p.id, p.reader>>
Replace(p, q) == pending' = (pending \ {p}) \cup {q}
Finish(p) == pending' = pending \ {p}

(* A name in Sockets stands for a new socket once nothing holds the old one. *)
Connect == \E s \in Sockets \ connected :
    /\ \A p \in pending : p.socket # s
    /\ connected' = connected \cup {s}
    /\ UNCHANGED <<vars, subscriptions, pending>>

Disconnect == \E s \in connected :
    /\ connected' = connected \ {s}
    /\ subscriptions' = {k \in subscriptions : k[1] # s}
    /\ UNCHANGED <<vars, pending>>

Subscribe == \E s \in connected, id \in Ids, r \in Readers :
    /\ Cardinality(pending) < MaxPending
    /\ pending' = pending \cup {[socket |-> s, id |-> id, reader |-> r, round |-> 1,
                                 stage |-> "look", authorized |-> FALSE]}
    /\ UNCHANGED <<vars, connected, subscriptions>>

Look(p) ==
    /\ p.stage = "look"
    /\ Replace(p, IF p.id \in live THEN [p EXCEPT !.stage = "load"]
                                   ELSE [p EXCEPT !.stage = "act", !.authorized = FALSE])
    /\ UNCHANGED <<vars, connected, subscriptions>>

(* A mailbox that went since the lookup makes requireById throw, which ends *)
(* the handler: a second check then leaves the subscription in place.       *)
Load(p) ==
    /\ p.stage = "load"
    /\ IF p.id \in live
         THEN Replace(p, [p EXCEPT !.stage = "act",
                                   !.authorized = AcceptsRead(box[p.id], p.reader)])
         ELSE Finish(p)
    /\ UNCHANGED <<vars, connected, subscriptions>>

HasRoom(s) == Cardinality({k \in subscriptions : k[1] = s}) < MaxSubscriptions

AddSubscription(p) ==
    /\ p.round = 1 /\ p.stage = "act"
    /\ IF p.authorized /\ p.socket \in connected
         THEN /\ subscriptions' = IF HasRoom(p.socket) THEN subscriptions \cup {Key(p)}
                                                       ELSE subscriptions
              /\ Replace(p, [p EXCEPT !.round = 2, !.stage = "look"])
         ELSE Finish(p) /\ UNCHANGED subscriptions
    /\ UNCHANGED <<vars, connected>>

(* Mutant of Confirm: no second check.                                      *)
ConfirmNothing(p) ==
    /\ p.round = 2 /\ p.stage = "act"
    /\ Finish(p)
    /\ UNCHANGED <<vars, connected, subscriptions>>

Confirm(p) ==
    /\ p.round = 2 /\ p.stage = "act"
    /\ subscriptions' = IF p.authorized THEN subscriptions ELSE subscriptions \ {Key(p)}
    /\ Finish(p)
    /\ UNCHANGED <<vars, connected>>

(* What the notifier drops when a handler's commit is answered.             *)
Dropped(w) ==
    LET req == inflight[w].req
    IN  CASE inflight[w].outcome = "revoked" ->
               {k \in subscriptions : k[2] = req.id /\ k[3] = req.target}
          [] inflight[w].outcome = "removed" ->
               {k \in subscriptions : k[2] = req.id}
          [] OTHER -> {}

RespondAndNotify(w) ==
    /\ Respond(w)
    /\ subscriptions' = subscriptions \ Dropped(w)
    /\ UNCHANGED <<connected, pending>>

(* Append sends its hint before it answers.                                 *)
AppendAndHint(w) == Append(w) /\ UNCHANGED hints

Restart ==
    /\ Crash
    /\ connected' = {} /\ subscriptions' = {} /\ pending' = {}

Silent(w) ==
    \/ Request(w) \/ SweepOne(w)
    \/ SelectVictims(w) \/ Evict(w) \/ Create(w)
    \/ Read(w) \/ AcknowledgeUpTo(w) \/ AddReaderTo(w) \/ RevokeReader(w) \/ Remove(w)
    \/ ExpireMailbox(w) \/ ExpireEnvelopes(w) \/ EndWithoutWrite(w) \/ Fail(w)

HintNext ==
    \/ Connect \/ Disconnect \/ Subscribe
    \/ \E p \in pending : Look(p) \/ Load(p) \/ AddSubscription(p) \/ Confirm(p)
    \/ \E w \in Workers : \/ RespondAndNotify(w) \/ AppendAndHint(w)
                          \/ Silent(w) /\ UNCHANGED hints
    \/ (StartSweep \/ Tick) /\ UNCHANGED hints
    \/ Restart

HintSpec == HintInit /\ [][HintNext]_hintVars

-----------------------------------------------------------------------------
(* Revoking a reader or deleting a mailbox stops its hints at once: every   *)
(* subscription is of an open socket, also when the socket closed while its *)
(* checks ran, and of a current reader, except while the second check       *)
(* of its own subscribe message is still to act, or while the handler that  *)
(* ended the reader has committed and not yet answered; an append, and its  *)
(* hint, cannot run then.  Holds on a node that never has to evict.         *)
HintsGoToReaders ==
    \A k \in subscriptions :
        /\ k[1] \in connected
        /\ \/ k[2] \in live /\ k[3] \in box[k[2]].readers
           \/ \E p \in pending : /\ Key(p) = k /\ p.round = 2
                                  /\ p.stage = "act" => ~p.authorized
           \/ \E w \in Workers : inflight[w].phase = "done" /\ k \in Dropped(w)

(* "Deleting a mailbox, including by retention, closes all of them": no     *)
(* subscription stays behind a deleted mailbox once nothing is in progress. *)
DeletedMailboxesHaveNoHints ==
    (CoordinatorFree /\ pending = {}) =>
        \A k \in subscriptions : k[2] \in live
=============================================================================
