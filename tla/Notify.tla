------------------------------- MODULE Notify -------------------------------
(***************************************************************************)
(* Notifications: the broadcast channel of a user, the handlers that send   *)
(* on it after they have changed a file, and the WebSocket tasks that       *)
(* forward its messages to the devices.                                     *)
(*                                                                          *)
(* The channel is tokio's broadcast: a ring of Capacity messages; a         *)
(* receiver starts behind the last message, and one that has been overtaken *)
(* goes on with the oldest message left.  A message sent while nobody       *)
(* listens is not kept.                                                     *)
(*                                                                          *)
(* Of the plugin it is assumed that it syncs when it is told of a change.   *)
(*                                                                          *)
(* A definition under the comment "Slip" is a plausible mistake in the      *)
(* definition that follows it; no specification uses it.                    *)
(***************************************************************************)
EXTENDS Integers, Sequences, FiniteSets

CONSTANTS
  Device,     \* the devices of the user
  Handler,    \* upload and delete requests in flight
  Capacity,   \* the size of the ring
  MaxChanges  \* bound: changes of files

None == "none"

ASSUME NotifyAssumption == Capacity \in Nat \ {0} /\ MaxChanges \in Nat
ASSUME NotifyNoneAssumption == None \notin Device

VARIABLES
  changes,  \* the devices that made the changes so far, in order of commit
  handler,  \* what each request has committed and not yet announced
  channel,  \* the messages sent, each the number of a change
  client,   \* the WebSocket connection of each device, and what it has synced
  unsaid    \* ghost: changes no message will ever be sent of

notify == <<changes, handler, channel, client, unsaid>>

-----------------------------------------------------------------------------
Change == 1..MaxChanges

\* pos: the next message to receive; seen: the changes the last sync has read;
\* synced: there was a sync since the connection was made; told: a message has
\* come since then.
Client == [on : BOOLEAN, pos : 1..(MaxChanges + 1), seen : 0..MaxChanges,
           synced : BOOLEAN, told : BOOLEAN]
Offline == [on |-> FALSE, pos |-> 1, seen |-> 0, synced |-> FALSE, told |-> FALSE]

NotifyInit ==
  /\ changes = <<>>
  /\ handler = [h \in Handler |-> 0]
  /\ channel = <<>>
  /\ client = [d \in Device |-> Offline]
  /\ unsaid = {}

\* A change is committed; the handler has yet to announce it.
Commit(h, d) ==
  /\ handler[h] = 0
  /\ Len(changes) < MaxChanges
  /\ changes' = Append(changes, d)
  /\ handler' = [handler EXCEPT ![h] = Len(changes) + 1]
  /\ UNCHANGED <<channel, client, unsaid>>

\* notify_sync_update; without receivers the message is dropped.
Announce(h) ==
  /\ handler[h] # 0
  /\ IF \E d \in Device : client[d].on
       THEN channel' = Append(channel, handler[h]) /\ UNCHANGED unsaid
       ELSE unsaid' = unsaid \cup {handler[h]} /\ UNCHANGED channel
  /\ handler' = [handler EXCEPT ![h] = 0]
  /\ UNCHANGED <<changes, client>>

\* The handler stops after its commit.
GiveUp(h) ==
  /\ handler[h] # 0
  /\ unsaid' = unsaid \cup {handler[h]}
  /\ handler' = [handler EXCEPT ![h] = 0]
  /\ UNCHANGED <<changes, channel, client>>

\* rollback, restore, restore_all, permanent deletion, fix_hash and the
\* deletions of a delta change files and announce nothing.
ChangeSilently(d) ==
  /\ Len(changes) < MaxChanges
  /\ changes' = Append(changes, d)
  /\ unsaid' = unsaid \cup {Len(changes) + 1}
  /\ UNCHANGED <<handler, channel, client>>

-----------------------------------------------------------------------------
(* The connection of a device.                                              *)

\* Slip: the receiver is made only when the first message is awaited.
SubscribeAtNext == Len(channel) + 2

\* A new receiver gets what is sent from now on.
SubscribeAt == Len(channel) + 1

Connect(d) ==
  /\ ~client[d].on
  /\ client' = [client EXCEPT ![d].on = TRUE, ![d].pos = SubscribeAt,
                              ![d].synced = FALSE, ![d].told = FALSE]
  /\ UNCHANGED <<changes, handler, channel, unsaid>>

\* The socket closes, or a message or a ping cannot be sent.
Disconnect(d) ==
  /\ client[d].on
  /\ client' = [client EXCEPT ![d] = [Offline EXCEPT !.seen = client[d].seen]]
  /\ UNCHANGED <<changes, handler, channel, unsaid>>

Source(i) == changes[channel[i]]

Oldest == IF Len(channel) > Capacity THEN Len(channel) - Capacity + 1 ELSE 1

\* RecvError::Lagged: logged, and the device is not told.
Lag(d) ==
  /\ client[d].on /\ client[d].pos < Oldest
  /\ client' = [client EXCEPT ![d].pos = Oldest]
  /\ UNCHANGED <<changes, handler, channel, unsaid>>

\* Slip: a device hears only its own messages.
ForOthersOnly(d, i) == Source(i) = d

\* A device is not told of its own changes.
ForDevice(d, i) == Source(i) # d

Receive(d) ==
  /\ client[d].on
  /\ Oldest <= client[d].pos /\ client[d].pos <= Len(channel)
  /\ client' = [client EXCEPT ![d].pos = @ + 1,
                  ![d].told = @ \/ ForDevice(d, client[d].pos)]
  /\ UNCHANGED <<changes, handler, channel, unsaid>>

\* A sync reads all that is committed.
Synchronise(d) ==
  /\ client' = [client EXCEPT ![d].seen = Len(changes), ![d].told = FALSE,
                              ![d].synced = client[d].on]
  /\ UNCHANGED <<changes, handler, channel, unsaid>>

NotifyStep ==
  \/ \E h \in Handler : Announce(h) \/ GiveUp(h) \/ \E d \in Device : Commit(h, d)
  \/ \E d \in Device :
       \/ ChangeSilently(d) \/ Connect(d) \/ Disconnect(d)
       \/ Lag(d) \/ Receive(d) \/ Synchronise(d)

-----------------------------------------------------------------------------
(* Properties.                                                              *)

NotifyTypeOK ==
  /\ changes \in Seq(Device) /\ Len(changes) <= MaxChanges
  /\ handler \in [Handler -> 0..MaxChanges]
  /\ channel \in Seq(Change) /\ Len(channel) <= MaxChanges
  /\ client \in [Device -> Client]
  /\ unsaid \subseteq Change

\* The device has received every message there is for it.
Drained(d) == client[d].on /\ client[d].pos = Len(channel) + 1

\* The ring holds nothing but changes of d itself.
OnlyOwnLeft(d) ==
  /\ Len(channel) >= Capacity
  /\ \A i \in Oldest..Len(channel) : Source(i) = d

\* A device that has connected and then synced, has no message to receive and
\* has synced since the last one it was told of, knows of every change of the
\* others that was announced or will be, unless it lagged and the ring was full
\* of its own changes when it caught up: nothing falls between the delta and
\* the subscription, and lagging alone loses nothing (ws_upgrade, handle_ws,
\* the order of commit and notify_sync_update).
NothingUnheard ==
  \A d \in Device :
    Drained(d) /\ client[d].synced /\ ~client[d].told /\ ~OnlyOwnLeft(d) =>
      \A c \in 1..Len(changes) :
        \/ c <= client[d].seen
        \/ changes[c] = d
        \/ c \in unsaid
        \/ \E h \in Handler : handler[h] = c
=============================================================================
