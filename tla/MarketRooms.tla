----------------------------- MODULE MarketRooms -----------------------------
(***************************************************************************)
(* The fan-out of one pair's candles to its subscribers                    *)
(* (workbench/market_data/hub.py): the rooms the hub makes and forgets,    *)
(* the lock that holds a room still, ingest that stores and publishes, and *)
(* subscribers that come and go.                                           *)
(*                                                                         *)
(* A lock is the queue of those who asked for it, its head the holder:     *)
(* asyncio.Lock is first come, first served.  The sends of one message     *)
(* happen under the hold and are one step.  A closed candle is written     *)
(* first, then the stretch it covers and its rollups, three transactions   *)
(* of which a later one may fail alone; gap fills and collection jobs      *)
(* write candles with no room held and publish none of them.  The          *)
(* deletion of a pair's candles is left out, and so is whoever gives up    *)
(* while it is still in a lock's queue.                                    *)
(***************************************************************************)
EXTENDS Integers, Sequences, FiniteSets

CONSTANTS Clients,     \* the subscribers, a finite set without Ingest
          MaxRoom,     \* Room objects alive at once, one at least
          MaxCandle    \* bound on the pair's closed candles

Ingest == "ingest"

VARIABLES stored,  \* the closed candles in the archive
          silent,  \* those of them written and not published since
          hub,     \* the room under the pair's key, or NoRoom
          subs,    \* the subscribers of each room
          forming, \* whether the room remembers a forming candle
          lock,    \* the queue of each room's lock
          pub,     \* ingest: where its publish stands, in which room, with
                   \* which candle, and whether the archive lacked it
          client,  \* where each subscriber's handler stands, in which room
          seen,    \* the closed candles each subscriber has been sent
          twice,   \* somebody was sent a candle it had, by the publish that
                   \* wrote it first
          split    \* a room was forgotten while somebody waited for it

vars == <<stored, silent, hub, subs, forming, lock, pub, client, seen, twice, split>>

NoRoom == 0
RoomIds == 1 .. MaxRoom
Candles == 1 .. MaxCandle
Actors == Clients \union {Ingest}
Idle == [at |-> "idle", room |-> NoRoom, candle |-> 0, fresh |-> FALSE]

Init == /\ stored = {} /\ silent = {}
        /\ hub = NoRoom
        /\ subs = [r \in RoomIds |-> {}]
        /\ forming = [r \in RoomIds |-> FALSE]
        /\ lock = [r \in RoomIds |-> <<>>]
        /\ pub = Idle
        /\ client = [c \in Clients |-> [at |-> "away", room |-> NoRoom]]
        /\ seen = [c \in Clients |-> {}]
        /\ twice = FALSE /\ split = FALSE
-----------------------------------------------------------------------------
Unused(r) == r # hub /\ subs[r] = {} /\ lock[r] = <<>>

(* Hub._room: the pair's room, made if there is none.                       *)
TheRoom(r) == IF hub # NoRoom THEN r = hub
              ELSE Unused(r) /\ \A s \in RoomIds : Unused(s) => r <= s

AsksForLock(p, r) == lock' = [lock EXCEPT ![r] = Append(@, p)]
Holds(p, r) == lock[r] # <<>> /\ Head(lock[r]) = p
Releases(r) == lock' = [lock EXCEPT ![r] = Tail(@)]

(* A room that is made again starts with no forming candle.                 *)
Opens(r) == /\ hub' = r
            /\ forming' = IF hub = r THEN forming ELSE [forming EXCEPT ![r] = FALSE]

Publish == /\ pub.at = "idle"
           /\ \E r \in RoomIds :
                /\ TheRoom(r) /\ Opens(r)
                /\ AsksForLock(Ingest, r)
                /\ pub' = [Idle EXCEPT !.at = "waiting", !.room = r]
           /\ UNCHANGED <<stored, silent, subs, client, seen, twice, split>>

(* A forming candle is not stored.                                          *)
SendForming == /\ pub.at = "waiting" /\ Holds(Ingest, pub.room)
               /\ forming' = [forming EXCEPT ![pub.room] = TRUE]
               /\ Releases(pub.room)
               /\ pub' = Idle
               /\ UNCHANGED <<stored, silent, hub, subs, client, seen, twice, split>>

StoreOutsideTheHold == /\ pub.at = "waiting"
                       /\ \E n \in Candles :
                            /\ stored' = stored \union {n}
                            /\ pub' = [pub EXCEPT !.at = "sending", !.candle = n,
                                                !.fresh = n \notin stored]
                       /\ UNCHANGED <<silent, hub, subs, forming, lock, client, seen, twice, split>>
(* The candle is upserted.  What is left of the write, the coverage and the *)
(* rollups, comes before the sends and touches nothing a room knows.        *)
Store == /\ pub.at = "waiting" /\ Holds(Ingest, pub.room)
         /\ \E n \in Candles :
              /\ stored' = stored \union {n}
              /\ pub' = [pub EXCEPT !.at = "sending", !.candle = n, !.fresh = n \notin stored]
         /\ UNCHANGED <<silent, hub, subs, forming, lock, client, seen, twice, split>>

(* The write fails or ingest is cancelled in it, before the candle is       *)
(* committed or after: nothing is sent.                                     *)
StoreFails == /\ pub.at \in {"waiting", "sending"} /\ Holds(Ingest, pub.room)
              /\ silent' = IF pub.at = "sending" /\ pub.fresh THEN silent \union {pub.candle}
                                                            ELSE silent
              /\ Releases(pub.room)
              /\ pub' = Idle
              /\ UNCHANGED <<stored, hub, subs, forming, client, seen, twice, split>>

(* A gap fill or a collection job writes candles: no room is held, and      *)
(* nothing is published.                                                    *)
Fill == /\ \E n \in Candles \ stored : stored' = stored \union {n} /\ silent' = silent \union {n}
        /\ UNCHANGED <<hub, subs, forming, lock, pub, client, seen, twice, split>>

(* A subscriber whose send fails is dropped; its handler has yet to leave,  *)
(* or waits for the lock to leave already.  Ingest may be cancelled between *)
(* two sends, and the rest are not sent it.                                 *)
SendToAll == /\ pub.at = "sending" /\ Holds(Ingest, pub.room)
             /\ \E gone, unsent \in SUBSET subs[pub.room] :
                  LET r == pub.room
                      n == pub.candle
                      reached == subs[r] \ (gone \union unsent)
                  IN  /\ subs' = [subs EXCEPT ![r] = @ \ gone]
                      /\ seen' = [c \in Clients |-> IF c \in reached THEN seen[c] \union {n}
                                                                     ELSE seen[c]]
                      /\ twice' = (twice \/ (pub.fresh /\ \E c \in reached : n \in seen[c]))
                      /\ silent' = IF unsent \subseteq gone THEN silent \ {n} ELSE silent \union {n}
                      /\ forming' = [forming EXCEPT ![r] = FALSE]
                      /\ client' = [c \in Clients |-> IF c \in gone /\ client[c].at = "in"
                                                      THEN [client[c] EXCEPT !.at = "dead"]
                                                      ELSE client[c]]
                      /\ Releases(r)
                      /\ pub' = Idle
             /\ UNCHANGED <<stored, hub, split>>
-----------------------------------------------------------------------------
Moves(c, place, r) == client' = [client EXCEPT ![c] = [at |-> place, room |-> r]]

Subscribe(c) == /\ client[c].at = "away"
                /\ \E r \in RoomIds : /\ TheRoom(r) /\ Opens(r)
                                      /\ AsksForLock(c, r)
                                      /\ Moves(c, "joining", r)
                /\ UNCHANGED <<stored, silent, subs, pub, seen, twice, split>>

ReadSettled(c) == /\ client[c].at = "joining" /\ Holds(c, client[c].room)
                  /\ seen' = [seen EXCEPT ![c] = stored]
                  /\ Moves(c, "attaching", client[c].room)
                  /\ UNCHANGED <<stored, silent, hub, subs, forming, lock, pub, twice, split>>

Attach(c) == /\ client[c].at = "attaching"
             /\ subs' = [subs EXCEPT ![client[c].room] = @ \union {c}]
             /\ Releases(client[c].room)
             /\ Moves(c, "in", client[c].room)
             /\ UNCHANGED <<stored, silent, hub, forming, pub, seen, twice, split>>

(* The read or the snapshot's send fails; nobody unsubscribes.              *)
AttachFails(c) == /\ client[c].at = "attaching"
                  /\ Releases(client[c].room)
                  /\ Moves(c, "away", NoRoom)
                  /\ seen' = [seen EXCEPT ![c] = {}]
                  /\ UNCHANGED <<stored, silent, hub, subs, forming, pub, twice, split>>

(* The room is forgotten by its key, whichever room is under it now and     *)
(* whoever waits for its lock.                                              *)
Empty(c, r) == subs[r] \subseteq {c} /\ ~forming[r]

Discard(c, r) == /\ subs' = [subs EXCEPT ![r] = @ \ {c}]
                 /\ hub' = IF Empty(c, r) THEN NoRoom ELSE hub
                 /\ split' = (split \/ (Empty(c, r) /\ (r # hub \/ Len(lock[r]) > 1)))

Gone(c) == Moves(c, "away", NoRoom) /\ seen' = [seen EXCEPT ![c] = {}]

(* unsubscribe takes a free lock without a pause, and waits for one that is *)
(* held.                                                                    *)
Leave(c) == /\ client[c].at \in {"in", "dead"}
            /\ \/ /\ hub = NoRoom
                  /\ Gone(c)
                  /\ UNCHANGED <<hub, subs, lock, split>>
               \/ /\ hub # NoRoom /\ lock[hub] = <<>>
                  /\ Discard(c, hub) /\ Gone(c)
                  /\ UNCHANGED lock
               \/ /\ hub # NoRoom /\ lock[hub] # <<>>
                  /\ Moves(c, "leaving", hub) /\ AsksForLock(c, hub)
                  /\ UNCHANGED <<hub, subs, seen, split>>
            /\ UNCHANGED <<stored, silent, forming, pub, twice>>

Unsubscribe(c) == /\ client[c].at = "leaving" /\ Holds(c, client[c].room)
                  /\ Discard(c, client[c].room)
                  /\ Releases(client[c].room)
                  /\ Gone(c)
                  /\ UNCHANGED <<stored, silent, forming, pub, twice>>

Next == \/ Publish \/ SendForming \/ Store \/ StoreFails \/ SendToAll \/ Fill
        \/ \E c \in Clients : \/ Subscribe(c) \/ ReadSettled(c) \/ Attach(c) \/ AttachFails(c)
                              \/ Leave(c) \/ Unsubscribe(c)

Spec == Init /\ [][Next]_vars
-----------------------------------------------------------------------------
TypeOK == /\ stored \subseteq Candles /\ silent \subseteq stored
          /\ hub \in RoomIds \union {NoRoom}
          /\ subs \in [RoomIds -> SUBSET Clients]
          /\ forming \in [RoomIds -> BOOLEAN]
          /\ lock \in [RoomIds -> Seq(Actors)]
          /\ pub \in [at : {"idle", "waiting", "sending"}, room : RoomIds \union {NoRoom},
                      candle : Candles \union {0}, fresh : BOOLEAN]
          /\ client \in [Clients -> [at : {"away", "joining", "attaching", "in", "dead", "leaving"},
                                     room : RoomIds \union {NoRoom}]]
          /\ seen \in [Clients -> SUBSET Candles]
          /\ twice \in BOOLEAN /\ split \in BOOLEAN

(* What is in the archive and has not been sent to an attached subscriber   *)
(* is the candle being written and sent now, or one nobody published.       *)
SeesEverything(c) ==
    client[c].at = "in" => \A n \in stored \ silent :
                              n \in seen[c] \/ (pub.at = "sending" /\ n = pub.candle)

(* "The snapshot is read while the room is held still and the subscriber    *)
(* attached before it is released, so nothing falls between" (hub.py).      *)
NothingFallsBetween == \A c \in Clients : SeesEverything(c)

(* So it is for every candle that ingest wrote and sent, and no candle      *)
(* arrives both in the snapshot and in the message of the publish that      *)
(* wrote it (app.py), until a room is forgotten while somebody waits for    *)
(* its lock.  A candle is outside of the promise from when a fill or a job  *)
(* writes it, or its coverage fails to be recorded or its sends are cut     *)
(* short after it was written, until it is published again: a subscriber    *)
(* has that one from the next snapshot only.                                *)
OneRoomSeesEverything == ~split => NothingFallsBetween /\ ~twice
=============================================================================
