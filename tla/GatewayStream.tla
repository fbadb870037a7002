---------------------------- MODULE GatewayStream ----------------------------
(***************************************************************************)
(* The gateway's stream of one instrument at one resolution                *)
(* (capital_gateway/stream): the hub and the rooms it makes, one after the *)
(* other, the upstream connection and the boundary timer of each, the      *)
(* candle a room forms, and the clients.                                   *)
(*                                                                         *)
(* A candle is the number of its period and who made it.  Prices, the      *)
(* waiting times and the provider's frames are left out: a wait is over    *)
(* when its action is taken.                                               *)
(***************************************************************************)
EXTENDS Integers, FiniteSets

CONSTANTS Clients,
          MaxRoom,     \* bound on the rooms made
          MaxPeriod,   \* bound on the periods that pass
          MaxTrouble   \* bound on drops and on answers that do not help

ASSUME StreamAssumption ==
    /\ IsFiniteSet(Clients) /\ Clients \cap {"nobody", "quote", "timer"} = {}
    /\ MaxRoom \in Nat \ {0} /\ MaxPeriod \in Nat \ {0} /\ MaxTrouble \in Nat

VARIABLES daily,   \* boundary_comes_from_provider: a DAY or WEEK stream
          now,     \* the period the market is in (external)
          hub,     \* the room in Hub._rooms, or NoRoom
          rooms,   \* every Room made so far
          client,  \* where each client's handler stands, and its room
          told,    \* <<period, made by the provider>> of the candles handed to
                   \* a joiner as settled
          troubles

stream == <<daily, now, hub, rooms, client, told, troubles>>

NoRoom == 0
RoomIds == 1 .. MaxRoom
Periods == 1 .. MaxPeriod
Free == [by |-> "nobody", at |-> 0]

Room == [subs    : SUBSET Clients,
         up      : {"none", "connecting", "connected", "stopped"},
         timer   : BOOLEAN,
         bar     : 0 .. MaxPeriod,   \* FormingCandle._bar.time, 0 for None
         theirs  : BOOLEAN,          \* the bar is the provider's sealed candle, untouched
         sealed  : BOOLEAN,          \* _sealed
         over    : BOOLEAN,          \* _period_over
         stale   : BOOLEAN,          \* _boundary_stale
         mayAsk  : BOOLEAN,          \* _retry_boundary_after has passed
         asking  : [by : Clients \union {"nobody", "quote", "timer"}, at : 0 .. MaxPeriod],
         heard   : 0 .. MaxPeriod,   \* the newest seal that reached the room
         creator : Clients \union {"nobody"}]

NewRoom(c) == [subs |-> {}, up |-> "connecting", timer |-> FALSE, bar |-> 0,
               theirs |-> FALSE, sealed |-> FALSE, over |-> FALSE, stale |-> FALSE,
               mayAsk |-> TRUE, asking |-> Free, heard |-> 0, creator |-> c]

NoSuchRoom == [NewRoom("nobody") EXCEPT !.up = "none"]

StreamInit == /\ daily \in BOOLEAN
              /\ now = 1
              /\ hub = NoRoom
              /\ rooms = [r \in RoomIds |-> NoSuchRoom]
              /\ client = [c \in Clients |-> [at |-> "out", room |-> NoRoom]]
              /\ told = {}
              /\ troubles = 0
-----------------------------------------------------------------------------
(* The forming candle.                                                      *)

NeedsBoundary(room) == daily /\ (room.bar = 0 \/ room.over \/ room.stale)

SeedStillSealed(room, p) == [room EXCEPT !.bar = p, !.theirs = FALSE, !.over = FALSE, !.stale = FALSE]
Seed(room, p) == [room EXCEPT !.bar = p, !.theirs = FALSE, !.sealed = FALSE,
                              !.over = FALSE, !.stale = FALSE]

Invalidate(room) == [room EXCEPT !.stale = daily]

OnSealed(room, p) == [room EXCEPT !.bar = p, !.theirs = TRUE, !.sealed = TRUE,
                                  !.over = daily, !.stale = IF daily THEN FALSE ELSE @,
                                  !.heard = p]

(* A quote of the period q; elapsed says that a nominal period has passed   *)
(* since the bar opened.  Without arithmetic a bar takes every quote until  *)
(* then; with it a later period opens a bar of its own.                     *)
OnQuote(room, q, elapsed) ==
    IF daily
    THEN IF NeedsBoundary(room) THEN room
         ELSE IF elapsed THEN [room EXCEPT !.over = TRUE]
              ELSE [room EXCEPT !.theirs = FALSE]
    ELSE [room EXCEPT !.bar = IF q <= @ THEN @ ELSE q, !.theirs = FALSE]

MayHaveElapsed(room, q) == {e \in BOOLEAN : /\ e => q > room.bar
                                            /\ q > room.bar + 1 => e}

NoProgress(room, p) == IF room.over THEN p <= room.bar ELSE p < room.bar
-----------------------------------------------------------------------------
(* Clients.                                                                 *)

(* What a joiner is handed after the status: the bar, labelled.             *)
Welcome(room) == told' = IF room.bar # 0 /\ room.sealed
                         THEN told \union {<<room.bar, room.theirs>>} ELSE told

Enter(c, r) == client' = [client EXCEPT ![c] = [at |-> "in", room |-> r]]

SubscribeFirst(c) ==
    /\ client[c].at = "out" /\ hub = NoRoom
    /\ \E r \in RoomIds :
        /\ rooms[r] = NoSuchRoom
        /\ \A s \in RoomIds : s < r => rooms[s] # NoSuchRoom
        /\ hub' = r
        /\ IF daily
           THEN /\ rooms' = [rooms EXCEPT ![r] =
                                [NewRoom(c) EXCEPT !.asking = [by |-> c, at |-> now]]]
                /\ client' = [client EXCEPT ![c] = [at |-> "placing", room |-> r]]
           ELSE /\ rooms' = [rooms EXCEPT ![r] = [NewRoom(c) EXCEPT !.subs = {c}]]
                /\ Enter(c, r)
    /\ UNCHANGED <<daily, now, told, troubles>>

SubscribeJoin(c) ==
    /\ client[c].at = "out" /\ hub # NoRoom
    /\ rooms' = [rooms EXCEPT ![hub].subs = @ \union {c}]
    /\ Enter(c, hub)
    /\ Welcome(rooms[hub])
    /\ UNCHANGED <<daily, now, hub, troubles>>

(* A send to a dead socket drops it from its room; its handler has yet to   *)
(* notice.                                                                  *)
SendFails(c) ==
    /\ client[c].at = "in"
    /\ client' = [client EXCEPT ![c].at = "dead"]
    /\ rooms' = [rooms EXCEPT ![client[c].room].subs = @ \ {c}]
    /\ UNCHANGED <<daily, now, hub, told, troubles>>

(* The timer and the upstream are cancelled, and with them what they await; *)
(* of a room nobody waits in nothing else matters any more.                 *)
Close(room, c) == IF room.asking.by \in Clients
                  THEN [room EXCEPT !.timer = FALSE, !.up = "stopped", !.subs = @ \ {c}]
                  ELSE [NoSuchRoom EXCEPT !.up = "stopped", !.creator = room.creator]

(* By the key: the room that is in the hub now, not the one the client is   *)
(* in.                                                                      *)
EmptiedByAnyone(c, r) == c \in rooms[r].subs
EmptiedBy(c, r) == rooms[r].subs \subseteq {c}

Unsubscribe(c) ==
    /\ client[c].at \in {"in", "dead"}
    /\ client' = [client EXCEPT ![c] = [at |-> "out", room |-> NoRoom]]
    /\ \/ /\ hub = NoRoom
          /\ UNCHANGED <<hub, rooms>>
       \/ /\ hub # NoRoom /\ ~EmptiedBy(c, hub)
          /\ rooms' = [rooms EXCEPT ![hub].subs = @ \ {c}]
          /\ UNCHANGED hub
       \/ /\ hub # NoRoom /\ EmptiedBy(c, hub)
          /\ rooms' = [rooms EXCEPT ![hub] = Close(@, c)]
          /\ hub' = NoRoom
    /\ UNCHANGED <<daily, now, told, troubles>>
-----------------------------------------------------------------------------
(* The boundary.                                                            *)

(* place_boundary past the lock, up to its await.                           *)
Ask(r, who) == rooms' = [rooms EXCEPT ![r].asking = [by |-> who, at |-> now]]

MayAskNow(room) == room.asking = Free /\ room.mayAsk /\ NeedsBoundary(room)

BoundaryTick(r) == /\ rooms[r].timer /\ MayAskNow(rooms[r])
                   /\ Ask(r, "timer")
                   /\ UNCHANGED <<daily, now, hub, client, told, troubles>>

RetryDue(r) == /\ ~rooms[r].mayAsk
               /\ rooms' = [rooms EXCEPT ![r].mayAsk = TRUE]
               /\ UNCHANGED <<daily, now, hub, client, told, troubles>>

(* watch_for_a_boundary: for every daily room, seeded or not.               *)
WatchesUnseeded(room) == room.bar = 0
Watches(room) == daily

(* What happens to whoever asked, once the room has become `placed`: a      *)
(* quote goes on to be folded in, a client to be let in.                    *)
Resumes(r, placed) ==
    LET asker == rooms[r].asking.by
        idle == [placed EXCEPT !.asking = Free]
    IN  \/ /\ asker = "timer"
           /\ rooms' = [rooms EXCEPT ![r] = idle]
           /\ UNCHANGED <<client, told>>
        \/ /\ asker = "quote"
           /\ \E e \in MayHaveElapsed(idle, rooms[r].asking.at) :
                rooms' = [rooms EXCEPT ![r] = OnQuote(idle, rooms[r].asking.at, e)]
           /\ UNCHANGED <<client, told>>
        \/ /\ asker \in Clients
           /\ rooms' = [rooms EXCEPT ![r] =
                    [idle EXCEPT !.subs = @ \union {asker}, !.timer = Watches(idle)]]
           /\ Enter(asker, r)
           /\ Welcome(idle)

(* The provider's newest candle is read at some moment of the request.      *)
BoundaryAnswered(r) ==
    /\ rooms[r].asking # Free
    /\ \E p \in rooms[r].asking.at .. now :
        Resumes(r, IF NoProgress(rooms[r], p)
                   THEN [rooms[r] EXCEPT !.mayAsk = FALSE]
                   ELSE Seed([rooms[r] EXCEPT !.mayAsk = TRUE], p))
    /\ UNCHANGED <<daily, now, hub, troubles>>

(* None, an error, or a candle that is already settled.                     *)
BoundaryUnknown(r) ==
    /\ troubles < MaxTrouble
    /\ troubles' = troubles + 1
    /\ rooms[r].asking # Free
    /\ Resumes(r, [rooms[r] EXCEPT !.mayAsk = FALSE])
    /\ UNCHANGED <<daily, now, hub>>
-----------------------------------------------------------------------------
(* The upstream: its loop hands on one event at a time.                     *)

Listens(r) == rooms[r].up = "connected" /\ rooms[r].asking.by # "quote"

Connect(r) == /\ rooms[r].up = "connecting"
              /\ rooms' = [rooms EXCEPT ![r].up = "connected"]
              /\ UNCHANGED <<daily, now, hub, client, told, troubles>>

(* A drop, or a silence that is written off.                                *)
Drop(r) == /\ troubles < MaxTrouble
           /\ troubles' = troubles + 1
           /\ Listens(r)
           /\ rooms' = [rooms EXCEPT ![r] =
                [Invalidate(@) EXCEPT !.up = "connecting", !.mayAsk = TRUE]]
           /\ UNCHANGED <<daily, now, hub, client, told>>

(* A quote that needs a boundary waits for the lock and then for the        *)
(* provider; one that may not ask is only published.                        *)
Quote(r) ==
    /\ Listens(r)
    /\ \/ /\ MayAskNow(rooms[r])
          /\ Ask(r, "quote")
       \/ /\ ~NeedsBoundary(rooms[r])
          /\ \E e \in MayHaveElapsed(rooms[r], now) :
                rooms' = [rooms EXCEPT ![r] = OnQuote(@, now, e)]
    /\ UNCHANGED <<daily, now, hub, client, told, troubles>>

(* Seals come in order and after their period; one may be missed.           *)
Sealed(r) ==
    /\ Listens(r)
    /\ \E p \in 1 .. now - 1 :
        /\ rooms[r].heard < p
        /\ rooms' = [rooms EXCEPT ![r] = OnSealed(@, p)]
    /\ UNCHANGED <<daily, now, hub, client, told, troubles>>

PeriodPasses == /\ now < MaxPeriod
                /\ now' = now + 1
                /\ UNCHANGED <<daily, hub, rooms, client, told, troubles>>

StreamNext == \/ PeriodPasses
              \/ \E c \in Clients : SubscribeFirst(c) \/ SubscribeJoin(c) \/ SendFails(c) \/ Unsubscribe(c)
              \/ \E r \in RoomIds : \/ BoundaryTick(r) \/ RetryDue(r)
                                    \/ BoundaryAnswered(r) \/ BoundaryUnknown(r)
                                    \/ Connect(r) \/ Drop(r) \/ Quote(r) \/ Sealed(r)

(* Timers ring and requests are answered or time out.  Nothing is assumed   *)
(* of quotes, seals and clients.                                            *)
StreamSpec == StreamInit /\ [][StreamNext]_stream
FairStream == StreamSpec /\ \A r \in RoomIds : /\ WF_stream(BoundaryTick(r))
                                               /\ WF_stream(RetryDue(r))
                                               /\ WF_stream(BoundaryAnswered(r))
-----------------------------------------------------------------------------
StreamTypes == /\ daily \in BOOLEAN
               /\ now \in Periods
               /\ hub \in RoomIds \union {NoRoom}
               /\ rooms \in [RoomIds -> Room]
               /\ client \in [Clients -> [at : {"out", "placing", "in", "dead"},
                                          room : RoomIds \union {NoRoom}]]
               /\ told \subseteq Periods \X BOOLEAN
               /\ troubles \in 0 .. MaxTrouble

(* "Only a sealed one may be handed on as settled: a consumer stores what   *)
(* is marked settled" (stream/forming.py): of a candle handed to a joiner   *)
(* as settled, the provider made all.                                       *)
SettledMeansSealed == \A t \in told : t[2]

(* So it is where the boundary comes from the provider.                     *)
DailySettledMeansSealed == daily => SettledMeansSealed

(* Somebody the hub's room is kept for: in it, on the way in, or gone       *)
(* without its handler knowing.                                             *)
Kept(r) == \E c \in Clients : client[c].room = r /\ client[c].at # "out"

(* The connection of a room runs while it is kept for somebody, and whoever *)
(* is in a room is in the hub's, whose connection runs (Hub.subscribe,      *)
(* Hub.unsubscribe).  The exception is the client that made a daily room    *)
(* and still waits for its boundary when the last other client leaves.      *)
ConnectionFollowsAudience ==
    /\ \A r \in RoomIds : rooms[r].up \in {"connecting", "connected"} => r = hub /\ Kept(r)
    /\ \A c \in Clients : client[c].at = "in" =>
          LET r == client[c].room
          IN  \/ r = hub /\ rooms[r].up # "stopped" /\ c \in rooms[r].subs
              \/ daily /\ rooms[r].creator = c

(* Liveness: a room somebody listens to finds its boundary without a quote  *)
(* ("a quiet room with nothing", stream/hub.py).                            *)
BoundaryIsFound ==
    \A r \in RoomIds : (hub = r /\ NeedsBoundary(rooms[r])) ~> (hub # r \/ ~NeedsBoundary(rooms[r]))
=============================================================================
