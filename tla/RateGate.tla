------------------------------ MODULE RateGate ------------------------------
(***************************************************************************)
(* The gate of capital-gateway/capital_gateway/rategate.py, which every    *)
(* request to the provider passes: one for all sessions and a stricter one *)
(* for logins.  Its lock is held across the sleep, so that one caller at a *)
(* time looks at the times of the last requests; everybody else waits for  *)
(* the lock, and any of them may be cancelled.                             *)
(*                                                                         *)
(* A step is what runs between two awaits.  Time is any clock that does    *)
(* not go back, counted in units of its resolution.                        *)
(***************************************************************************)
EXTENDS Integers, Sequences

CONSTANTS Caller,   \* the tasks that send requests
          Limit,    \* RateGate._limit
          Per       \* RateGate._per, in ticks of the clock

(* What a gate is made with; the theorem below has it as its hypothesis.   *)
GateIsSensible == Limit \in Nat \ {0} /\ Per \in Nat \ {0}

VARIABLES now,      \* time.monotonic()
          times,    \* self._times, oldest first
          at,       \* where each caller is in acquire()
          granted   \* the time of every slot ever given: for the property only

gate == <<now, times, at, granted>>

GateInit == /\ now = 0
            /\ times = <<>> /\ granted = <<>>
            /\ at = [c \in Caller |-> "away"]

GateIsFree == \A c \in Caller : at[c] \notin {"looking", "asleep"}

Goes(c, to) == at' = [at EXCEPT ![c] = to]

Acquire(c) == /\ at[c] = "away"
              /\ Goes(c, "waiting")
              /\ UNCHANGED <<now, times, granted>>

TakeLock(c) == /\ at[c] = "waiting" /\ GateIsFree
               /\ Goes(c, "looking")
               /\ UNCHANGED <<now, times, granted>>

(* The inner loop drops the first k times: those as old as the window, up  *)
(* to the first that is not.                                               *)
Drops(k) == /\ k \in 0 .. Len(times)
            /\ \A i \in 1 .. k : now - times[i] >= Per
            /\ k < Len(times) => now - times[k + 1] < Per

Kept(k) == SubSeq(times, k + 1, Len(times))

(* A slot is free: it is taken, and the lock given back.                   *)
Grant(c, k) == /\ at[c] = "looking" /\ Drops(k)
               /\ Len(Kept(k)) < Limit
               /\ times' = Append(Kept(k), now)
               /\ granted' = Append(granted, now)
               /\ Goes(c, "away")
               /\ UNCHANGED now

Sleep(c, k) == /\ at[c] = "looking" /\ Drops(k)
               /\ Len(Kept(k)) >= Limit
               /\ times' = Kept(k)
               /\ Goes(c, "asleep")
               /\ UNCHANGED <<now, granted>>

WakeAndGo(c) == /\ at[c] = "asleep"
                /\ times' = Append(times, now) /\ granted' = Append(granted, now)
                /\ Goes(c, "away")
                /\ UNCHANGED now

(* The sleep may end a little early or late: the loop looks again.         *)
Wake(c) == /\ at[c] = "asleep"
           /\ Goes(c, "looking")
           /\ UNCHANGED <<now, times, granted>>

Cancelled(c) == /\ at[c] \in {"waiting", "asleep"}
                /\ Goes(c, "away")
                /\ UNCHANGED <<now, times, granted>>

(* A longer time is several of these.                                      *)
TimePasses == /\ \E d \in 1 .. Per : now' = now + d
              /\ UNCHANGED <<times, at, granted>>

GateNext == \/ TimePasses
            \/ \E c \in Caller : \/ Acquire(c) \/ TakeLock(c) \/ Wake(c) \/ Cancelled(c)
                                 \/ \E k \in 0 .. Len(times) : Grant(c, k) \/ Sleep(c, k)

GateSpec == GateInit /\ [][GateNext]_gate
-----------------------------------------------------------------------------
(* No window of the length Per, wherever it begins, holds more than Limit  *)
(* slots: whoever slept, was cancelled in its sleep or came late, the slot *)
(* Limit places later is at least the window later (the provider's "10     *)
(* requests per second", and one login a second).                          *)
RateIsKept ==
  \A i \in 1 .. Len(granted) :
    i + Limit <= Len(granted) => granted[i + Limit] - granted[i] >= Per
=============================================================================
