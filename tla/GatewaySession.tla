--------------------------- MODULE GatewaySession ---------------------------
(***************************************************************************)
(* One session of the capital-gateway with capital.com: a CapitalClient    *)
(* made for one account (SessionPool.for_account), the requests that go    *)
(* through it at the same time, and the login they share.                  *)
(*                                                                         *)
(* The account is session state at the provider, which is external here:   *)
(* it opens a session on its preferred account, moves it on PUT /session,  *)
(* forgets it at any time, and carries out a request on the account the    *)
(* session stands on when the request reaches it.                          *)
(*                                                                         *)
(* A request is an order, as what a request does elsewhere is what matters.*)
(* The gates delay and refuse nothing, so they are not kept; nor is        *)
(* switch_account, which only the default session is asked for.            *)
(***************************************************************************)
EXTENDS Naturals, FiniteSets

CONSTANTS
  Request,     \* the requests of the session's callers
  MaxSession,  \* as many logins as they can cause
  MaxFault     \* bound: expiries, refusals, lost connections

Session == 1..MaxSession

ASSUME ConstantsAssumption ==
  /\ IsFiniteSet(Request) /\ MaxSession \in Nat /\ MaxFault \in Nat
  /\ MaxSession >= 2 * Cardinality(Request)

VARIABLES
  tokens,   \* the session of self._cst and self._security_token, 0 for none
  login,    \* where _login_inflight is, "none" when there is none or it is done
  opened,   \* how many sessions capital.com has opened
  alive,    \* those it still accepts
  home,     \* those that stand on self._account_id
  at,       \* where each request is
  headers,  \* the session each was sent with
  renewed,  \* the requests sent on a session whose login they waited for
  answer,   \* what each was answered
  placed,   \* how often capital.com has carried each out
  astray,   \* the ones it carried out on another account
  faults

provider == <<opened, alive, home>>
calls    == <<at, headers, renewed, answer>>
orders   == <<placed, astray>>
vars     == <<tokens, login, provider, calls, orders, faults>>

Fault == faults < MaxFault /\ faults' = faults + 1

authenticated == tokens # 0

Waiting == {r \in Request : at[r] \in {"first login", "second login"}}

Init ==
  /\ tokens = 0 /\ login = "none"
  /\ opened = 0 /\ alive = {} /\ home = {}
  /\ at = [r \in Request |-> "idle"] /\ headers = [r \in Request |-> 0]
  /\ renewed = {} /\ answer = [r \in Request |-> "none"]
  /\ placed = [r \in Request |-> 0] /\ astray = {}
  /\ faults = 0

(***************************************************************************)
(* CapitalClient.request                                                   *)
(***************************************************************************)

(* login(): start one, or join the one under way.                          *)
JoinLogin(r, place) ==
  /\ at' = [at EXCEPT ![r] = place]
  /\ login' = IF login = "none" THEN "post" ELSE login

SendRequest(r) ==
  /\ at[r] = "idle"
  /\ IF authenticated
     THEN /\ at' = [at EXCEPT ![r] = "sent"]
          /\ headers' = [headers EXCEPT ![r] = tokens]
          /\ UNCHANGED login
     ELSE JoinLogin(r, "first login") /\ UNCHANGED headers
  /\ UNCHANGED <<tokens, provider, renewed, answer, orders, faults>>

(* capital.com gets the request: it refuses a session it does not know.    *)
ProviderReceives(r) ==
  LET known == headers[r] \in alive IN
  /\ at[r] \in {"sent", "resent"} /\ answer[r] = "none"
  /\ answer' = [answer EXCEPT ![r] = IF known THEN "done" ELSE "401"]
  /\ placed' = [placed EXCEPT ![r] = IF known THEN @ + 1 ELSE @]
  /\ astray' = IF known /\ headers[r] \notin home THEN astray \cup {r} ELSE astray
  /\ UNCHANGED <<tokens, login, provider, at, headers, renewed, faults>>

(* A 401 to the first attempt is a login and a second one; the answer to   *)
(* that goes back as it is.                                                *)
Answered(r) ==
  /\ at[r] \in {"sent", "resent"} /\ answer[r] # "none"
  /\ IF at[r] = "sent" /\ answer[r] = "401"
     THEN /\ JoinLogin(r, "second login")
          /\ answer' = [answer EXCEPT ![r] = "none"]
     ELSE at' = [at EXCEPT ![r] = "over"] /\ UNCHANGED <<login, answer>>
  /\ UNCHANGED <<tokens, provider, headers, renewed, orders, faults>>

(* Mutant: a lost connection is tried again, as a 401 is.                  *)
ConnectionRetried(r) ==
  /\ at[r] \in {"sent", "resent"} /\ Fault
  /\ IF at[r] = "sent"
     THEN JoinLogin(r, "second login") /\ answer' = [answer EXCEPT ![r] = "none"]
     ELSE /\ at' = [at EXCEPT ![r] = "over"]
          /\ answer' = [answer EXCEPT ![r] = "lost"]
          /\ UNCHANGED login
  /\ UNCHANGED <<tokens, provider, headers, renewed, orders>>

(* The connection fails or times out, before or after the provider acted,  *)
(* or the caller is cancelled, which the login it waits for outlives.      *)
ConnectionFails(r) ==
  /\ at[r] \notin {"idle", "over"} /\ Fault
  /\ at' = [at EXCEPT ![r] = "over"]
  /\ answer' = [answer EXCEPT ![r] = "lost"]
  /\ UNCHANGED <<tokens, login, provider, headers, renewed, orders>>

(***************************************************************************)
(* _login and _restore_account, in the task every waiter shares            *)
(***************************************************************************)

(* The task returned: each waiter reads the tokens and sends.  A login     *)
(* that was not answered 200 returns as well, with the tokens as before.   *)
Release(restored) ==
  /\ login' = "none"
  /\ at' = [r \in Request |-> IF at[r] = "first login" THEN "sent"
                              ELSE IF at[r] = "second login" THEN "resent" ELSE at[r]]
  /\ headers' = [r \in Request |-> IF r \in Waiting THEN tokens' ELSE headers[r]]
  /\ renewed' = IF restored THEN renewed \cup Waiting ELSE renewed \ Waiting
  /\ UNCHANGED answer

(* Mutant: the waiters of a login that raised are never told.              *)
RaiseUnheard ==
  /\ login' = "none"
  /\ UNCHANGED calls

(* The task raised: so does every waiter, and nothing was sent.            *)
Raise ==
  /\ login' = "none"
  /\ at' = [r \in Request |-> IF r \in Waiting THEN "over" ELSE at[r]]
  /\ answer' = [r \in Request |-> IF r \in Waiting THEN "refused" ELSE answer[r]]
  /\ UNCHANGED <<headers, renewed>>

(* POST /session is answered 200: the tokens are the new session's from    *)
(* here on.  A body that names the right account ends the login; of one    *)
(* that names none the session is put back blindly.                        *)
LoginOpens(on_its_account, named) ==
  /\ login = "post" /\ opened < MaxSession
  /\ opened' = opened + 1 /\ tokens' = opened' /\ alive' = alive \cup {opened'}
  /\ home' = IF on_its_account THEN home \cup {opened'} ELSE home
  /\ IF on_its_account /\ named
     THEN Release(TRUE)
     ELSE login' = "put" /\ UNCHANGED calls
  /\ UNCHANGED <<orders, faults>>

LoginRefused ==
  /\ login = "post" /\ Fault
  /\ UNCHANGED tokens
  /\ Release(FALSE)
  /\ UNCHANGED <<provider, orders>>

LoginUnanswered ==
  /\ login = "post" /\ Fault
  /\ Raise
  /\ UNCHANGED <<tokens, provider, orders>>

(* Moved, or "error.not-different": it was there already.                  *)
PutBackTaken ==
  /\ login \in {"put", "put again"} /\ tokens \in alive
  /\ home' = home \cup {tokens}
  /\ UNCHANGED tokens
  /\ Release(TRUE)
  /\ UNCHANGED <<opened, alive, orders, faults>>

(* Mutant: the rate limit is read as success.                              *)
PutBackLimitIgnored ==
  /\ login = "put" /\ Fault
  /\ UNCHANGED tokens
  /\ Release(TRUE)
  /\ UNCHANGED <<provider, orders>>

(* A 429 waits for the login gate and is tried once more.                  *)
PutBackLimited ==
  /\ login = "put" /\ Fault
  /\ login' = "put again"
  /\ UNCHANGED <<tokens, provider, calls, orders>>

(* Any other answer, or a second 429: the session is given up.             *)
PutBackRefused ==
  /\ login \in {"put", "put again"}
  /\ Fault \/ (tokens \notin alive /\ UNCHANGED faults)
  /\ tokens' = 0
  /\ Raise
  /\ UNCHANGED <<provider, orders>>

(* No answer at all: the exception passes _restore_account by, and the     *)
(* tokens stay.                                                            *)
PutBackUnanswered(taken) ==
  /\ login \in {"put", "put again"} /\ Fault
  /\ home' = IF taken /\ tokens \in alive THEN home \cup {tokens} ELSE home
  /\ Raise
  /\ UNCHANGED <<tokens, opened, alive, orders>>

(* Idle for ten minutes, or replaced from elsewhere.                       *)
Expire(s) ==
  /\ s \in alive /\ Fault
  /\ alive' = alive \ {s}
  /\ UNCHANGED <<tokens, login, opened, home, calls, orders>>

LoginStep ==
  \/ \E on, named \in BOOLEAN : LoginOpens(on, named)
  \/ LoginRefused \/ LoginUnanswered
  \/ PutBackTaken \/ PutBackLimited \/ PutBackRefused
  \/ \E taken \in BOOLEAN : PutBackUnanswered(taken)

Next ==
  \/ \E r \in Request :
       SendRequest(r) \/ ProviderReceives(r) \/ Answered(r) \/ ConnectionFails(r)
  \/ LoginStep
  \/ \E s \in Session : Expire(s)

Spec == Init /\ [][Next]_vars

(* httpx gives every call twenty seconds, so each is answered or fails,    *)
(* and the login task is run to its end.                                   *)
Fairness ==
  /\ \A r \in Request : WF_vars(ProviderReceives(r)) /\ WF_vars(Answered(r))
  /\ WF_vars(LoginStep)

FairSpec == Spec /\ Fairness

(***************************************************************************)
(* Properties                                                              *)
(***************************************************************************)

(* Every variable keeps its type, and who waits for a login has one to     *)
(* wait for.                                                               *)
TypeOK ==
  /\ tokens \in 0..opened
  /\ login \in {"none", "post", "put", "put again"} /\ (login = "none" => Waiting = {})
  /\ opened \in 0..MaxSession
  /\ alive \subseteq 1..opened /\ home \subseteq 1..opened
  /\ at \in [Request -> {"idle", "first login", "sent", "second login", "resent", "over"}]
  /\ headers \in [Request -> 0..opened]
  /\ renewed \subseteq Request
  /\ answer \in [Request -> {"none", "done", "401", "lost", "refused"}]
  /\ placed \in [Request -> Nat]
  /\ astray \subseteq Request
  /\ faults \in 0..MaxFault

(* An order that waited for the session to be renewed - its own attempt    *)
(* met the expiry, or it found no session - is carried out on the account  *)
(* it names, whatever was refused, limited or lost while the session was   *)
(* put back.                                                               *)
RenewedOrdersStayHome == astray \cap renewed = {}

(* An order is carried out once at most, whoever else renews the session   *)
(* meanwhile, and not at all when the caller is told the session could not *)
(* be renewed or is answered a 401: a caller told so may place it again.   *)
PlacedOnce ==
  \A r \in Request :
    /\ placed[r] <= 1
    /\ at[r] = "over" /\ answer[r] \in {"refused", "401"} => placed[r] = 0

(* Every request gets an answer, also when the login it joined fails, and  *)
(* MaxSession logins are never too few.                                    *)
EveryRequestEnds == \A r \in Request : at[r] # "idle" ~> at[r] = "over"

(***************************************************************************)
(* Statements of the repository the code does not keep.                    *)
(***************************************************************************)

(* "a renewed session is put back on its own before any waiter sees it":   *)
(* once no login is under way, the session held stands on its account.     *)
HeldSessionStands == login = "none" /\ authenticated => tokens \in home

(* A call "MUST NOT" be carried out on the account the login opened on.    *)
NoOrderAstray == astray = {}
=============================================================================
