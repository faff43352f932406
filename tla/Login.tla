-------------------------------- MODULE Login --------------------------------
(***************************************************************************)
(* Logging in: the rate limiter and the lockout, each under a mutex of its *)
(* own (rate_limiter.go, login_guard.go), and the handler that calls them  *)
(* one after the other (Login in auth.go).  A request takes the time twice,*)
(* each time before it has the mutex: as it reaches the limiter, and, its  *)
(* body read, before it asks whether it is locked out; it records a        *)
(* failure under the latter.  Time counts in ticks; everything is lost     *)
(* with the process.                                                       *)
(***************************************************************************)
EXTENDS Integers, FiniteSets, FiniteSetsExt

CONSTANTS
    Client,       \* a username at an address
    Address,
    AddressOf,    \* [Client -> Address]
    Request,      \* requests
    MaxFailures, Lockout,   \* LoginGuard
    Limit, Window,          \* RateLimiter
    MaxTime       \* bound: the last tick

ASSUME LoginAssumption ==
    /\ IsFiniteSet(Request)
    /\ AddressOf \in [Client -> Address]
    /\ MaxFailures \in Nat \ {0} /\ Lockout \in Nat \ {0}
    /\ Limit \in Nat \ {0} /\ Window \in Nat \ {0} /\ MaxTime \in Nat

VARIABLES
    clock,
    failures,   \* LoginGuard.failures; a count of 0 is no record
    windows,    \* RateLimiter.windows; a count of 0 is no window
    lastSweep,
    request,    \* each request: its next step, its client and the time it took
    allowed,    \* history: when each address was let through, and how often,
                \* since a late request of it was
    guesses,    \* history: the failed logins of a client since its last success
    newest,     \* history: the latest time its record was consulted with
    overtaken   \* history: the clients of which an older request came after a newer

guardVars == <<failures, guesses, newest, overtaken>>
limiterVars == <<windows, lastSweep, allowed>>
loginVars == <<clock, guardVars, limiterVars, request>>

Time == 0..MaxTime
NoRecord == [count |-> 0, last |-> 0]
NoWindow == [count |-> 0, start |-> 0]
Resting == [pc |-> "none", client |-> CHOOSE c \in Client : TRUE, now |-> 0]

LoginInit ==
    /\ clock = 0
    /\ failures = [c \in Client |-> NoRecord] /\ windows = [a \in Address |-> NoWindow]
    /\ lastSweep = -Window  \* the zero time
    /\ request = [r \in Request |-> Resting]
    /\ allowed = [a \in Address |-> [t \in Time |-> 0]]
    /\ guesses = [c \in Client |-> [t \in Time |-> 0]]
    /\ newest = [c \in Client |-> 0] /\ overtaken = {}

-----------------------------------------------------------------------------
Tick ==
    /\ clock < MaxTime /\ clock' = clock + 1
    /\ UNCHANGED <<guardVars, limiterVars, request>>

Over(w, now) == w.count = 0 \/ now - w.start >= Window

(* Mutant: the sweep takes every window, the one still open too.           *)
SweptWhole(now) ==
    IF now - lastSweep >= Window THEN [a \in Address |-> NoWindow] ELSE windows

Swept(now) ==
    IF now - lastSweep >= Window
    THEN [a \in Address |-> IF Over(windows[a], now) THEN NoWindow ELSE windows[a]]
    ELSE windows

Arrive(r, c) ==
    /\ request[r].pc = "none"
    /\ request' = [request EXCEPT ![r] = [pc |-> "limit", client |-> c, now |-> clock]]
    /\ UNCHANGED <<clock, guardVars, limiterVars>>

(* A request is late that took its time before the window of its address   *)
(* was opened, or, where there is none, before the last sweep.             *)
Late(a, now) == now < IF windows[a].count > 0 THEN windows[a].start ELSE lastSweep

LetThrough(a, now) ==
    LET before == IF Late(a, now) THEN [t \in Time |-> 0] ELSE allowed[a]
    IN  allowed' = [allowed EXCEPT ![a] = [before EXCEPT ![now] = @ + 1]]

(* Allow: stale windows are swept now and then, and a refused request      *)
(* counts as well; bound: not beyond the first refused one.                *)
Allow(r) ==
    LET a == AddressOf[request[r].client]
        now == request[r].now
        w == Swept(now)[a]
        counted == IF Over(w, now) THEN [count |-> 1, start |-> now]
                                   ELSE [w EXCEPT !.count = Min({@ + 1, Limit + 1})]
    IN  /\ request[r].pc = "limit"
        /\ lastSweep' = IF now - lastSweep >= Window THEN now ELSE lastSweep
        /\ windows' = [Swept(now) EXCEPT ![a] = counted]
        /\ \/ /\ counted.count <= Limit
              /\ LetThrough(a, now)
              /\ request' = [request EXCEPT ![r] = [@ EXCEPT !.pc = "body", !.now = 0]]
           \/ /\ counted.count > Limit /\ UNCHANGED allowed
              /\ request' = [request EXCEPT ![r] = Resting]
        /\ UNCHANGED <<clock, guardVars>>

(* Login takes the time once the body is read; one that cannot be read is  *)
(* refused.                                                                *)
TakeTime(r) ==
    /\ request[r].pc = "body"
    /\ \/ request' = [request EXCEPT ![r] = [@ EXCEPT !.pc = "check", !.now = clock]]
       \/ request' = [request EXCEPT ![r] = Resting]
    /\ UNCHANGED <<clock, guardVars, limiterVars>>

-----------------------------------------------------------------------------
(* Mutant: a record is discarded when its lock is, but a tick too soon.    *)
LiveSoon(c, now) ==
    IF failures[c].count > 0 /\ now - failures[c].last >= Lockout - 1
    THEN NoRecord ELSE failures[c]

(* LoginGuard.get: the record, unless it is older than the lockout.        *)
Live(c, now) ==
    IF failures[c].count > 0 /\ now - failures[c].last >= Lockout
    THEN NoRecord ELSE failures[c]

Consult(c, now) ==
    /\ newest' = [newest EXCEPT ![c] = Max({@, now})]
    /\ overtaken' = IF now < newest[c] THEN overtaken \cup {c} ELSE overtaken

(* LockedRemaining: a locked client is answered at once.                   *)
Check(r) ==
    LET c == request[r].client
        now == request[r].now
    IN  /\ request[r].pc = "check"
        /\ Consult(c, now)
        /\ failures' = [failures EXCEPT ![c] = Live(c, now)]
        /\ request' = [request EXCEPT ![r] =
               IF Live(c, now).count >= MaxFailures THEN Resting ELSE [@ EXCEPT !.pc = "compare"]]
        /\ UNCHANGED <<clock, limiterVars, guesses>>

(* RecordFailure, under the time the request took before its check.        *)
Fail(r) ==
    LET c == request[r].client
        now == request[r].now
    IN  /\ request[r].pc = "compare" /\ request' = [request EXCEPT ![r] = Resting]
        /\ Consult(c, now)
        /\ failures' = [failures EXCEPT ![c] = [count |-> Live(c, now).count + 1, last |-> now]]
        /\ guesses' = [guesses EXCEPT ![c][now] = @ + 1]
        /\ UNCHANGED <<clock, limiterVars>>

(* Both compare equal: the record is deleted.                              *)
Succeed(r) ==
    LET c == request[r].client
    IN  /\ request[r].pc = "compare" /\ request' = [request EXCEPT ![r] = Resting]
        /\ failures' = [failures EXCEPT ![c] = NoRecord]
        /\ guesses' = [guesses EXCEPT ![c] = [t \in Time |-> 0]]
        /\ overtaken' = overtaken \ {c}
        /\ UNCHANGED <<clock, limiterVars, newest>>

(* The process ends; the next one starts with nothing.                     *)
Forget ==
    /\ failures' = [c \in Client |-> NoRecord] /\ windows' = [a \in Address |-> NoWindow]
    /\ lastSweep' = -Window
    /\ request' = [r \in Request |-> Resting]
    /\ allowed' = [a \in Address |-> [t \in Time |-> 0]]
    /\ guesses' = [c \in Client |-> [t \in Time |-> 0]]
    /\ newest' = [c \in Client |-> 0] /\ overtaken' = {}
    /\ UNCHANGED clock

LoginStep ==
    \/ Tick
    \/ \E r \in Request :
          \/ \E c \in Client : Arrive(r, c)
          \/ Allow(r) \/ TakeTime(r) \/ Check(r) \/ Fail(r) \/ Succeed(r)

-----------------------------------------------------------------------------
Within(count, length, t) ==
    MapThenSumSet(LAMBDA u : count[u], {u \in Time : t <= u /\ u < t + length})

(* The failures up to u of which no two in a row are a lockout apart.      *)
Chain(c, u) ==
    MapThenSumSet(LAMBDA t : guesses[c][t],
        {t \in 0..u : \A v \in t..(u - 1) :
            guesses[c][v] > 0 => Within(guesses[c], Lockout - 1, v + 1) > 0})

LockedOut(c, now) ==
    \E u \in Time : guesses[c][u] > 0 /\ now - u < Lockout /\ Chain(c, u) >= MaxFailures

(* Nobody gets past the check while the failures of his name and address   *)
(* lock him out, and however requests are sent side by side, those within  *)
(* any lockout's length are fewer than the limit and one more for each     *)
(* request that was past the check already (auth.go:44) -- but where an    *)
(* older request came to the record after a newer one, for that sets the   *)
(* time of the last failure back (login_guard.go:65).                      *)
LoginThrottled ==
    [][/\ \A r \in Request :
              request[r].pc = "check" /\ request'[r].pc = "compare"
              /\ request[r].client \notin overtaken'
                  => ~LockedOut(request[r].client, request[r].now)
       /\ \A c \in Client \ overtaken, t \in Time :
              Within(guesses[c], Lockout, t) < MaxFailures + Cardinality(Request)]_loginVars

(* What the code gives in place of the documented limit: in no window's    *)
(* length is an address let through twice the limit.  One less is reached, *)
(* at the end of a fixed window and the start of the next                  *)
(* (rate_limiter.go:49).  Neither other addresses' sweeps nor requests     *)
(* side by side add to it; a late request that is let through starts the   *)
(* account anew, for it may open a window in the past, beside the one that *)
(* was swept (rate_limiter.go:50).                                         *)
AddressThrottled ==
    \A a \in Address, t \in Time : Within(allowed[a], Window, t) < 2 * Limit

(* The limit of the README (99 and 105): so many attempts by an address a  *)
(* minute, whichever minute one takes.                                     *)
AttemptsPerMinute ==
    \A a \in Address, t \in Time : Within(allowed[a], Window, t) <= Limit
=============================================================================
