-------------------------- MODULE VeyonConnections --------------------------
(***************************************************************************)
(* The pool of authenticated sessions with the Veyon WebAPI, one for each  *)
(* computer of the lab (veyonAuthenticate, veyonConnectedRequest).         *)
(* Requests that need a session while one is being made wait for it; what  *)
(* is idle, expired, broken or in the way is closed by whoever meets it,   *)
(* and every closing is a call of its own that others do not wait for.     *)
(***************************************************************************)
EXTENDS Naturals, FiniteSets

CONSTANTS
    Hosts,         \* computers
    Calls,         \* requests to computers that may be in flight at once
    MaxSessions,   \* sessions that are ever opened, a bound of the model
    MaxCalls       \* requests, a bound of the model

VARIABLES
    paused,        \* a full export has asked for quiet
    cache,         \* veyonConnectionCache: the session of each computer, or none
    health,        \* each session: "fresh", "idle" for long, or "expired"
    active,        \* requests that use each session (rec.active)
    flight,        \* veyonAuthInFlight: where each authentication is
    call,          \* where each request is
    sweep,         \* sessions that each actor is going to close
    open,          \* sessions that the WebAPI gave and was not told to close
    host,          \* the computer of each session
    made, asked    \* sessions opened, and requests made

vars == <<cache, health, active, flight, call, sweep, open, host, made, asked>>

Sessions == 1..MaxSessions
None == 0
Actors == Hosts \cup Calls \cup {"timer", "operator"}
Cached == {cache[h] : h \in Hosts} \ {None}
Unused(s) == active[s] = 0

Idle == [pc |-> "idle"]

Init ==
    /\ cache = [h \in Hosts |-> None]
    /\ health = [s \in Sessions |-> "fresh"]
    /\ active = [s \in Sessions |-> 0]
    /\ flight = [h \in Hosts |-> "none"]
    /\ call = [c \in Calls |-> Idle]
    /\ sweep = [a \in Actors |-> {}]
    /\ open = {} /\ host = [s \in Sessions |-> CHOOSE h \in Hosts : TRUE]
    /\ made = 0 /\ asked = 0

------------------------------------------------------------------------------
(* Closing (veyonCloseConnection): the session leaves the pool, unless it  *)
(* was replaced there, and then it is closed at the WebAPI.                *)

Forget(s) == [h \in Hosts |-> IF cache[h] = s THEN None ELSE cache[h]]

(* Who makes room or tidies up looks again whether a session is in use,    *)
(* and the timer whether it is idle; who met a broken session, and the     *)
(* operator, close it anyway.                                              *)
MakesRoom(a) ==
    \/ a = "timer" \/ (a \in Hosts /\ flight[a] \in {"trim", "again"})
    \/ (a \in Calls /\ call[a].pc = "trim")
CloseAny(a, s) == a = "timer" => health[s] = "idle"
MayClose(a, s) ==
    /\ MakesRoom(a) => Unused(s)
    /\ a = "timer" => health[s] = "idle"

(* Nobody hears whether the closing failed.                                *)
Close(a, s) ==
    /\ s \in sweep[a]
    /\ sweep' = [sweep EXCEPT ![a] = @ \ {s}]
    /\ IF MayClose(a, s) THEN cache' = Forget(s) /\ open' = open \ {s} ELSE UNCHANGED <<cache, open>>
    /\ UNCHANGED <<health, active, flight, call, host, made, asked>>

(* The least recently used, as many as are too many (veyonTrimPool).       *)
MakeRoom(a) ==
    \E S \in SUBSET {s \in Cached : Unused(s)} :
        sweep' = [sweep EXCEPT ![a] = S]

------------------------------------------------------------------------------
(* A request                                                               *)

(* veyonAuthenticate: wait for the authentication in flight, take the      *)
(* session of the pool, or begin to authenticate.  What was in the pool is *)
(* closed after that, so that nobody begins another meanwhile.             *)
Seek(c, h, first) ==
    IF flight[h] # "none"
    THEN /\ call' = [call EXCEPT ![c] = [pc |-> "wait", host |-> h, first |-> first]]
         /\ UNCHANGED <<flight, sweep>>
    ELSE IF cache[h] # None /\ health[cache[h]] = "fresh"
    THEN /\ call' = [call EXCEPT ![c] = [pc |-> "have", host |-> h, first |-> first]]
         /\ UNCHANGED <<flight, sweep>>
    ELSE /\ call' = [call EXCEPT ![c] = [pc |-> "wait", host |-> h, first |-> first]]
         /\ flight' = [flight EXCEPT ![h] = "close"]
         /\ sweep' = [sweep EXCEPT ![h] = {cache[h]} \ {None}]

Ask(c, h, first) ==
    /\ asked < MaxCalls /\ asked' = asked + 1
    /\ call[c] = Idle
    /\ Seek(c, h, first)
    /\ UNCHANGED <<cache, health, active, open, host, made>>

(* After the await; the pool may hold another session by now, or none.     *)
Use(c) ==
    /\ call[c].pc = "have"
    /\ LET rec == cache[call[c].host]
       IN /\ call' = [call EXCEPT ![c] = [pc |-> "read", host |-> @.host, first |-> @.first, rec |-> rec]]
          /\ IF rec = None THEN UNCHANGED <<active, health>>
             ELSE /\ active' = [active EXCEPT ![rec] = @ + 1]
                  /\ health' = [health EXCEPT ![rec] = IF @ = "idle" THEN "fresh" ELSE @]
    /\ UNCHANGED <<cache, flight, sweep, open, host, made, asked>>

Release(c) == IF call[c].rec = None THEN active ELSE [active EXCEPT ![call[c].rec] = @ - 1]

(* It succeeds, or fails for good.                                         *)
Answered(c) ==
    /\ call[c].pc = "read"
    /\ active' = Release(c)
    /\ call' = [call EXCEPT ![c] = Idle]
    /\ UNCHANGED <<cache, health, flight, sweep, open, host, made, asked>>

(* The session is unknown, or there are too many: discard it if it is the  *)
(* pool's, make room if that was the reason, and try once more.            *)
Broken(c, full) ==
    /\ call[c].pc = "read" /\ call[c].first
    /\ active' = Release(c)
    /\ LET s == call[c].rec
       IN sweep' = [sweep EXCEPT ![c] = IF cache[call[c].host] = s THEN {s} \ {None} ELSE {}]
    /\ call' = [call EXCEPT ![c] = [pc |-> IF full THEN "discard" ELSE "retry", host |-> @.host]]
    /\ UNCHANGED <<cache, health, flight, open, host, made, asked>>

Trim(c) ==
    /\ call[c].pc = "discard" /\ sweep[c] = {}
    /\ MakeRoom(c)
    /\ call' = [call EXCEPT ![c].pc = "trim"]
    /\ UNCHANGED <<cache, health, active, flight, open, host, made, asked>>

Retry(c) ==
    /\ call[c].pc \in {"trim", "retry"} /\ sweep[c] = {}
    /\ Seek(c, call[c].host, FALSE)
    /\ UNCHANGED <<cache, health, active, open, host, made, asked>>

CallStep == \E c \in Calls :
    Use(c) \/ Answered(c) \/ (\E full \in BOOLEAN : Broken(c, full)) \/ Trim(c) \/ Retry(c)

------------------------------------------------------------------------------
(* An authentication (veyonAuthenticateInternal)                           *)

Waiters(h) == {c \in Calls : call[c].pc = "wait" /\ call[c].host = h}
Ends(h, results) ==
    /\ flight' = [flight EXCEPT ![h] = "none"]
    /\ call' = [c \in Calls |-> IF c \in Waiters(h) THEN results[c] ELSE call[c]]

Replaced(h) ==
    /\ flight[h] = "close" /\ sweep[h] = {}
    /\ MakeRoom(h) /\ flight' = [flight EXCEPT ![h] = "trim"]
    /\ UNCHANGED <<cache, health, active, call, open, host, made, asked>>

Open(h) == made < MaxSessions /\ made' = made + 1 /\ host' = [host EXCEPT ![made'] = h] /\ open' = open \cup {made'}

Authenticated(h) ==
    /\ flight[h] \in {"trim", "again"} /\ sweep[h] = {}
    /\ Open(h)
    /\ cache' = [cache EXCEPT ![h] = made']
    /\ Ends(h, [c \in Waiters(h) |-> [pc |-> "have", host |-> h, first |-> call[c].first]])
    /\ UNCHANGED <<health, active, sweep, asked>>

(* Refused, or the answer is lost.                                         *)
NotAuthenticated(h) ==
    /\ flight[h] \in {"trim", "again"} /\ sweep[h] = {}
    /\ Ends(h, [c \in Waiters(h) |-> Idle])
    /\ UNCHANGED <<cache, health, active, sweep, open, host, made, asked>>

(* There are too many sessions: make room and try again.                   *)
Full(h) ==
    /\ flight[h] = "trim" /\ sweep[h] = {}
    /\ MakeRoom(h) /\ flight' = [flight EXCEPT ![h] = "again"]
    /\ UNCHANGED <<cache, health, active, call, open, host, made, asked>>

AuthStep == \E h \in Hosts :
    Replaced(h) \/ Authenticated(h) \/ NotAuthenticated(h) \/ Full(h)

------------------------------------------------------------------------------
(* Every fifteen seconds idle sessions are closed; an operator closes all. *)
Tidy(a) ==
    /\ sweep[a] = {} /\ Cached # {}
    /\ a = "timer" => ~paused
    /\ sweep' = [sweep EXCEPT ![a] = Cached]
    /\ UNCHANGED <<cache, health, active, flight, call, open, host, made, asked>>

Age(s) ==
    /\ s \in Cached /\ health[s] = "fresh"
    /\ \E h \in {"idle", "expired"} : (h = "idle" => Unused(s)) /\ health' = [health EXCEPT ![s] = h]
    /\ UNCHANGED <<cache, active, flight, call, sweep, open, host, made, asked>>

(* The Hub starts again: nobody knows what the WebAPI still has.           *)
Restart ==
    /\ cache' = [h \in Hosts |-> None] /\ flight' = [h \in Hosts |-> "none"]
    /\ active' = [s \in Sessions |-> 0]
    /\ call' = [c \in Calls |-> Idle] /\ sweep' = [a \in Actors |-> {}]
    /\ open' = {}
    /\ UNCHANGED <<health, host, made, asked>>

Request == (\E c \in Calls, h \in Hosts, first \in BOOLEAN : Ask(c, h, first)) \/ Tidy("operator")
Step == CallStep \/ AuthStep \/ (\E a \in Actors, s \in Sessions : Close(a, s))
Timer == Tidy("timer")
Outside == \E s \in Sessions : Age(s)

Next == Request \/ Step \/ Timer \/ Outside \/ Restart
Spec == Init /\ [][Next]_vars

------------------------------------------------------------------------------
(* A session that is open is in the pool or is being closed, unless the    *)
(* WebAPI did not answer: requests at the same time do not make two for    *)
(* one computer, and an older request does not push a newer session out.   *)
(* Who makes room does not close what is in use, although it was not when  *)
(* the room was planned.                                                   *)
NoOrphans == open \subseteq Cached
InUseIsKept ==
    [][\A h \in Hosts : cache[h] # None /\ cache'[h] # cache[h] =>
          \/ Unused(cache[h]) \/ Restart
          \/ \E a \in Actors : ~MakesRoom(a) /\ cache[h] \in sweep[a] \ sweep'[a]]_cache

------------------------------------------------------------------------------
(* Why these hold: the inductive invariant of HubServicesProofs.           *)

Asking ==
    {Idle} \cup [pc : {"wait", "have"}, host : Hosts, first : BOOLEAN]
           \cup [pc : {"read"}, host : Hosts, first : BOOLEAN, rec : Sessions \cup {None}]
           \cup [pc : {"discard", "trim", "retry"}, host : Hosts]

CallsAreKnown == call \in [Calls -> Asking]

PoolTypeOK ==
    /\ cache \in [Hosts -> Sessions \cup {None}]
    /\ flight \in [Hosts -> {"none", "close", "trim", "again"}]
    /\ sweep \in [Actors -> SUBSET Sessions]
    /\ made \in 0..MaxSessions

\* Who authenticates closes what was in the pool first, and nobody else puts a session
\* there meanwhile.
PlaceIsFree ==
    \A h \in Hosts :
        /\ flight[h] = "close" => cache[h] \in sweep[h] \cup {None}
        /\ flight[h] \in {"trim", "again"} => cache[h] = None

PoolInv == PoolTypeOK /\ CallsAreKnown /\ PlaceIsFree /\ NoOrphans

==============================================================================
