------------------------------- MODULE CxSession ------------------------------
(***************************************************************************)
(* ArubaCXSession: the REST sessions that threads of the agent (poller,    *)
(* backup, scanner, ...) hold on one AOS-CX switch, which allows only a    *)
(* few at a time.  Any call may be lost, before the switch has acted on it *)
(* or after.                                                               *)
(***************************************************************************)
EXTENDS FiniteSets, Naturals

CONSTANTS
  Clients,    \* threads with a session object of their own
  NVersions,  \* API versions to try, the newest first
  Slots,      \* sessions the switch allows
  MaxLost     \* a bound: answers to login and calls of logout that are lost

ASSUME CxSessionAssumption ==
  /\ IsFiniteSet(Clients)
  /\ NVersions \in Nat \ {0}
  /\ Slots \in Nat /\ MaxLost \in Nat

VARIABLES
  spoken,    \* the newest version the switch speaks; it speaks the older ones too
  client,    \* per thread: its step, the version or attempt it is at, logged_in
  based,     \* threads whose base_url is set, by a login that succeeded
  live,      \* threads whose cookie names a session of the switch
  orphans,   \* sessions of the switch that no thread knows of
  unheard,   \* ghost: answers to a login that were lost
  unended,   \* ghost: calls of logout that did not reach the switch
  rejected   \* ghost: a login found no slot

cxVars == <<spoken, client, based, live, orphans, unheard, unended, rejected>>

Out == [step |-> "out", at |-> 1, logged_in |-> FALSE]

Full == Cardinality(live) + orphans >= Slots

\* The next version, or the end of login; the with block is run in any case.
NextVersion(c) ==
  IF client[c].at < NVersions THEN [client[c] EXCEPT !.at = @ + 1]
  ELSE [client[c] EXCEPT !.step = "in"]

\* __enter__
Enter(c) ==
  /\ client[c] = Out
  /\ client' = [client EXCEPT ![c].step = "login"]
  /\ based' = based \ {c}
  /\ UNCHANGED <<spoken, live, orphans, unheard, unended, rejected>>

Speaks(c) == client[c].at >= spoken

\* login: the switch makes a session and says so.
LoginOk(c) ==
  /\ client[c].step = "login" /\ Speaks(c) /\ ~Full
  /\ client' = [client EXCEPT ![c] = [step |-> "in", at |-> 1, logged_in |-> TRUE]]
  /\ based' = based \union {c}
  /\ live' = live \union {c}
  /\ UNCHANGED <<spoken, orphans, unheard, unended, rejected>>

\* login: the answer is lost.  A time-out ends login; after any other exception it
\* goes on to the next version.
LoginLost(c, timeout) ==
  /\ client[c].step = "login" /\ Speaks(c) /\ ~Full
  /\ unheard + unended < MaxLost
  /\ client' = [client EXCEPT ![c] =
       IF timeout THEN [client[c] EXCEPT !.step = "in"] ELSE NextVersion(c)]
  /\ orphans' = orphans + 1
  /\ unheard' = unheard + 1
  /\ UNCHANGED <<spoken, based, live, unended, rejected>>

\* login: a version it does not speak, or no slot; neither is a 401.
LoginRefused(c) ==
  /\ client[c].step = "login"
  /\ Speaks(c) => Full
  /\ client' = [client EXCEPT ![c] = NextVersion(c)]
  /\ rejected' = (rejected \/ Speaks(c))
  /\ UNCHANGED <<spoken, based, live, orphans, unheard, unended>>

\* login: wrong credentials, or the switch is not reached.
LoginFails(c) ==
  /\ client[c].step = "login"
  /\ client' = [client EXCEPT ![c].step = "in"]
  /\ UNCHANGED <<spoken, based, live, orphans, unheard, unended, rejected>>

\* mutant: whatever goes wrong with a request, log in again.
AnyAnswer(c) == TRUE

Is401(c) == c \notin live

\* _get: a 401, for the switch has dropped the session, or the last renewal has failed,
\* and login once more.
Renew(c) ==
  /\ client[c].step = "in" /\ c \in based
  /\ Is401(c)
  /\ client' = [client EXCEPT ![c] = [step |-> "login", at |-> 1, logged_in |-> FALSE]]
  /\ live' = live \ {c}
  /\ orphans' = IF c \in live THEN orphans + 1 ELSE orphans
  /\ UNCHANGED <<spoken, based, unheard, unended, rejected>>

\* mutant: the object is dropped without a logout.
LeaveInHaste(c) ==
  /\ client[c].step = "in"
  /\ client' = [client EXCEPT ![c] = Out]
  /\ UNCHANGED <<spoken, based, live, orphans, unheard, unended, rejected>>

\* __exit__: nothing to do where the thread is not logged in.
Leave(c) ==
  /\ client[c].step = "in"
  /\ client' = [client EXCEPT ![c] =
       IF client[c].logged_in THEN [client[c] EXCEPT !.step = "logout", !.at = 1] ELSE Out]
  /\ UNCHANGED <<spoken, based, live, orphans, unheard, unended, rejected>>

\* logout: the switch ends the session and says so.
LogoutOk(c) ==
  /\ client[c].step = "logout" /\ c \in live
  /\ client' = [client EXCEPT ![c] = Out]
  /\ live' = live \ {c}
  /\ UNCHANGED <<spoken, based, orphans, unheard, unended, rejected>>

\* mutant: logout is tried once.
LastOfOne(c) == TRUE

\* attempt in (1, 2)
LastAttempt(c) == client[c].at = 2

\* logout: any other outcome.  Before the switch has acted (`reached' is FALSE), or
\* after, or there was no session to end.  After the second call the handle is dropped.
LogoutFails(c, reached) ==
  LET ended == reached \/ c \notin live
  IN
  /\ client[c].step = "logout"
  /\ ended \/ unheard + unended < MaxLost
  /\ unended' = IF ended THEN unended ELSE unended + 1
  /\ client' = [client EXCEPT ![c] = IF LastAttempt(c) THEN Out ELSE [client[c] EXCEPT !.at = 2]]
  /\ live' = IF ended \/ LastAttempt(c) THEN live \ {c} ELSE live
  /\ orphans' = IF LastAttempt(c) /\ ~ended THEN orphans + 1 ELSE orphans
  /\ UNCHANGED <<spoken, based, unheard, rejected>>

\* The switch drops a session that has not been used, or restarts.
AgeOut(c) ==
  /\ c \in live
  /\ live' = live \ {c}
  /\ UNCHANGED <<spoken, based, client, orphans, unheard, unended, rejected>>

OrphanAgesOut ==
  /\ orphans > 0
  /\ orphans' = orphans - 1
  /\ UNCHANGED <<spoken, based, client, live, unheard, unended, rejected>>

CxInit ==
  /\ spoken \in 1 .. NVersions
  /\ client = [c \in Clients |-> Out]
  /\ based = {}
  /\ live = {}
  /\ orphans = 0
  /\ unheard = 0
  /\ unended = 0
  /\ rejected = FALSE

CxNext ==
  \/ \E c \in Clients :
       \/ Enter(c) \/ LoginOk(c) \/ LoginRefused(c) \/ LoginFails(c)
       \/ \E timeout \in BOOLEAN : LoginLost(c, timeout)
       \/ Renew(c) \/ Leave(c) \/ LogoutOk(c)
       \/ \E reached \in BOOLEAN : LogoutFails(c, reached)
       \/ AgeOut(c)
  \/ OrphanAgesOut

CxSpec == CxInit /\ [][CxNext]_cxVars

CxTypeOK ==
  /\ spoken \in 1 .. NVersions
  /\ client \in [Clients -> [step : {"out", "login", "in", "logout"},
                             at : 1 .. NVersions \union {2}, logged_in : BOOLEAN]]
  /\ based \subseteq Clients
  /\ live \subseteq Clients
  /\ orphans \in 0 .. Slots
  /\ unheard \in Nat /\ unended \in Nat
  /\ rejected \in BOOLEAN

\* A thread that is through with the switch holds no session on it, however the
\* session was renewed or dropped in between; one that is logged in may.
SessionsAreKnown ==
  \A c \in live : client[c].step \in {"in", "logout"} /\ client[c].logged_in

\* Each session left behind has cost the answer to a login or both calls of a
\* logout: no single lost call of logout leaves one.
OrphansHaveACause == orphans <= unheard + unended \div 2

\* With no more threads than slots, a login finds none free only after enough
\* sessions have been left behind to fill what the other threads leave.
RejectedForACause ==
  rejected => unheard + unended \div 2 > Slots - Cardinality(Clients)

\* The slots of a switch are in use by threads inside a `with' block, or lost to a known
\* number of lost answers, and a login is turned away only when those fill the switch.
SessionsAreAccountedFor == SessionsAreKnown /\ OrphansHaveACause /\ RejectedForACause
===============================================================================
