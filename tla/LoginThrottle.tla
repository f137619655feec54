----------------------------- MODULE LoginThrottle ----------------------------
(***************************************************************************)
(* _LoginRateLimiter and login_post around it.  The limiter is asked before *)
(* the password is verified and told afterwards; verification (scrypt, or  *)
(* a RADIUS server) takes time, and the server handles requests in         *)
(* parallel, so attempts that were let through together all count later.   *)
(* A deque of time stamps is a sequence of their ages; what is older than  *)
(* the window is pruned before anything is counted.                        *)
(***************************************************************************)
EXTENDS Naturals, Sequences, FiniteSets

CONSTANTS
  Ips, Logins,  \* client addresses and user names
  Attempts,     \* requests handled at a time
  MaxFailures, Window

ASSUME ThrottleAssumption ==
  MaxFailures \in Nat \ {0} /\ Window \in Nat /\ IsFiniteSet(Attempts)

VARIABLES
  byIp, byUser,  \* _by_ip, _by_user
  attempt,       \* per request: free, or whose password is being verified
  guesses        \* ghost: per user name, ages of the wrong passwords tried since
                 \* the last right one

throttleVars == <<byIp, byUser, attempt, guesses>>

Free == [ip |-> "none", login |-> "none"]

\* One unit of time later, without what _prune pops from the left, where the oldest are.
Older(ages) ==
  LET stale == Cardinality({i \in 1 .. Len(ages) : ages[i] >= Window})
  IN  [i \in 1 .. Len(ages) - stale |-> ages[i + stale] + 1]

\* mutant: only when both have hit the threshold.
LockedBoth(ip, login) ==
  Len(byIp[ip]) >= MaxFailures /\ Len(byUser[login]) >= MaxFailures

\* is_locked
Locked(ip, login) ==
  Len(byIp[ip]) >= MaxFailures \/ Len(byUser[login]) >= MaxFailures

\* login_post, up to the verification; a throttled request ends here.
Attempt(a, ip, login) ==
  /\ attempt[a] = Free
  /\ ~Locked(ip, login)
  /\ attempt' = [attempt EXCEPT ![a] = [ip |-> ip, login |-> login]]
  /\ UNCHANGED <<byIp, byUser, guesses>>

\* record_failure
Failed(a) ==
  LET ip == attempt[a].ip  login == attempt[a].login IN
  /\ attempt[a] # Free
  /\ byIp' = [byIp EXCEPT ![ip] = Append(@, 0)]
  /\ byUser' = [byUser EXCEPT ![login] = Append(@, 0)]
  /\ guesses' = [guesses EXCEPT ![login] = Append(@, 0)]
  /\ attempt' = [attempt EXCEPT ![a] = Free]

\* record_success
Succeeded(a) ==
  LET ip == attempt[a].ip  login == attempt[a].login IN
  /\ attempt[a] # Free
  /\ byIp' = [byIp EXCEPT ![ip] = <<>>]
  /\ byUser' = [byUser EXCEPT ![login] = <<>>]
  /\ guesses' = [guesses EXCEPT ![login] = <<>>]
  /\ attempt' = [attempt EXCEPT ![a] = Free]

TimePasses ==
  /\ byIp' = [ip \in Ips |-> Older(byIp[ip])]
  /\ byUser' = [login \in Logins |-> Older(byUser[login])]
  /\ guesses' = [login \in Logins |-> Older(guesses[login])]
  /\ UNCHANGED attempt

ThrottleInit ==
  /\ byIp = [ip \in Ips |-> <<>>]
  /\ byUser = [login \in Logins |-> <<>>]
  /\ attempt = [a \in Attempts |-> Free]
  /\ guesses = [login \in Logins |-> <<>>]

ThrottleNext ==
  \/ \E a \in Attempts, ip \in Ips, login \in Logins : Attempt(a, ip, login)
  \/ \E a \in Attempts : Failed(a) \/ Succeeded(a)
  \/ TimePasses

ThrottleSpec == ThrottleInit /\ [][ThrottleNext]_throttleVars

\* However many addresses they come from, no more wrong passwords are tried on
\* a user name within a window than the limit allows, short of those that were
\* being verified beside the one that reached it.
GuessesAreBounded ==
  \A login \in Logins : Len(guesses[login]) < MaxFailures + Cardinality(Attempts)
===============================================================================
