----------------------------- MODULE InterfacePoll ----------------------------
(***************************************************************************)
(* Utilisation from interface counters: InterfacePollTask._poll_one_inner, *)
(* interfaces.assemble_rows and compute_util, and the counters kept in the *)
(* store so that a restart does not lose the previous sample.              *)
(*                                                                         *)
(* One interface and one direction per switch.  A sample is an octet count *)
(* with the host it was read from; a rate is the octets between two        *)
(* samples, which compute_util divides by the time between them.           *)
(***************************************************************************)
EXTENDS Naturals, Nothing

CONSTANTS
  Names, Hosts,   \* switch names, and the devices that may stand behind them
  MaxOctets       \* bound: octets a device carries

ASSUME InterfacePollAssumption == None \notin Hosts /\ MaxOctets \in Nat

VARIABLES
  host,      \* state.switches: the device behind a name, None when unmanaged
  octets,    \* per device: octets carried since it was made
  counter,   \* per device: hc_in, octets since it started
  walked,    \* per name: the columns a worker has read and not yet evaluated
  prev,      \* _prev
  rates,     \* _current: the rate on show, with what was really carried (ghost)
  stored     \* the counters document of the device

pollVars == <<host, octets, counter, walked, prev, rates, stored>>

\* What the record of a walk holds; `total' and `lost' are ghosts: the octets the
\* device had carried, and that the counter column did not come.
Sample(h, lost) ==
  [host |-> h, count |-> IF lost THEN 0 ELSE counter[h], total |-> octets[h], lost |-> lost]

Blank == [rate |-> None]

\* The sample of a walk without rows.
NoRows == [count |-> None]

\* mutant: a counter that went back is taken for a wrap.
AbsoluteUtil(p, s) ==
  IF p = None THEN None
  ELSE IF s.count < p.count THEN p.count - s.count ELSE s.count - p.count

\* compute_util
Util(p, s) == IF p = None \/ s.count < p.count THEN None ELSE s.count - p.count

\* ifc.collect: bulk_walk ends a column that times out and goes on with the next, and
\* assemble_rows takes a missing counter for 0.
CollectRows(n, lost) ==
  /\ host[n] # None
  /\ walked[n] = None
  /\ walked' = [walked EXCEPT ![n] = Sample(host[n], lost)]
  /\ UNCHANGED <<host, octets, counter, prev, rates, stored>>

\* No interface came, or only its index column is missing: no rows.
WalkEmpty(n) ==
  /\ host[n] # None
  /\ walked[n] = None
  /\ prev' = [prev EXCEPT ![n] = NoRows]
  /\ rates' = [rates EXCEPT ![n] = Blank]
  /\ stored' \in {stored, [stored EXCEPT ![n] = NoRows]}
  /\ UNCHANGED <<host, octets, counter, walked>>

\* _load_prev, only when there is none in memory.
Previous(n) == IF prev[n] = None THEN stored[n] ELSE prev[n]

SaveCounters(n, s, saved) == stored' = IF saved THEN [stored EXCEPT ![n] = s] ELSE stored

\* The rest of _poll_one_inner, `saved' when the store takes the counters.
ComputeRates(n, saved) ==
  LET s == walked[n]
      p == IF Previous(n) = NoRows THEN None ELSE Previous(n)
  IN
  /\ s # None
  /\ walked' = [walked EXCEPT ![n] = None]
  /\ rates' = [rates EXCEPT ![n] =
       IF Util(p, s) = None THEN Blank
       ELSE [rate |-> Util(p, s), carried |-> s.total - p.total,
             sameHost |-> s.host = p.host, lost |-> s.lost \/ p.lost]]
  /\ prev' = [prev EXCEPT ![n] = s]
  /\ SaveCounters(n, s, saved)
  /\ UNCHANGED <<host, octets, counter>>

Traffic(h) ==
  /\ octets[h] < MaxOctets
  /\ octets' = [octets EXCEPT ![h] = @ + 1]
  /\ counter' = [counter EXCEPT ![h] = @ + 1]
  /\ UNCHANGED <<host, walked, prev, rates, stored>>

\* A device restarts and counts from 0.
Reboot(h) ==
  /\ counter[h] > 0
  /\ counter' = [counter EXCEPT ![h] = 0]
  /\ UNCHANGED <<host, octets, walked, prev, rates, stored>>

\* A name is given to a device, unmanaged or deleted; the task is not told.
Renamed(n, h) ==
  /\ host[n] # h
  /\ host' = [host EXCEPT ![n] = h]
  /\ UNCHANGED <<octets, counter, walked, prev, rates, stored>>

\* The agent stops and comes up again; the store is kept.
PollRestart ==
  /\ walked' = [n \in Names |-> None]
  /\ prev' = [n \in Names |-> None]
  /\ rates' = [n \in Names |-> Blank]
  /\ UNCHANGED <<host, octets, counter, stored>>

PollInit ==
  /\ host = [n \in Names |-> None]
  /\ octets = [h \in Hosts |-> 0]
  /\ counter = octets
  /\ walked = [n \in Names |-> None]
  /\ prev = walked
  /\ rates = [n \in Names |-> Blank]
  /\ stored = walked

PollNext ==
  \/ \E n \in Names, b \in BOOLEAN : CollectRows(n, b) \/ ComputeRates(n, b)
  \/ \E n \in Names : WalkEmpty(n)
  \/ \E h \in Hosts : Traffic(h) \/ Reboot(h)
  \/ \E n \in Names, h \in Hosts \union {None} : Renamed(n, h)
  \/ PollRestart

PollSpec == PollInit /\ [][PollNext]_pollVars

Shown(n) == rates[n].rate # None

\* What a rate claims was carried between the two samples, across reboots of the
\* device, restarts of the agent and saves that failed, unless a column got lost or
\* the name was given to another device.
UtilIsCarried ==
  \A n \in Names : Shown(n) /\ ~rates[n].lost /\ rates[n].sameHost =>
    rates[n].rate <= rates[n].carried

\* The same without the first exception: what collect promises with "or None on SNMP
\* failure".
FailedWalkIsNoData ==
  \A n \in Names : Shown(n) /\ rates[n].sameHost => rates[n].rate <= rates[n].carried
===============================================================================
