------------------------------ MODULE L2Discovery -----------------------------
(***************************************************************************)
(* What L2DiscoveryTask leaves in the MongoDB collections: the rows of a   *)
(* switch are deleted and inserted in two calls, the forwarding table      *)
(* first and the neighbours after it, and either call may fail.            *)
(*                                                                         *)
(* A row is known by the sweep it was read in.  A sweep has many rows; an  *)
(* insert that fails half way has put in some of them.                     *)
(***************************************************************************)
EXTENDS Naturals

CONSTANTS
  Sweepers,    \* threads of the scheduler that may be in run()
  Swept,       \* names of the eligible switches
  MaxSweeps,   \* bound
  NoSweeper

ASSUME L2Assumption == MaxSweeps \in Nat /\ NoSweeper \notin Sweepers

VARIABLES
  holder,    \* who holds _running
  sweeps,    \* how many sweeps were begun
  sweeper,   \* per thread: the number of the sweep it is on, 0 when it is on none
  call,      \* per thread and switch: the call to be made next
  rows       \* per table and switch: the sweeps its rows are of

l2Vars == <<holder, sweeps, sweeper, call, rows>>

\* The calls of _discover_one_inner, in order.
Tables == {"fdb", "neighbors"}
Clear == [fdb |-> "clear fdb", neighbors |-> "clear neighbors"]
Fill  == [fdb |-> "fill fdb",  neighbors |-> "fill neighbors"]
After == [fdb |-> "clear neighbors", neighbors |-> "through"]

\* mutant: no overlap guard.
MayBeginAny == sweeps < MaxSweeps

MayBegin == sweeps < MaxSweeps /\ holder = NoSweeper

\* run(): the pool of a sweep asks every switch at the same time, each once.
BeginSweep(w) ==
  /\ sweeper[w] = 0
  /\ MayBegin
  /\ holder' = w
  /\ sweeps' = sweeps + 1
  /\ sweeper' = [sweeper EXCEPT ![w] = sweeps + 1]
  /\ call' = [call EXCEPT ![w] = [s \in Swept |-> "walk"]]
  /\ UNCHANGED rows

\* fdb.collect.  A walk that times out is a table without rows; None, which ends the
\* turn of the switch, comes only when it could not be asked.
WalkTables(w, s, asked) ==
  /\ call[w][s] = "walk"
  /\ call' = [call EXCEPT ![w][s] = IF asked THEN Clear["fdb"] ELSE "through"]
  /\ UNCHANGED <<holder, sweeps, sweeper, rows>>

AfterClear(t, ok) == IF ok THEN Fill[t] ELSE After[t]

\* delete_many, which fails when the database is away.
ClearRows(w, s, t, ok) ==
  /\ call[w][s] = Clear[t]
  /\ rows' = IF ok THEN [rows EXCEPT ![t][s] = {}] ELSE rows
  /\ call' = [call EXCEPT ![w][s] = AfterClear(t, ok)]
  /\ UNCHANGED <<holder, sweeps, sweeper>>

\* insert_many: all the rows or some, or none because it failed or there are none.
FillRows(w, s, t, some) ==
  /\ call[w][s] = Fill[t]
  /\ rows' = IF some THEN [rows EXCEPT ![t][s] = @ \union {sweeper[w]}] ELSE rows
  /\ call' = [call EXCEPT ![w][s] = After[t]]
  /\ UNCHANGED <<holder, sweeps, sweeper>>

EndOfSweep(w) ==
  /\ sweeper[w] # 0
  /\ \A s \in Swept : call[w][s] = "through"
  /\ sweeper' = [sweeper EXCEPT ![w] = 0]
  /\ holder' = NoSweeper
  /\ UNCHANGED <<sweeps, call, rows>>

\* The agent dies, between any two calls, and is started again.
L2Restart ==
  /\ holder' = NoSweeper
  /\ sweeper' = [w \in Sweepers |-> 0]
  /\ call' = [w \in Sweepers |-> [s \in Swept |-> "through"]]
  /\ UNCHANGED <<sweeps, rows>>

L2Init ==
  /\ holder = NoSweeper
  /\ sweeps = 0
  /\ sweeper = [w \in Sweepers |-> 0]
  /\ call = [w \in Sweepers |-> [s \in Swept |-> "through"]]
  /\ rows = [t \in Tables |-> [s \in Swept |-> {}]]

L2Next ==
  \/ \E w \in Sweepers : BeginSweep(w) \/ EndOfSweep(w)
  \/ \E w \in Sweepers, s \in Swept, b \in BOOLEAN :
       \/ WalkTables(w, s, b)
       \/ \E t \in Tables : ClearRows(w, s, t, b) \/ FillRows(w, s, t, b)
  \/ L2Restart

L2Spec == L2Init /\ [][L2Next]_l2Vars

\* A table never holds rows of a switch from two sweeps, whatever failed or was cut
\* short, so that a MAC address is not shown both where it is and where it was.
RowsOfOneSweep ==
  \A t \in Tables, s \in Swept : \A a, b \in rows[t][s] : a = b
===============================================================================
