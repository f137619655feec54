---------------------------- MODULE DocumentsProofs ----------------------------
(***************************************************************************)
(* What the MongoDB collections hold: the snapshot of the agent, the       *)
(* layer-2 tables, and the samples interface rates are computed from.      *)
(***************************************************************************)
EXTENDS MongoStore, L2Discovery, InterfacePoll, TLAPS

(***************************************************************************)
(* What a MongoDB snapshot may look like after any sequence of completed,  *)
(* failed and interrupted saves, for any number of switches.               *)
(***************************************************************************)
\* Switches whose document the save under way has already put in its final form.
Written ==
  CASE pc = "upsert"  -> WantedDoc(payload) \ todo
    [] pc = "delete"  -> Devices \ todo
    [] pc = "runtime" -> Devices
    [] OTHER          -> {}

SaveInv ==
  pc # "idle" =>
    /\ payload \in Payloads
    /\ \A d \in Devices : payload.switches[d] \in versions[d]
    /\ payload.runtime \in runtimes
    /\ pc = "upsert" => todo \subseteq WantedDoc(payload)
    /\ pc = "delete" => todo = todo \ WantedDoc(payload)
    /\ \A d \in Written : devices[d] = payload.switches[d]

MongoInv == MongoTypeOK /\ DocumentsAreRecent /\ SaveInv

LEMMA MongoInvInit == MongoInit => MongoInv
  BY DEF MongoInit, MongoInv, MongoTypeOK, DocumentsAreRecent, SaveInv

LEMMA LoadType ==
  ASSUME MongoTypeOK
  PROVE  Load \in [switches : [Devices -> Docs \union {NoDoc}],
                   runtime : Runtimes \union {NoDoc}] \union {NoPayload}
  BY DEF MongoTypeOK, Load

LEMMA MongoInvStep == MongoInv /\ [MongoNext]_mongoVars => MongoInv'
<1> SUFFICES ASSUME MongoInv, [MongoNext]_mongoVars PROVE MongoInv'
  OBVIOUS
<1> USE DEF MongoInv
<1>1. ASSUME NEW p \in Payloads, MongoSave(p) PROVE MongoInv'
  <2>1. MongoTypeOK'
    BY <1>1, LoadType DEF MongoSave, MongoTypeOK, Payloads, WantedDoc
  <2>2. DocumentsAreRecent'
    BY <1>1 DEF MongoSave, MongoTypeOK, DocumentsAreRecent
  <2>3. SaveInv'
    BY <1>1 DEF MongoSave, MongoTypeOK, SaveInv, Written, WantedDoc
  <2>4. QED
    BY <2>1, <2>2, <2>3
<1>2. ASSUME NEW d \in Devices, Upsert(d) PROVE MongoInv'
  <2>1. payload \in Payloads /\ payload.switches[d] \in versions[d]
        /\ payload.switches[d] \in Docs \union {NoDoc}
    BY <1>2 DEF Upsert, SaveInv, Payloads
  <2>2. MongoTypeOK'
    BY <1>2, <2>1 DEF Upsert, MongoTypeOK
  <2>3. DocumentsAreRecent'
    BY <1>2, <2>1 DEF Upsert, MongoTypeOK, DocumentsAreRecent
  <2>4. SaveInv'
    BY <1>2, <2>1 DEF Upsert, MongoTypeOK, SaveInv, Written, WantedDoc
  <2>5. QED
    BY <2>2, <2>3, <2>4
<1>3. ASSUME NEW d \in Devices, Delete(d) PROVE MongoInv'
  <2>1. payload \in Payloads /\ payload.switches[d] = NoDoc
        /\ payload.switches[d] \in versions[d]
    BY <1>3 DEF Delete, SaveInv, WantedDoc
  <2>2. MongoTypeOK'
    BY <1>3 DEF Delete, MongoTypeOK
  <2>3. DocumentsAreRecent'
    BY <1>3, <2>1 DEF Delete, MongoTypeOK, DocumentsAreRecent
  <2>4. SaveInv'
    BY <1>3, <2>1 DEF Delete, MongoTypeOK, SaveInv, Written, WantedDoc
  <2>5. QED
    BY <2>2, <2>3, <2>4
<1>4. CASE Upserted
  BY <1>4 DEF Upserted, MongoTypeOK, DocumentsAreRecent, SaveInv, Written, WantedDoc
<1>5. CASE Deleted
  BY <1>5 DEF Deleted, MongoTypeOK, DocumentsAreRecent, SaveInv, Written, WantedDoc
<1>6. CASE ReplaceRuntime
  <2>1. payload \in Payloads /\ \A d \in Devices : devices[d] = payload.switches[d]
    BY <1>6 DEF ReplaceRuntime, SaveInv, Written
  <2>2. MongoTypeOK'
    BY <1>6, <2>1 DEF ReplaceRuntime, MongoTypeOK, Payloads
  <2>3. DocumentsAreRecent' /\ SaveInv'
    BY <1>6, <2>1 DEF ReplaceRuntime, MongoTypeOK, DocumentsAreRecent, SaveInv
  <2>4. QED
    BY <2>2, <2>3
<1>7. CASE Abandon
  BY <1>7 DEF Abandon, MongoTypeOK, DocumentsAreRecent, SaveInv
<1>8. CASE UNCHANGED mongoVars
  BY <1>8 DEF mongoVars, MongoTypeOK, DocumentsAreRecent, SaveInv, Written, WantedDoc
<1>9. QED
  BY <1>1, <1>2, <1>3, <1>4, <1>5, <1>6, <1>7, <1>8 DEF MongoNext

\* The types, and what a save under way has written and deleted so far.
LEMMA MongoInvHolds == MongoSpec => []MongoInv
  BY MongoInvInit, MongoInvStep, PTL DEF MongoSpec

\* Whatever saves failed or were interrupted, every document is as the last
\* completed save or a later one wanted it; a completed save is exact.
THEOREM MongoDocumentsStayRecent == MongoSpec => []DocumentsAreRecent
<1>1. MongoInv => DocumentsAreRecent
  BY DEF MongoInv
<1>2. QED
  BY MongoInvHolds, <1>1, PTL

\* No save is cut short between two documents: one that is abandoned leaves what
\* was there before it, or all it was to write. Nothing in save or its callers
\* sees to that, so it is a hypothesis.
CutsAreClean == [][Abandon => Load \in {before, payload}]_mongoVars

\* A payload is kept for as long as its save runs.
PayloadInv == pc = "idle" => payload = NoPayload

LEMMA PayloadInvHolds == MongoSpec => []PayloadInv
<1>1. MongoInit => PayloadInv
  BY DEF MongoInit, PayloadInv
<1>2. PayloadInv /\ [MongoNext]_mongoVars => PayloadInv'
  BY DEF PayloadInv, MongoNext, mongoVars, MongoSave, Upsert, Upserted, Delete,
         Deleted, ReplaceRuntime, Abandon
<1>3. QED
  BY <1>1, <1>2, PTL DEF MongoSpec

\* What the documents amount to once the runtime document is the payload's.
LEMMA CompletedIsExact ==
  ASSUME MongoInv, ReplaceRuntime
  PROVE  payload \in Payloads /\ Load' = payload
<1>1. payload \in Payloads /\ \A d \in Devices : devices[d] = payload.switches[d]
  BY DEF ReplaceRuntime, MongoInv, SaveInv, Written
<1>2. devices = payload.switches
  BY <1>1 DEF MongoInv, MongoTypeOK, Payloads
<1>3. runtime' = payload.runtime /\ devices' = devices /\ payload.runtime # NoDoc
  BY <1>1, DocAssumption DEF ReplaceRuntime, Payloads
<1>4. Load' = [switches |-> devices, runtime |-> payload.runtime]
  BY <1>3 DEF Load
<1>5. payload = [switches |-> payload.switches, runtime |-> payload.runtime]
  BY <1>1 DEF Payloads
<1>6. QED
  BY <1>1, <1>2, <1>4, <1>5

\* Every step of a save is invisible to the contract but its first, its last
\* and the one that abandons it.
LEMMA MongoContractStep ==
  MongoInv /\ PayloadInv /\ [MongoNext]_mongoVars
  /\ [Abandon => Load \in {before, payload}]_mongoVars
    => [Contract!Next]_(Contract!snapshot)
<1> SUFFICES ASSUME MongoInv, PayloadInv, [MongoNext]_mongoVars,
                    [Abandon => Load \in {before, payload}]_mongoVars
             PROVE  Contract!Next \/ UNCHANGED Contract!snapshot
  OBVIOUS
<1>1. ASSUME NEW p \in Payloads, MongoSave(p) PROVE Contract!Next
  <2>1. Contract!Begin(p)
    BY <1>1 DEF MongoSave, PayloadInv, Contract!Begin
  <2>2. QED
    BY <2>1 DEF Contract!Next
<1>2. ASSUME NEW d \in Devices, Upsert(d) \/ Delete(d)
      PROVE  UNCHANGED Contract!snapshot
  BY <1>2 DEF Upsert, Delete, Contract!snapshot
<1>3. CASE Upserted \/ Deleted
  BY <1>3 DEF Upserted, Deleted, Contract!snapshot
<1>4. CASE ReplaceRuntime
  <2>1. payload # NoPayload /\ Load' = payload
    BY <1>4, CompletedIsExact, PayloadAssumption
  <2>2. pc # "idle" /\ pc' = "idle" /\ payload' = NoPayload
    BY <1>4 DEF ReplaceRuntime
  <2>3. Contract!Commit
    BY <2>1, <2>2 DEF Contract!Commit
  <2>4. QED
    BY <2>3 DEF Contract!Next
<1>5. CASE Abandon
  <2>1. pc # "idle" /\ pc' = "idle" /\ payload' = NoPayload /\ Load' = Load
    BY <1>5 DEF Abandon, Load
  <2>2. payload # NoPayload
    BY <2>1, PayloadAssumption DEF MongoInv, SaveInv
  <2>3. Load \in {before, payload}
    BY <1>5, <2>1 DEF mongoVars
  <2>4. CASE Load = before
    <3>1. Contract!Abort
      BY <2>1, <2>4 DEF Contract!Abort
    <3>2. QED
      BY <3>1 DEF Contract!Next
  <2>5. CASE Load = payload
    <3>1. Contract!Commit
      BY <2>1, <2>2, <2>5 DEF Contract!Commit
    <3>2. QED
      BY <3>1 DEF Contract!Next
  <2>6. QED
    BY <2>3, <2>4, <2>5
<1>6. CASE UNCHANGED mongoVars
  BY <1>6 DEF mongoVars, Contract!snapshot, Load
<1>7. QED
  BY <1>1, <1>2, <1>3, <1>4, <1>5, <1>6 DEF MongoNext

\* Saves cut short between two documents are all that keeps MongoStore from the
\* contract of Store.save: where there are none it is kept, whatever the
\* payloads, and however many saves failed before their first or after their
\* last document.
THEOREM CleanCutsKeepTheContract ==
  MongoSpec /\ CutsAreClean => ImplementsStore
<1>1. MongoInit => Contract!Init
  BY DEF MongoInit, Contract!Init, Load
<1>2. QED
  BY <1>1, MongoInvHolds, PayloadInvHolds, MongoContractStep, PTL
     DEF MongoSpec, CutsAreClean, ImplementsStore, Contract!Spec

(***************************************************************************)
(* For any number of threads, switches and sweeps: the rows a table holds  *)
(* of a switch are all of one sweep.  The overlap guard leaves one thread  *)
(* with calls to make, so between the delete and the insert of a table     *)
(* nobody else inserts, and no rows are left to be joined.                 *)
(***************************************************************************)
Calls == {"walk", "through", "clear fdb", "fill fdb", "clear neighbors", "fill neighbors"}

L2TypeOK ==
  /\ holder \in Sweepers \union {NoSweeper}
  /\ sweeper \in [Sweepers -> Nat]
  /\ sweeps \in Nat
  /\ call \in [Sweepers -> [Swept -> Calls]]
  /\ rows \in [Tables -> [Swept -> SUBSET Nat]]

\* Whoever does not hold _running has nothing to do.
OthersAreThrough ==
  \A w \in Sweepers : w # holder =>
    sweeper[w] = 0 /\ \A s \in Swept : call[w][s] = "through"

\* An insert finds the rows of its switch deleted.
FillFindsNoRows ==
  \A w \in Sweepers, t \in Tables, s \in Swept : call[w][s] = Fill[t] => rows[t][s] = {}

L2Inv == L2TypeOK /\ OthersAreThrough /\ FillFindsNoRows /\ RowsOfOneSweep

\* Which call is which, and what comes after it.
LEMMA CallsDiffer ==
  /\ \A t \in Tables : /\ Fill[t] \in Calls /\ Clear[t] \in Calls /\ After[t] \in Calls
                       /\ Clear[t] # "through" /\ Fill[t] # "through"
                       /\ Clear[t] # "walk" /\ Fill[t] # "walk"
  /\ \A t, u \in Tables : /\ Clear[t] # Fill[u] /\ After[t] # Fill[u]
                          /\ Fill[t] = Fill[u] => t = u
  BY DEF Tables, Fill, Clear, After, Calls

LEMMA L2InitInv == L2Init => L2Inv
  <1> SUFFICES ASSUME L2Init PROVE L2Inv
    OBVIOUS
  <1>1. L2TypeOK
    BY DEF L2Init, L2TypeOK, Calls
  <1>2. OthersAreThrough
    BY DEF L2Init, OthersAreThrough
  <1>3. FillFindsNoRows
    BY CallsDiffer DEF L2Init, FillFindsNoRows
  <1>4. RowsOfOneSweep
    BY DEF L2Init, RowsOfOneSweep
  <1> QED
    BY <1>1, <1>2, <1>3, <1>4 DEF L2Inv

\* A sweep begins when nobody is at it, and makes no insert yet.
LEMMA BeginKeepsInv ==
  ASSUME L2Inv, NEW w \in Sweepers, BeginSweep(w)  PROVE L2Inv'
  <1>1. L2TypeOK'
    <2>1. [s \in Swept |-> "walk"] \in [Swept -> Calls]
      BY DEF Calls
    <2> QED
      BY <2>1 DEF L2Inv, L2TypeOK, BeginSweep
  <1>2. \A v \in Sweepers, s \in Swept : v # w => call'[v][s] = "through" /\ sweeper'[v] = 0
    BY L2Assumption DEF L2Inv, L2TypeOK, OthersAreThrough, BeginSweep, MayBegin
  <1>3. OthersAreThrough'
    <2>1. \A v \in Sweepers : v # w => sweeper'[v] = 0
      BY L2Assumption DEF L2Inv, L2TypeOK, OthersAreThrough, BeginSweep, MayBegin
    <2>2. holder' = w
      BY DEF BeginSweep
    <2> QED
      BY <1>2, <2>1, <2>2 DEF OthersAreThrough
  <1>4. FillFindsNoRows'
    <2> SUFFICES ASSUME NEW v \in Sweepers, NEW t \in Tables, NEW s \in Swept,
                        call'[v][s] = Fill[t]
                 PROVE  FALSE
      BY DEF FillFindsNoRows
    <2>1. call'[v][s] \in {"walk", "through"}
      BY <1>2 DEF BeginSweep, L2Inv, L2TypeOK
    <2> QED
      BY <2>1, CallsDiffer
  <1>5. RowsOfOneSweep'
    BY DEF L2Inv, RowsOfOneSweep, BeginSweep
  <1> QED
    BY <1>1, <1>3, <1>4, <1>5 DEF L2Inv

\* A thread with a call to make holds _running.
LEMMA CallerHolds ==
  ASSUME L2Inv, NEW w \in Sweepers, NEW s \in Swept, call[w][s] # "through"
  PROVE  holder = w
  BY DEF L2Inv, OthersAreThrough

LEMMA WalkKeepsInv ==
  ASSUME L2Inv, NEW w \in Sweepers, NEW s \in Swept, NEW asked \in BOOLEAN,
         WalkTables(w, s, asked)
  PROVE  L2Inv'
  <1>1. holder = w
    BY CallerHolds DEF WalkTables
  <1>2. call'[w][s] \in {Clear["fdb"], "through"} /\ rows' = rows
    BY DEF WalkTables, L2Inv, L2TypeOK
  <1>3. \A v \in Sweepers, u \in Swept : v # w \/ u # s => call'[v][u] = call[v][u]
    BY DEF WalkTables, L2Inv, L2TypeOK
  <1>4. L2TypeOK'
    BY CallsDiffer DEF L2Inv, L2TypeOK, WalkTables, Tables, Calls
  <1>5. OthersAreThrough'
    BY <1>1, <1>3 DEF L2Inv, OthersAreThrough, WalkTables
  <1>6. FillFindsNoRows'
    BY <1>2, <1>3, CallsDiffer DEF L2Inv, FillFindsNoRows, Tables
  <1>7. RowsOfOneSweep'
    BY <1>2 DEF L2Inv, RowsOfOneSweep
  <1> QED
    BY <1>4, <1>5, <1>6, <1>7 DEF L2Inv

\* After the delete there are no rows, and the insert comes only then.
LEMMA ClearKeepsInv ==
  ASSUME L2Inv, NEW w \in Sweepers, NEW s \in Swept, NEW t \in Tables, NEW ok \in BOOLEAN,
         ClearRows(w, s, t, ok)
  PROVE  L2Inv'
  <1>1. holder = w
    BY CallerHolds, CallsDiffer DEF ClearRows
  <1>2. call'[w][s] = AfterClear(t, ok)
    BY DEF ClearRows, L2Inv, L2TypeOK
  <1>3. \A v \in Sweepers, u \in Swept : v # w \/ u # s => call'[v][u] = call[v][u]
    BY DEF ClearRows, L2Inv, L2TypeOK
  <1>4. L2TypeOK'
    BY CallsDiffer DEF L2Inv, L2TypeOK, ClearRows, AfterClear
  <1>5. OthersAreThrough'
    BY <1>1, <1>3 DEF L2Inv, OthersAreThrough, ClearRows
  <1>6. \A u \in Tables, r \in Swept : rows'[u][r] \in {{}, rows[u][r]}
    BY DEF ClearRows, L2Inv, L2TypeOK
  <1>7. FillFindsNoRows'
    <2> SUFFICES ASSUME NEW v \in Sweepers, NEW u \in Tables, NEW r \in Swept,
                        call'[v][r] = Fill[u]
                 PROVE  rows'[u][r] = {}
      BY DEF FillFindsNoRows
    <2>1. CASE v = w /\ r = s
      <3>1. ok /\ u = t
        BY <1>2, <2>1, CallsDiffer DEF AfterClear
      <3> QED
        BY <2>1, <3>1 DEF ClearRows, L2Inv, L2TypeOK
    <2>2. CASE v # w \/ r # s
      BY <1>3, <1>6, <2>2 DEF L2Inv, FillFindsNoRows
    <2> QED
      BY <2>1, <2>2
  <1>8. RowsOfOneSweep'
    BY <1>6 DEF L2Inv, RowsOfOneSweep
  <1> QED
    BY <1>4, <1>5, <1>7, <1>8 DEF L2Inv

\* The insert finds no rows, and leaves some of its own sweep.
LEMMA FillKeepsInv ==
  ASSUME L2Inv, NEW w \in Sweepers, NEW s \in Swept, NEW t \in Tables, NEW some \in BOOLEAN,
         FillRows(w, s, t, some)
  PROVE  L2Inv'
  <1>1. holder = w
    BY CallerHolds, CallsDiffer DEF FillRows
  <1>2. call'[w][s] = After[t]
    BY DEF FillRows, L2Inv, L2TypeOK
  <1>3. \A v \in Sweepers, u \in Swept : v # w \/ u # s => call'[v][u] = call[v][u]
    BY DEF FillRows, L2Inv, L2TypeOK
  <1>4. rows[t][s] = {}
    BY DEF FillRows, L2Inv, FillFindsNoRows
  <1>5. L2TypeOK'
    BY CallsDiffer DEF L2Inv, L2TypeOK, FillRows
  <1>6. OthersAreThrough'
    BY <1>1, <1>3 DEF L2Inv, OthersAreThrough, FillRows
  <1>7. \A u \in Tables, r \in Swept :
          \/ rows'[u][r] = rows[u][r]
          \/ u = t /\ r = s /\ rows'[u][r] = {sweeper[w]}
    BY <1>4 DEF FillRows, L2Inv, L2TypeOK
  <1>8. FillFindsNoRows'
    <2> SUFFICES ASSUME NEW v \in Sweepers, NEW u \in Tables, NEW r \in Swept,
                        call'[v][r] = Fill[u]
                 PROVE  rows'[u][r] = {}
      BY DEF FillFindsNoRows
    <2>1. ~(v = w /\ r = s)
      BY <1>2, CallsDiffer
    <2>2. call[v][r] = Fill[u] /\ v = w
      BY <1>1, <1>3, <2>1, CallerHolds, CallsDiffer
    <2>3. r # s
      BY <2>1, <2>2
    <2> QED
      BY <1>7, <2>2, <2>3 DEF L2Inv, FillFindsNoRows
  <1>9. RowsOfOneSweep'
    BY <1>7 DEF L2Inv, RowsOfOneSweep
  <1> QED
    BY <1>5, <1>6, <1>8, <1>9 DEF L2Inv

LEMMA EndKeepsInv ==
  ASSUME L2Inv, (EndOfSweep(holder) /\ holder \in Sweepers) \/ L2Restart
  PROVE  L2Inv'
  <1>1. L2TypeOK'
    <2>1. CASE EndOfSweep(holder) /\ holder \in Sweepers
      BY <2>1 DEF L2Inv, L2TypeOK, EndOfSweep
    <2>2. CASE L2Restart
      <3>1. [w \in Sweepers |-> [s \in Swept |-> "through"]] \in [Sweepers -> [Swept -> Calls]]
        BY DEF Calls
      <3> QED
        BY <2>2, <3>1 DEF L2Inv, L2TypeOK, L2Restart
    <2> QED
      BY <2>1, <2>2
  <1>2. OthersAreThrough'
    <2>1. CASE EndOfSweep(holder) /\ holder \in Sweepers
      <3>1. \A v \in Sweepers : sweeper'[v] = IF v = holder THEN 0 ELSE sweeper[v]
        BY <2>1 DEF EndOfSweep, L2Inv, L2TypeOK
      <3>2. call' = call /\ \A s \in Swept : call[holder][s] = "through"
        BY <2>1 DEF EndOfSweep
      <3>3. \A v \in Sweepers : sweeper'[v] = 0 /\ \A s \in Swept : call'[v][s] = "through"
        BY <3>1, <3>2 DEF L2Inv, OthersAreThrough
      <3> QED
        BY <3>3 DEF OthersAreThrough
    <2>2. CASE L2Restart
      BY <2>2 DEF L2Restart, OthersAreThrough
    <2> QED
      BY <2>1, <2>2
  <1>3. FillFindsNoRows'
    BY CallsDiffer DEF L2Inv, L2TypeOK, FillFindsNoRows, EndOfSweep, L2Restart
  <1>4. RowsOfOneSweep'
    BY DEF L2Inv, RowsOfOneSweep, EndOfSweep, L2Restart
  <1> QED
    BY <1>1, <1>2, <1>3, <1>4 DEF L2Inv

LEMMA L2StepKeepsInv == L2Inv /\ [L2Next]_l2Vars => L2Inv'
  <1> SUFFICES ASSUME L2Inv, [L2Next]_l2Vars PROVE L2Inv'
    OBVIOUS
  <1>1. ASSUME NEW w \in Sweepers, EndOfSweep(w)  PROVE L2Inv'
    <2>1. holder = w
      BY <1>1 DEF L2Inv, OthersAreThrough, EndOfSweep
    <2> QED
      BY <1>1, <2>1, EndKeepsInv
  <1>2. CASE UNCHANGED l2Vars
    BY <1>2 DEF L2Inv, L2TypeOK, OthersAreThrough, FillFindsNoRows, RowsOfOneSweep, l2Vars
  <1> QED
    BY <1>1, <1>2, BeginKeepsInv, WalkKeepsInv, ClearKeepsInv, FillKeepsInv, EndKeepsInv
    DEF L2Next

\* RowsOfOneSweep: a MAC address is not shown both where a switch had it in one sweep and
\* where in another, whatever calls of _discover_one_inner fail and whenever the agent dies.
THEOREM RowsStayOfOneSweep == L2Spec => []RowsOfOneSweep
  <1>1. L2Inv => RowsOfOneSweep
    BY DEF L2Inv
  <1> QED
    BY <1>1, L2InitInv, L2StepKeepsInv, PTL DEF L2Spec

(***************************************************************************)
(* For any number of names and devices, and any traffic: the rate on show  *)
(* was carried.  Octets and counter of a device part only when it          *)
(* restarts, and always in the same direction.  So of two samples of one   *)
(* device the later has the larger difference, and since the samples a     *)
(* rate is taken from are kept in their order, through restarts of the     *)
(* agent as well, no rate is more than the octets between them.            *)
(***************************************************************************)
Samples == [host : Hosts, count : Nat, total : Nat, lost : BOOLEAN]

PollTypeOK ==
  /\ host \in [Names -> Hosts \union {None}]
  /\ octets \in [Hosts -> Nat]
  /\ counter \in [Hosts -> Nat]
  /\ walked \in [Names -> Samples \union {None}]
  /\ prev \in [Names -> Samples \union {None, NoRows}]
  /\ stored \in [Names -> Samples \union {None, NoRows}]
  /\ rates = [n \in Names |-> rates[n]]

\* What x was read from has got to where it is since.
IsPast(x) ==
  x # None /\ x # NoRows /\ ~x.lost => x.total + counter[x.host] <= octets[x.host] + x.count

SamplesArePast ==
  \A n \in Names : IsPast(walked[n]) /\ IsPast(prev[n]) /\ IsPast(stored[n])

\* x was read before y.
IsBefore(x, y) ==
  x # None /\ x # NoRows /\ ~x.lost /\ ~y.lost /\ x.host = y.host =>
    x.total + y.count <= y.total + x.count

SamplesAreInOrder ==
  \A n \in Names : walked[n] # None =>
    IsBefore(prev[n], walked[n]) /\ IsBefore(stored[n], walked[n])

PollInv == PollTypeOK /\ SamplesArePast /\ SamplesAreInOrder /\ UtilIsCarried

LEMMA PollInitInv == PollInit => PollInv
  <1> SUFFICES ASSUME PollInit PROVE PollInv
    OBVIOUS
  <1>1. PollTypeOK
    BY DEF PollInit, PollTypeOK
  <1>2. SamplesArePast
    BY DEF PollInit, SamplesArePast, IsPast
  <1>3. SamplesAreInOrder
    BY DEF PollInit, SamplesAreInOrder
  <1>4. UtilIsCarried
    BY DEF PollInit, UtilIsCarried, Shown, Blank
  <1> QED
    BY <1>1, <1>2, <1>3, <1>4 DEF PollInv

\* What holds of two samples goes on holding while no sample changes.
LEMMA OrderIsKept ==
  ASSUME PollInv, UNCHANGED <<walked, prev, stored, rates>>
  PROVE  SamplesAreInOrder' /\ UtilIsCarried'
  BY DEF PollInv, SamplesAreInOrder, IsBefore, UtilIsCarried, Shown

\* A new sample is the latest of its device.
LEMMA CollectKeepsInv ==
  ASSUME PollInv, NEW n \in Names, NEW lost \in BOOLEAN, CollectRows(n, lost)
  PROVE  PollInv'
  <1> DEFINE s == Sample(host[n], lost)
  <1>1. s \in Samples /\ s.host = host[n] /\ s.lost = lost /\ s.total = octets[host[n]]
        /\ s.count = (IF lost THEN 0 ELSE counter[host[n]])
    BY DEF PollInv, PollTypeOK, CollectRows, Sample, Samples
  <1>2. \A m \in Names : walked'[m] = IF m = n THEN s ELSE walked[m]
    BY DEF PollInv, PollTypeOK, CollectRows
  <1>3. PollTypeOK'
    BY <1>1 DEF PollInv, PollTypeOK, CollectRows
  <1>4. ~s.lost => s.total + counter[s.host] <= octets[s.host] + s.count
    BY <1>1 DEF PollInv, PollTypeOK, CollectRows, Samples
  <1>5. SamplesArePast'
    <2>1. UNCHANGED <<counter, octets, prev, stored>>
      BY DEF CollectRows
    <2> QED
      BY <1>2, <1>4, <2>1 DEF PollInv, SamplesArePast, IsPast
  <1>6. IsBefore(prev[n], s) /\ IsBefore(stored[n], s)
    BY <1>1 DEF PollInv, PollTypeOK, SamplesArePast, IsPast, IsBefore, Samples
  <1>7. SamplesAreInOrder'
    BY <1>2, <1>6 DEF PollInv, SamplesAreInOrder, IsBefore, CollectRows
  <1>8. UtilIsCarried'
    BY DEF PollInv, UtilIsCarried, Shown, CollectRows
  <1> QED
    BY <1>3, <1>5, <1>7, <1>8 DEF PollInv

LEMMA EmptyKeepsInv ==
  ASSUME PollInv, NEW n \in Names, WalkEmpty(n)
  PROVE  PollInv'
  <1>1. PollTypeOK'
    BY DEF PollInv, PollTypeOK, WalkEmpty
  <1>2. \A m \in Names : /\ prev'[m] \in {prev[m], NoRows}
                         /\ stored'[m] \in {stored[m], NoRows}
                         /\ walked'[m] = walked[m]
    BY DEF PollInv, PollTypeOK, WalkEmpty
  <1>3. SamplesArePast'
    BY <1>2 DEF PollInv, SamplesArePast, IsPast, WalkEmpty
  <1>4. SamplesAreInOrder'
    BY <1>2 DEF PollInv, SamplesAreInOrder, IsBefore
  <1>5. UtilIsCarried'
    <2>1. \A m \in Names : rates'[m] = rates[m] \/ rates'[m] = Blank
      BY DEF PollInv, PollTypeOK, WalkEmpty
    <2> QED
      BY <2>1 DEF PollInv, UtilIsCarried, Shown, Blank
  <1> QED
    BY <1>1, <1>3, <1>4, <1>5 DEF PollInv

\* The rate is of two samples of which the earlier was read before the later.
LEMMA ComputeKeepsInv ==
  ASSUME PollInv, NEW n \in Names, NEW saved \in BOOLEAN, ComputeRates(n, saved)
  PROVE  PollInv'
  <1> DEFINE s == walked[n]
             p == IF Previous(n) = NoRows THEN None ELSE Previous(n)
             r == IF Util(p, s) = None THEN Blank
                  ELSE [rate |-> Util(p, s), carried |-> s.total - p.total,
                        sameHost |-> s.host = p.host, lost |-> s.lost \/ p.lost]
  <1>1. s \in Samples /\ s # None
    BY DEF PollInv, PollTypeOK, ComputeRates, SaveCounters
  <1>2. p = None \/ (p \in Samples /\ p # NoRows)
    BY DEF PollInv, PollTypeOK, Previous
  <1>3. \A m \in Names : /\ walked'[m] = IF m = n THEN None ELSE walked[m]
                         /\ prev'[m] = IF m = n THEN s ELSE prev[m]
                         /\ rates'[m] = IF m = n THEN r ELSE rates[m]
    BY DEF PollInv, PollTypeOK, ComputeRates, SaveCounters
  <1>4. \A m \in Names : stored'[m] = stored[m] \/ (m = n /\ stored'[m] = s)
    <2>1. stored' = stored \/ stored' = [stored EXCEPT ![n] = s]
      BY DEF ComputeRates, SaveCounters
    <2> QED
      BY <2>1 DEF PollInv, PollTypeOK
  <1>5. PollTypeOK'
    <2>1. rates' = [rates EXCEPT ![n] = r]
      BY DEF ComputeRates, SaveCounters
    <2>2. rates' = [m \in Names |-> rates'[m]]
      BY <2>1 DEF PollInv, PollTypeOK
    <2>3. walked' = [walked EXCEPT ![n] = None] /\ prev' = [prev EXCEPT ![n] = s]
          /\ stored' \in {stored, [stored EXCEPT ![n] = s]}
          /\ UNCHANGED <<host, octets, counter>>
      BY DEF ComputeRates, SaveCounters
    <2>4. walked' \in [Names -> Samples \union {None}]
      BY <2>3 DEF PollInv, PollTypeOK
    <2>5. prev' \in [Names -> Samples \union {None, NoRows}]
      BY <1>1, <2>3 DEF PollInv, PollTypeOK
    <2>6. stored' \in [Names -> Samples \union {None, NoRows}]
      BY <1>1, <2>3 DEF PollInv, PollTypeOK
    <2> QED
      BY <2>2, <2>3, <2>4, <2>5, <2>6 DEF PollInv, PollTypeOK
  <1>6. SamplesArePast'
    BY <1>3, <1>4 DEF PollInv, SamplesArePast, IsPast, ComputeRates, SaveCounters
  <1>7. SamplesAreInOrder'
    BY <1>3, <1>4 DEF PollInv, SamplesAreInOrder, IsBefore
  <1>8. p # None => IsBefore(p, s)
    BY <1>1 DEF PollInv, SamplesAreInOrder, Previous
  <1>9. r.rate # None /\ ~r.lost /\ r.sameHost => r.rate <= r.carried
    <2> SUFFICES ASSUME r.rate # None, ~r.lost, r.sameHost PROVE r.rate <= r.carried
      OBVIOUS
    <2>1. Util(p, s) # None
      BY DEF Blank
    <2>2. p # None /\ ~(s.count < p.count) /\ Util(p, s) = s.count - p.count
      BY <2>1 DEF Util
    <2>3. ~s.lost /\ ~p.lost /\ s.host = p.host
      BY <2>1
    <2>4. p.total + s.count <= s.total + p.count
      BY <1>2, <1>8, <2>2, <2>3 DEF IsBefore
    <2> QED
      BY <1>1, <1>2, <2>1, <2>2, <2>4 DEF Samples
  <1>10. UtilIsCarried'
    BY <1>3, <1>9 DEF PollInv, UtilIsCarried, Shown
  <1> QED
    BY <1>5, <1>6, <1>7, <1>10 DEF PollInv

\* Traffic adds to both, a restart takes from the counter only.
LEMMA DeviceKeepsInv ==
  ASSUME PollInv, NEW h \in Hosts, Traffic(h) \/ Reboot(h)
  PROVE  PollInv'
  <1>1. PollTypeOK'
    BY DEF PollInv, PollTypeOK, Traffic, Reboot
  <1>2. \A g \in Hosts : \/ octets'[g] = octets[g] + 1 /\ counter'[g] = counter[g] + 1
                         \/ octets'[g] = octets[g] /\ counter'[g] <= counter[g]
    BY DEF PollInv, PollTypeOK, Traffic, Reboot
  <1>3. ASSUME NEW x \in Samples \union {None, NoRows}, IsPast(x)  PROVE IsPast(x)'
    BY <1>1, <1>2, <1>3 DEF PollInv, PollTypeOK, IsPast, Samples
  <1>4. UNCHANGED <<walked, prev, stored, rates>>
    BY DEF Traffic, Reboot
  <1>5. SamplesArePast'
    BY <1>3, <1>4 DEF PollInv, PollTypeOK, SamplesArePast, IsPast
  <1> QED
    BY <1>1, <1>4, <1>5, OrderIsKept DEF PollInv

LEMMA RenamedKeepsInv ==
  ASSUME PollInv, NEW n \in Names, NEW h \in Hosts \union {None}, Renamed(n, h)
  PROVE  PollInv'
  <1>1. PollTypeOK'
    BY DEF PollInv, PollTypeOK, Renamed
  <1>2. SamplesArePast'
    BY DEF PollInv, SamplesArePast, IsPast, Renamed
  <1> QED
    BY <1>1, <1>2, OrderIsKept DEF PollInv, Renamed

LEMMA PollRestartKeepsInv ==
  ASSUME PollInv, PollRestart
  PROVE  PollInv'
  <1>1. PollTypeOK'
    BY DEF PollInv, PollTypeOK, PollRestart
  <1>2. SamplesArePast'
    BY DEF PollInv, SamplesArePast, IsPast, PollRestart
  <1>3. SamplesAreInOrder'
    BY DEF PollRestart, SamplesAreInOrder
  <1>4. UtilIsCarried'
    BY DEF PollRestart, UtilIsCarried, Shown, Blank
  <1> QED
    BY <1>1, <1>2, <1>3, <1>4 DEF PollInv

LEMMA PollStepKeepsInv == PollInv /\ [PollNext]_pollVars => PollInv'
  <1> SUFFICES ASSUME PollInv, [PollNext]_pollVars PROVE PollInv'
    OBVIOUS
  <1>1. CASE UNCHANGED pollVars
    <2>1. PollTypeOK' /\ SamplesArePast'
      BY <1>1 DEF PollInv, PollTypeOK, SamplesArePast, IsPast, pollVars
    <2> QED
      BY <1>1, <2>1, OrderIsKept DEF PollInv, pollVars
  <1> QED
    BY <1>1, CollectKeepsInv, EmptyKeepsInv, ComputeKeepsInv, DeviceKeepsInv,
       RenamedKeepsInv, PollRestartKeepsInv
    DEF PollNext

\* UtilIsCarried: what _poll_one_inner puts on show was carried between the two walks,
\* however often devices and agent were restarted and whichever counters were not saved.
THEOREM RatesAreCarried == PollSpec => []UtilIsCarried
  <1>1. PollInv => UtilIsCarried
    BY DEF PollInv
  <1> QED
    BY <1>1, PollInitInv, PollStepKeepsInv, PTL DEF PollSpec
================================================================================
