----------------------------- MODULE DevicesProofs -----------------------------
(***************************************************************************)
(* What reaches a switch, and what reaches the agent from it: AOS-CX       *)
(* sessions, configuration push, firmware update and traps.                *)
(***************************************************************************)
EXTENDS CxSession, ConfigPush, Firmware, TrapReceiver, FiniteSetTheorems, TLAPS

(***************************************************************************)
(* For any number of threads, API versions, slots and lost calls: a thread *)
(* that is through holds no session, each session left behind is paid for, *)
(* and a login is turned away only when enough of them are.                *)
(*                                                                         *)
(* An orphan is paid for by the lost answer to a login, or by two lost     *)
(* calls of one logout.  The first of the two is on account: a thread that *)
(* makes its second call with a live session holds a half-paid orphan.     *)
(***************************************************************************)
\* Threads whose first call of logout was lost before it got to the switch.
Retrying == {c \in live : client[c].step = "logout" /\ client[c].at = 2}

SlotsAreKept == Cardinality(live) + orphans <= Slots

OrphansArePaid == 2 * orphans + Cardinality(Retrying) <= 2 * unheard + unended

Steps == {"out", "login", "in", "logout"}
Ats == 1 .. NVersions \union {2}

CxInv == CxTypeOK /\ SessionsAreKnown /\ SlotsAreKept /\ OrphansArePaid

(***************************************************************************)
(* What is finite, and how the two cardinalities change                    *)
(***************************************************************************)
LEMMA LiveIsFinite ==
  ASSUME live \subseteq Clients
  PROVE  /\ IsFiniteSet(live) /\ IsFiniteSet(Retrying)
         /\ Cardinality(live) \in Nat /\ Cardinality(Retrying) \in Nat
  <1>1. IsFiniteSet(live) /\ IsFiniteSet(Retrying)
    BY CxSessionAssumption, FS_Subset DEF Retrying
  <1> QED
    BY <1>1, FS_CardinalityType

LEMMA FewerLive ==
  ASSUME live \subseteq Clients, live' \subseteq live
  PROVE  Cardinality(live') <= Cardinality(live) /\ Cardinality(live') \in Nat
  <1>1. IsFiniteSet(live)
    BY LiveIsFinite
  <1>2. IsFiniteSet(live') /\ Cardinality(live') <= Cardinality(live)
    BY <1>1, FS_Subset
  <1> QED
    BY <1>2, FS_CardinalityType

LEMMA FewerRetrying ==
  ASSUME live \subseteq Clients, Retrying' \subseteq Retrying
  PROVE  Cardinality(Retrying') <= Cardinality(Retrying) /\ Cardinality(Retrying') \in Nat
  <1>1. IsFiniteSet(Retrying)
    BY LiveIsFinite
  <1>2. IsFiniteSet(Retrying') /\ Cardinality(Retrying') <= Cardinality(Retrying)
    BY <1>1, FS_Subset
  <1> QED
    BY <1>2, FS_CardinalityType

\* A step that neither leaves a session behind nor makes anyone try again.
LEMMA CheapStep ==
  ASSUME CxInv, CxTypeOK', Retrying' \subseteq Retrying,
         orphans' <= orphans, unheard' = unheard, unended' = unended
  PROVE  OrphansArePaid'
  BY FewerRetrying, LiveIsFinite DEF CxInv, CxTypeOK, OrphansArePaid

LEMMA SmallerStep ==
  ASSUME CxInv, CxTypeOK', live' \subseteq live, orphans' <= orphans
  PROVE  SlotsAreKept'
  <1>1. live \subseteq Clients /\ orphans \in Nat /\ orphans' \in Nat /\ Slots \in Nat
    BY CxSessionAssumption DEF CxInv, CxTypeOK
  <1>2. Cardinality(live') <= Cardinality(live) /\ Cardinality(live') \in Nat
        /\ Cardinality(live) \in Nat
    BY <1>1, FewerLive, LiveIsFinite
  <1>3. Cardinality(live) + orphans <= Slots
    BY DEF CxInv, SlotsAreKept
  <1> QED
    BY <1>1, <1>2, <1>3 DEF SlotsAreKept

LEMMA OutType == Out \in [step : Steps, at : Ats, logged_in : BOOLEAN] /\ Out.step = "out"
  <1>1. 1 \in Ats
    BY CxSessionAssumption DEF Ats
  <1> QED
    BY <1>1 DEF Out, Steps

\* Where a thread goes when a version was refused.
LEMMA NextVersionType ==
  ASSUME CxTypeOK, NEW c \in Clients, client[c].step = "login"
  PROVE  /\ NextVersion(c) \in [step : Steps, at : Ats, logged_in : BOOLEAN]
         /\ NextVersion(c).step \in {"login", "in"}
         /\ NextVersion(c).logged_in = client[c].logged_in
  <1>1. CASE client[c].at < NVersions
    BY <1>1, CxSessionAssumption DEF CxTypeOK, NextVersion, Steps, Ats
  <1>2. CASE ~(client[c].at < NVersions)
    BY <1>2 DEF CxTypeOK, NextVersion, Steps, Ats
  <1> QED
    BY <1>1, <1>2

(***************************************************************************)
(* The invariant, action by action                                         *)
(***************************************************************************)
LEMMA CxInitInv == CxInit => CxInv
  <1> SUFFICES ASSUME CxInit PROVE CxInv
    OBVIOUS
  <1>1. CxTypeOK
    <2>1. client \in [Clients -> [step : Steps, at : Ats, logged_in : BOOLEAN]]
      BY OutType DEF CxInit
    <2>2. orphans \in 0 .. Slots /\ unheard \in Nat /\ unended \in Nat
      BY CxSessionAssumption DEF CxInit
    <2> QED
      BY <2>1, <2>2 DEF CxInit, CxTypeOK, Steps, Ats
  <1>2. SessionsAreKnown
    BY DEF CxInit, SessionsAreKnown
  <1>3. Retrying = {} /\ live = {}
    BY DEF CxInit, Retrying
  <1>4. SlotsAreKept /\ OrphansArePaid
    BY <1>3, FS_EmptySet, CxSessionAssumption DEF CxInit, SlotsAreKept, OrphansArePaid
  <1> QED
    BY <1>1, <1>2, <1>4 DEF CxInv

\* A step of c alone that changes neither the sessions nor what they cost, and that takes
\* c to no call of logout but the first.
LEMMA QuietStep ==
  ASSUME CxInv, NEW c \in Clients,
         NEW s \in [step : Steps, at : Ats, logged_in : BOOLEAN],
         client' = [client EXCEPT ![c] = s],
         c \in live => s.step = "logout" /\ s.at = 1 /\ s.logged_in,
         UNCHANGED <<spoken, live, orphans, unheard, unended>>, rejected' \in BOOLEAN,
         based' \subseteq Clients
  PROVE  CxInv'
  <1>1. CxTypeOK'
    BY DEF CxInv, CxTypeOK, Steps, Ats
  <1>2. \A d \in Clients : client'[d] = IF d = c THEN s ELSE client[d]
    BY DEF CxInv, CxTypeOK
  <1>3. SessionsAreKnown'
    BY <1>2 DEF CxInv, CxTypeOK, SessionsAreKnown
  <1>4. Retrying' \subseteq Retrying
    BY <1>2 DEF CxInv, CxTypeOK, Retrying
  <1>5. orphans' <= orphans
    BY DEF CxInv, CxTypeOK
  <1>6. OrphansArePaid'
    BY <1>1, <1>4, <1>5, CheapStep
  <1>7. SlotsAreKept'
    BY <1>1, <1>5, SmallerStep
  <1> QED
    BY <1>1, <1>3, <1>6, <1>7 DEF CxInv

\* A thread that is logging in, or out, has no session yet.
LEMMA LoginHasNone ==
  ASSUME CxInv, NEW c \in Clients, client[c].step \in {"out", "login"}
  PROVE  c \notin live
  BY DEF CxInv, SessionsAreKnown

LEMMA EnterKeepsInv ==
  ASSUME CxInv, NEW c \in Clients, Enter(c)
  PROVE  CxInv'
  <1> DEFINE s == [client[c] EXCEPT !.step = "login"]
  <1>1. client' = [client EXCEPT ![c] = s]
    BY DEF Enter
  <1>2. s \in [step : Steps, at : Ats, logged_in : BOOLEAN]
    BY DEF CxInv, CxTypeOK, Steps, Ats
  <1>3. c \notin live
    BY OutType, LoginHasNone DEF Enter
  <1> HIDE DEF s
  <1> QED
    BY <1>1, <1>2, <1>3, QuietStep DEF Enter, CxInv, CxTypeOK

LEMMA LoginEndsKeepsInv ==
  ASSUME CxInv, NEW c \in Clients, LoginRefused(c) \/ LoginFails(c)
  PROVE  CxInv'
  <1>1. client[c].step = "login"
    BY DEF LoginRefused, LoginFails
  <1>2. PICK s \in [step : Steps, at : Ats, logged_in : BOOLEAN] :
               client' = [client EXCEPT ![c] = s]
    <2>1. CASE LoginRefused(c)
      BY <1>1, <2>1, NextVersionType DEF LoginRefused, CxInv
    <2>2. CASE LoginFails(c)
      <3>1. [client[c] EXCEPT !.step = "in"] \in [step : Steps, at : Ats, logged_in : BOOLEAN]
        BY DEF CxInv, CxTypeOK, Steps, Ats
      <3>2. client' = [client EXCEPT ![c] = [client[c] EXCEPT !.step = "in"]]
        BY <2>2 DEF LoginFails
      <3> QED
        BY <3>1, <3>2
    <2> QED
      BY <2>1, <2>2
  <1>3. c \notin live
    BY <1>1, LoginHasNone
  <1>4. rejected' \in BOOLEAN
    BY DEF LoginRefused, LoginFails, CxInv, CxTypeOK
  <1>5. UNCHANGED <<spoken, based, live, orphans, unheard, unended>>
    BY DEF LoginRefused, LoginFails
  <1> QED
    BY <1>2, <1>3, <1>4, <1>5, QuietStep DEF CxInv, CxTypeOK

\* __exit__ of a thread that is logged in goes on to the first call of logout.
LEMMA LeaveKeepsInv ==
  ASSUME CxInv, NEW c \in Clients, Leave(c)
  PROVE  CxInv'
  <1> DEFINE s == IF client[c].logged_in
                  THEN [client[c] EXCEPT !.step = "logout", !.at = 1] ELSE Out
  <1>1. client' = [client EXCEPT ![c] = s]
    BY DEF Leave
  <1>2. s \in [step : Steps, at : Ats, logged_in : BOOLEAN]
    <2>1. 1 \in Ats /\ "logout" \in Steps
      BY CxSessionAssumption DEF Ats, Steps
    <2>2. client[c] \in [step : Steps, at : Ats, logged_in : BOOLEAN]
      BY DEF CxInv, CxTypeOK, Steps, Ats
    <2>3. [client[c] EXCEPT !.step = "logout", !.at = 1]
            \in [step : Steps, at : Ats, logged_in : BOOLEAN]
      BY <2>1, <2>2
    <2> QED
      BY <2>3, OutType
  <1>3. c \in live => s.step = "logout" /\ s.at = 1 /\ s.logged_in
    <2>1. c \in live => client[c].logged_in
      BY DEF CxInv, SessionsAreKnown
    <2> QED
      BY <2>1 DEF CxInv, CxTypeOK
  <1> HIDE DEF s
  <1> QED
    BY <1>1, <1>2, <1>3, QuietStep DEF Leave, CxInv, CxTypeOK

\* _get, before it logs in again: the session is gone, so none is left behind.
LEMMA RenewKeepsInv ==
  ASSUME CxInv, NEW c \in Clients, Renew(c)
  PROVE  CxInv'
  <1> DEFINE s == [step |-> "login", at |-> 1, logged_in |-> FALSE]
  <1>1. c \notin live
    BY DEF Renew, Is401
  <1>2. client' = [client EXCEPT ![c] = s]
    BY DEF Renew
  <1>3. s \in [step : Steps, at : Ats, logged_in : BOOLEAN]
    BY CxSessionAssumption DEF Steps, Ats
  <1>4. UNCHANGED <<spoken, based, live, orphans, unheard, unended, rejected>>
    BY <1>1 DEF Renew
  <1> HIDE DEF s
  <1> QED
    BY <1>1, <1>2, <1>3, <1>4, QuietStep DEF CxInv, CxTypeOK

\* A step of c that ends its session on the switch, or finds it ended.
LEMMA SessionEnds ==
  ASSUME CxInv, NEW c \in Clients,
         NEW s \in [step : Steps, at : Ats, logged_in : BOOLEAN],
         client' = [client EXCEPT ![c] = s], live' = live \ {c},
         UNCHANGED <<spoken, orphans, unheard, unended, rejected>>,
         based' \subseteq Clients
  PROVE  CxInv'
  <1>1. CxTypeOK'
    BY DEF CxInv, CxTypeOK, Steps, Ats
  <1>2. \A d \in Clients : d # c => client'[d] = client[d]
    BY DEF CxInv, CxTypeOK
  <1>3. SessionsAreKnown'
    BY <1>2 DEF CxInv, CxTypeOK, SessionsAreKnown
  <1>4. Retrying' \subseteq Retrying
    BY <1>2 DEF CxInv, CxTypeOK, Retrying
  <1>5. orphans' <= orphans
    BY DEF CxInv, CxTypeOK
  <1>6. OrphansArePaid'
    BY <1>1, <1>4, <1>5, CheapStep
  <1>7. SlotsAreKept'
    BY <1>1, <1>5, SmallerStep
  <1> QED
    BY <1>1, <1>3, <1>6, <1>7 DEF CxInv

LEMMA LogoutOkKeepsInv ==
  ASSUME CxInv, NEW c \in Clients, LogoutOk(c)
  PROVE  CxInv'
  BY OutType, SessionEnds DEF LogoutOk, CxInv, CxTypeOK

LEMMA AgeOutKeepsInv ==
  ASSUME CxInv, NEW c \in Clients, AgeOut(c)
  PROVE  CxInv'
  <1>1. client' = [client EXCEPT ![c] = client[c]]
    BY DEF AgeOut, CxInv, CxTypeOK
  <1>2. client[c] \in [step : Steps, at : Ats, logged_in : BOOLEAN]
    BY DEF CxInv, CxTypeOK, Steps, Ats
  <1> QED
    BY <1>1, <1>2, SessionEnds DEF AgeOut, CxInv, CxTypeOK

\* The switch had a slot for the session.
LEMMA LoginOkKeepsInv ==
  ASSUME CxInv, NEW c \in Clients, LoginOk(c)
  PROVE  CxInv'
  <1> DEFINE s == [step |-> "in", at |-> 1, logged_in |-> TRUE]
  <1>1. client' = [client EXCEPT ![c] = s]
    BY DEF LoginOk
  <1>2. s \in [step : Steps, at : Ats, logged_in : BOOLEAN]
    BY CxSessionAssumption DEF Steps, Ats
  <1>3. CxTypeOK'
    BY <1>1, <1>2 DEF CxInv, CxTypeOK, LoginOk, Steps, Ats
  <1>4. \A d \in Clients : client'[d] = IF d = c THEN s ELSE client[d]
    BY <1>1 DEF CxInv, CxTypeOK
  <1>5. SessionsAreKnown'
    BY <1>4 DEF CxInv, CxTypeOK, SessionsAreKnown, LoginOk
  <1>6. Retrying' \subseteq Retrying
    BY <1>4 DEF CxInv, CxTypeOK, Retrying, LoginOk
  <1>7. OrphansArePaid'
    BY <1>3, <1>6, CheapStep DEF LoginOk, CxInv, CxTypeOK
  <1>8. SlotsAreKept'
    <2>1. IsFiniteSet(live) /\ Cardinality(live) \in Nat
      BY LiveIsFinite DEF CxInv, CxTypeOK
    <2>2. c \notin live
      BY LoginHasNone DEF LoginOk
    <2>3. Cardinality(live') = Cardinality(live) + 1
      BY <2>1, <2>2, FS_AddElement DEF LoginOk
    <2>4. Cardinality(live) + orphans < Slots /\ orphans' = orphans
      BY <2>1, CxSessionAssumption DEF LoginOk, Full, CxInv, CxTypeOK
    <2> QED
      BY <2>1, <2>3, <2>4, CxSessionAssumption DEF SlotsAreKept, CxInv, CxTypeOK
  <1> QED
    BY <1>3, <1>5, <1>7, <1>8 DEF CxInv

\* The switch has made a session that nobody has heard of.
LEMMA LoginLostKeepsInv ==
  ASSUME CxInv, NEW c \in Clients, NEW timeout \in BOOLEAN, LoginLost(c, timeout)
  PROVE  CxInv'
  <1>1. client[c].step = "login" /\ c \notin live
    BY LoginHasNone DEF LoginLost
  <1>2. IsFiniteSet(live) /\ Cardinality(live) \in Nat /\ Cardinality(Retrying) \in Nat
    BY LiveIsFinite DEF CxInv, CxTypeOK
  <1>3. Cardinality(live) + orphans < Slots
    BY <1>2, CxSessionAssumption DEF LoginLost, Full, CxInv, CxTypeOK
  <1>4. client' \in [Clients -> [step : Steps, at : Ats, logged_in : BOOLEAN]]
    <2>1. [client[c] EXCEPT !.step = "in"] \in [step : Steps, at : Ats, logged_in : BOOLEAN]
      BY DEF CxInv, CxTypeOK, Steps, Ats
    <2>2. NextVersion(c) \in [step : Steps, at : Ats, logged_in : BOOLEAN]
      BY <1>1, NextVersionType DEF CxInv
    <2> QED
      BY <2>1, <2>2 DEF LoginLost, CxInv, CxTypeOK, Steps, Ats
  <1>5. orphans' \in 0 .. Slots /\ unheard' \in Nat
    BY <1>2, <1>3, CxSessionAssumption DEF LoginLost, CxInv, CxTypeOK
  <1>6. CxTypeOK'
    BY <1>4, <1>5 DEF CxInv, CxTypeOK, LoginLost, Steps, Ats
  <1>7. \A d \in live : client'[d] = client[d] /\ live' = live
    BY <1>1 DEF CxInv, CxTypeOK, LoginLost
  <1>8. live' = live /\ orphans' = orphans + 1 /\ unheard' = unheard + 1 /\ unended' = unended
    BY DEF LoginLost
  <1>9. SessionsAreKnown'
    BY <1>7, <1>8 DEF CxInv, SessionsAreKnown
  <1>10. Retrying' \subseteq Retrying
    BY <1>7, <1>8 DEF Retrying
  <1>11. Cardinality(Retrying') <= Cardinality(Retrying) /\ Cardinality(Retrying') \in Nat
    BY <1>10, FewerRetrying DEF CxInv, CxTypeOK
  <1>12. OrphansArePaid'
    BY <1>2, <1>8, <1>11, CxSessionAssumption DEF CxInv, CxTypeOK, OrphansArePaid
  <1>13. SlotsAreKept'
    BY <1>2, <1>3, <1>8, CxSessionAssumption DEF SlotsAreKept, CxInv, CxTypeOK
  <1> QED
    BY <1>6, <1>9, <1>12, <1>13 DEF CxInv

LEMMA OrphanAgesOutKeepsInv ==
  ASSUME CxInv, OrphanAgesOut
  PROVE  CxInv'
  <1>1. CxTypeOK' /\ orphans' <= orphans
    BY CxSessionAssumption DEF CxInv, CxTypeOK, OrphanAgesOut
  <1>2. SessionsAreKnown' /\ Retrying' \subseteq Retrying /\ live' \subseteq live
    BY DEF CxInv, SessionsAreKnown, Retrying, OrphanAgesOut
  <1>3. OrphansArePaid' /\ SlotsAreKept'
    BY <1>1, <1>2, CheapStep, SmallerStep DEF OrphanAgesOut
  <1> QED
    BY <1>1, <1>2, <1>3 DEF CxInv

\* The first call is lost on its way: c holds a half-paid orphan now.
LEMMA FirstCallLost ==
  ASSUME CxInv, NEW c \in live, client[c].step = "logout", client[c].at # 2,
         client' = [client EXCEPT ![c] = [client[c] EXCEPT !.at = 2]],
         unended' = unended + 1,
         UNCHANGED <<spoken, based, live, orphans, unheard, rejected>>
  PROVE  CxInv'
  <1>1. c \in Clients /\ IsFiniteSet(Retrying) /\ Cardinality(Retrying) \in Nat
    BY LiveIsFinite DEF CxInv, CxTypeOK
  <1>2. [client[c] EXCEPT !.at = 2] \in [step : Steps, at : Ats, logged_in : BOOLEAN]
    BY <1>1 DEF CxInv, CxTypeOK, Steps, Ats
  <1>3. CxTypeOK'
    BY <1>1, <1>2 DEF CxInv, CxTypeOK, Steps, Ats
  <1>4. \A d \in Clients : client'[d] = IF d = c THEN [client[c] EXCEPT !.at = 2] ELSE client[d]
    BY DEF CxInv, CxTypeOK
  <1>5. SessionsAreKnown'
    BY <1>1, <1>4 DEF CxInv, CxTypeOK, SessionsAreKnown
  <1>6. Retrying' = Retrying \union {c}
    BY <1>1, <1>4 DEF CxInv, CxTypeOK, Retrying
  <1>7. Cardinality(Retrying') = Cardinality(Retrying) + 1
    BY <1>1, <1>6, FS_AddElement DEF Retrying
  <1>8. OrphansArePaid'
    BY <1>1, <1>7, CxSessionAssumption DEF CxInv, CxTypeOK, OrphansArePaid
  <1>9. SlotsAreKept'
    BY DEF CxInv, SlotsAreKept
  <1> QED
    BY <1>3, <1>5, <1>8, <1>9 DEF CxInv

\* So is the second: the orphan is paid, and left behind.
LEMMA SecondCallLost ==
  ASSUME CxInv, NEW c \in live, client[c].step = "logout", client[c].at = 2,
         client' = [client EXCEPT ![c] = Out], live' = live \ {c},
         orphans' = orphans + 1, unended' = unended + 1,
         UNCHANGED <<spoken, based, unheard, rejected>>
  PROVE  CxInv'
  <1>1. c \in Clients /\ IsFiniteSet(Retrying) /\ Cardinality(Retrying) \in Nat
        /\ IsFiniteSet(live) /\ Cardinality(live) \in Nat
    BY LiveIsFinite DEF CxInv, CxTypeOK
  <1>2. \A d \in live' : client'[d] = client[d]
    BY DEF CxInv, CxTypeOK
  <1>3. Retrying' = Retrying \ {c}
    BY <1>2 DEF Retrying
  <1>4. Cardinality(Retrying') = Cardinality(Retrying) - 1
    <2>1. c \in Retrying
      BY DEF Retrying
    <2> QED
      BY <1>1, <1>3, <2>1, FS_RemoveElement
  <1>5. Cardinality(live') = Cardinality(live) - 1
    BY <1>1, FS_RemoveElement
  <1>6. SlotsAreKept' /\ OrphansArePaid'
    BY <1>1, <1>4, <1>5, CxSessionAssumption
    DEF CxInv, CxTypeOK, SlotsAreKept, OrphansArePaid
  <1>7. Cardinality(live') \in Nat
    BY <1>1, FS_RemoveElement, FS_CardinalityType
  <1>8. orphans' \in 0 .. Slots /\ unended' \in Nat
    BY <1>6, <1>7, CxSessionAssumption DEF CxInv, CxTypeOK, SlotsAreKept
  <1>9. CxTypeOK'
    BY <1>8, OutType DEF CxInv, CxTypeOK, Steps, Ats
  <1>10. SessionsAreKnown'
    BY <1>2 DEF CxInv, SessionsAreKnown
  <1> QED
    BY <1>6, <1>9, <1>10 DEF CxInv

LEMMA LogoutFailsKeepsInv ==
  ASSUME CxInv, NEW c \in Clients, NEW reached \in BOOLEAN, LogoutFails(c, reached)
  PROVE  CxInv'
  <1>1. CASE reached \/ c \notin live
    <2> DEFINE s == IF LastAttempt(c) THEN Out ELSE [client[c] EXCEPT !.at = 2]
    <2>1. [client[c] EXCEPT !.at = 2] \in [step : Steps, at : Ats, logged_in : BOOLEAN]
      BY DEF CxInv, CxTypeOK, Steps, Ats
    <2>2. s \in [step : Steps, at : Ats, logged_in : BOOLEAN]
      BY <2>1, OutType
    <2>3. client' = [client EXCEPT ![c] = s] /\ live' = live \ {c}
          /\ UNCHANGED <<spoken, based, orphans, unheard, unended, rejected>>
      BY <1>1 DEF LogoutFails
    <2> QED
      BY <2>2, <2>3, SessionEnds DEF CxInv, CxTypeOK
  <1>2. CASE ~reached /\ c \in live
    <2>1. client[c].step = "logout" /\ unended' = unended + 1
          /\ UNCHANGED <<spoken, based, unheard, rejected>>
      BY <1>2 DEF LogoutFails
    <2>2. CASE LastAttempt(c)
      BY <1>2, <2>1, <2>2, SecondCallLost DEF LogoutFails, LastAttempt
    <2>3. CASE ~LastAttempt(c)
      BY <1>2, <2>1, <2>3, FirstCallLost DEF LogoutFails, LastAttempt
    <2> QED
      BY <2>2, <2>3
  <1> QED
    BY <1>1, <1>2

LEMMA CxStepKeepsInv == CxInv /\ [CxNext]_cxVars => CxInv'
  <1> SUFFICES ASSUME CxInv, [CxNext]_cxVars PROVE CxInv'
    OBVIOUS
  <1>1. CASE UNCHANGED cxVars
    BY <1>1 DEF CxInv, CxTypeOK, SessionsAreKnown, SlotsAreKept, OrphansArePaid, Retrying, cxVars
  <1> QED
    BY <1>1, EnterKeepsInv, LoginOkKeepsInv, LoginEndsKeepsInv, LoginLostKeepsInv,
       RenewKeepsInv, LeaveKeepsInv, LogoutOkKeepsInv, LogoutFailsKeepsInv,
       AgeOutKeepsInv, OrphanAgesOutKeepsInv
    DEF CxNext

(***************************************************************************)
(* A login that is turned away                                             *)
(***************************************************************************)
LEMMA PaidMeansCaused == CxInv => OrphansHaveACause
  <1> SUFFICES ASSUME CxInv PROVE OrphansHaveACause
    OBVIOUS
  <1>1. orphans \in Nat /\ unheard \in Nat /\ unended \in Nat /\ Cardinality(Retrying) \in Nat
    BY LiveIsFinite, CxSessionAssumption DEF CxInv, CxTypeOK
  <1>2. 2 * orphans <= 2 * unheard + unended
    BY <1>1 DEF CxInv, OrphansArePaid
  <1> QED
    BY <1>1, <1>2 DEF OrphansHaveACause

\* The thread that found no slot holds none itself, so orphans hold the rest.
LEMMA RefusedForACause ==
  ASSUME CxInv, NEW c \in Clients, LoginRefused(c), Speaks(c)
  PROVE  unheard + unended \div 2 > Slots - Cardinality(Clients)
  <1>1. IsFiniteSet(Clients) /\ Cardinality(Clients) \in Nat
    BY CxSessionAssumption, FS_CardinalityType
  <1>2. c \notin live /\ Cardinality(live) + orphans >= Slots
    BY LoginHasNone DEF LoginRefused, Full
  <1>3. Cardinality(Clients \ {c}) = Cardinality(Clients) - 1 /\ IsFiniteSet(Clients \ {c})
    BY <1>1, FS_RemoveElement
  <1>4. Cardinality(live) <= Cardinality(Clients) - 1 /\ Cardinality(live) \in Nat
    <2>1. live \subseteq Clients \ {c}
      BY <1>2 DEF CxInv, CxTypeOK
    <2> QED
      BY <1>3, <2>1, FS_Subset, FS_CardinalityType
  <1>5. orphans <= unheard + unended \div 2
    BY PaidMeansCaused DEF OrphansHaveACause
  <1> QED
    BY <1>1, <1>2, <1>4, <1>5, CxSessionAssumption DEF CxInv, CxTypeOK

LEMMA CostGrows ==
  ASSUME NEW a \in Nat, NEW b \in Nat, NEW m \in Nat, NEW n \in Nat, a <= b, m <= n
  PROVE  /\ a + m \div 2 \in Nat /\ b + n \div 2 \in Nat
         /\ a + m \div 2 <= b + n \div 2
  <1>1. m \div 2 \in Nat /\ n \div 2 \in Nat /\ m \div 2 <= n \div 2
    OBVIOUS
  <1> QED
    BY <1>1

\* What was lost is never forgotten, and only LoginRefused turns a login away.
LEMMA CausesGrow ==
  ASSUME CxInv, NEW c \in Clients,
         \/ Enter(c) \/ LoginOk(c) \/ LoginFails(c)
         \/ \E timeout \in BOOLEAN : LoginLost(c, timeout)
         \/ Renew(c) \/ Leave(c) \/ LogoutOk(c)
         \/ \E reached \in BOOLEAN : LogoutFails(c, reached)
         \/ AgeOut(c) \/ OrphanAgesOut
  PROVE  rejected' = rejected /\ unheard' >= unheard /\ unended' >= unended
  <1>1. unheard \in Nat /\ unended \in Nat
    BY DEF CxInv, CxTypeOK
  <1>2. CASE Enter(c) \/ LoginOk(c) \/ LoginFails(c)
    BY <1>1, <1>2 DEF Enter, LoginOk, LoginFails
  <1>3. CASE \E timeout \in BOOLEAN : LoginLost(c, timeout)
    BY <1>1, <1>3 DEF LoginLost
  <1>4. CASE Renew(c) \/ Leave(c) \/ LogoutOk(c)
    BY <1>1, <1>4 DEF Renew, Leave, LogoutOk
  <1>5. CASE \E reached \in BOOLEAN : LogoutFails(c, reached)
    <2>1. PICK reached \in BOOLEAN : LogoutFails(c, reached)
      BY <1>5
    <2>2. unended' = unended \/ unended' = unended + 1
      BY <2>1 DEF LogoutFails
    <2> QED
      BY <1>1, <2>1, <2>2 DEF LogoutFails
  <1>6. CASE AgeOut(c) \/ OrphanAgesOut
    BY <1>1, <1>6 DEF AgeOut, OrphanAgesOut
  <1> QED
    BY <1>2, <1>3, <1>4, <1>5, <1>6

LEMMA RejectionStep ==
  CxInv /\ CxInv' /\ RejectedForACause /\ [CxNext]_cxVars => RejectedForACause'
  <1> SUFFICES ASSUME CxInv, CxInv', RejectedForACause, [CxNext]_cxVars
               PROVE  RejectedForACause'
    OBVIOUS
  <1> DEFINE cost == unheard + unended \div 2
  <1>1. CASE \E c \in Clients : LoginRefused(c) /\ Speaks(c)
    BY <1>1, RefusedForACause DEF RejectedForACause, LoginRefused
  <1>2. CASE ~\E c \in Clients : LoginRefused(c) /\ Speaks(c)
    <2>1. unheard \in Nat /\ unended \in Nat /\ unheard' \in Nat /\ unended' \in Nat
          /\ rejected \in BOOLEAN
      BY DEF CxInv, CxTypeOK
    <2>2. rejected' = rejected /\ unheard' >= unheard /\ unended' >= unended
      <3>1. CASE UNCHANGED cxVars
        BY <2>1, <3>1 DEF cxVars
      <3>2. CASE OrphanAgesOut
        BY <2>1, <3>2 DEF OrphanAgesOut
      <3>3. CASE \E c \in Clients : LoginRefused(c)
        <4>1. PICK c \in Clients : LoginRefused(c) /\ ~Speaks(c)
          BY <1>2, <3>3
        <4> QED
          BY <2>1, <4>1 DEF LoginRefused
      <3>4. CASE ~(UNCHANGED cxVars) /\ ~OrphanAgesOut /\ ~\E c \in Clients : LoginRefused(c)
        BY <3>4, CausesGrow DEF CxNext
      <3> QED
        BY <3>1, <3>2, <3>3, <3>4
    <2>3. cost' >= cost /\ cost' \in Nat /\ cost \in Nat
      <3>1. unheard + unended \div 2 \in Nat /\ unheard' + unended' \div 2 \in Nat
            /\ unheard + unended \div 2 <= unheard' + unended' \div 2
        BY <2>1, <2>2, CostGrows
      <3>2. cost' = unheard' + unended' \div 2
        OBVIOUS
      <3> QED
        BY <3>1, <3>2
    <2>4. Cardinality(Clients) \in Nat
      BY CxSessionAssumption, FS_CardinalityType
    <2>5. rejected => cost > Slots - Cardinality(Clients)
      BY DEF RejectedForACause
    <2> HIDE DEF cost
    <2>6. rejected' => cost' > Slots - Cardinality(Clients)
      BY <2>2, <2>3, <2>4, <2>5, CxSessionAssumption
    <2> QED
      BY <2>6 DEF RejectedForACause, cost
  <1> QED
    BY <1>1, <1>2

(***************************************************************************)
(* What is proved                                                          *)
(***************************************************************************)
\* CxTypeOK: the sessions of ArubaCXSession objects on a switch, and what is counted of
\* them, have their types; the switch never holds more than its slots.
THEOREM CxTypeCorrect == CxSpec => []CxTypeOK
  <1>1. CxInv => CxTypeOK
    BY DEF CxInv
  <1> QED
    BY <1>1, CxInitInv, CxStepKeepsInv, PTL DEF CxSpec

\* SessionsAreAccountedFor: a thread that has left the with block of its session, or is
\* logging in again, holds none on the switch; login and the two attempts of logout leave
\* one behind only for a lost answer or two lost calls; and login is turned away for want
\* of a slot only after so many were left behind that the agent's threads do not fit
\* beside them.
THEOREM SessionsStayAccountedFor == CxSpec => []SessionsAreAccountedFor
  <1> DEFINE Inv == CxInv /\ RejectedForACause
  <1>1. CxInit => Inv
    BY CxInitInv DEF CxInit, RejectedForACause
  <1>2. Inv /\ [CxNext]_cxVars => Inv'
    BY CxStepKeepsInv, RejectionStep
  <1>3. Inv => SessionsAreAccountedFor
    BY PaidMeansCaused DEF CxInv, SessionsAreAccountedFor
  <1> QED
    BY <1>1, <1>2, <1>3, PTL DEF CxSpec

(***************************************************************************)
(* Configuration push: what a switch has taken and saved stays saved,      *)
(* whatever other requests and restarts come in between.                   *)
(***************************************************************************)
\* Commands that are about to be saved and were not refused are running, for the session
\* breaks where a restart takes them away.
SavesWhatWasEntered(p, s) ==
  /\ session[p][s] = "save" /\ ~refused[p][s] => p \in running[s]
  /\ session[p][s] = "ok" /\ ~refused[p][s] => p \in startup[s]
  /\ p \in startup[s] => p \in running[s]

PushInv ==
  /\ running \in [Targets -> SUBSET Pushes] /\ startup \in [Targets -> SUBSET Pushes]
  /\ session \in [Pushes -> [Targets -> {"none", "connect", "send", "save", "ok", "failed"}]]
  /\ refused \in [Pushes -> [Targets -> BOOLEAN]]
  /\ \A p \in Pushes, s \in Targets : SavesWhatWasEntered(p, s)

LEMMA PushInvInit == PushInit => PushInv
  BY DEF PushInit, PushInv, SavesWhatWasEntered

LEMMA PushInvStep == PushInv /\ [PushNext]_pushVars => PushInv'
<1> SUFFICES ASSUME PushInv, [PushNext]_pushVars PROVE PushInv'
  OBVIOUS
<1> USE DEF PushInv, SavesWhatWasEntered
<1>1. ASSUME NEW p \in Pushes, NEW v \in Vendors, NEW targets \in SUBSET Targets,
             Execute(p, v, targets)
      PROVE  PushInv'
  <2>1. /\ session' = [session EXCEPT ![p] = PushTo(targets)]
        /\ UNCHANGED <<running, startup, refused>>
    BY <1>1 DEF Execute
  <2>2. PushTo(targets) \in [Targets -> {"none", "connect"}]
    BY DEF PushTo
  <2>3. session' \in [Pushes -> [Targets -> {"none", "connect", "send", "save", "ok", "failed"}]]
    BY <2>1, <2>2
  <2>4. \A q \in Pushes, s \in Targets : SavesWhatWasEntered(q, s)'
    BY <2>1, <2>2
  <2>5. QED
    BY <2>1, <2>3, <2>4
<1>2. ASSUME NEW p \in Pushes, NEW s \in Targets, NEW ok \in BOOLEAN, Connect(p, s, ok)
      PROVE  PushInv'
  BY <1>2 DEF Connect
<1>3. ASSUME NEW p \in Pushes, NEW s \in Targets, NEW first \in SaveCall,
             NEW second \in SaveCall, Save(p, s, first, second)
      PROVE  PushInv'
  <2> DEFINE calls == IF first.returns THEN {first} ELSE {first, second}
             saves == \E c \in calls : c.saves
             words == \E c \in calls : c.returns /\ ~c.saves
  <2>1. /\ session[p][s] = "save"
        /\ startup' = IF saves THEN [startup EXCEPT ![s] = running[s]] ELSE startup
        /\ session' = [session EXCEPT ![p][s] = IF SaveReported(first, second) THEN "ok" ELSE "failed"]
        /\ refused' = [refused EXCEPT ![p][s] = @ \/ words]
        /\ running' = running
    BY <1>3 DEF Save
  <2>2. /\ saves \in BOOLEAN /\ words \in BOOLEAN /\ SaveReported(first, second) \in BOOLEAN
        /\ SaveReported(first, second) => saves \/ words
    BY DEF SaveCall, SaveReported
  <2> HIDE DEF saves, words
  <2>3. QED
    BY <2>1, <2>2
<1>4. ASSUME NEW p \in Pushes, NEW s \in Targets, NEW all \in BOOLEAN,
             NEW returns \in BOOLEAN, Send(p, s, all, returns)
      PROVE  PushInv'
  BY <1>4 DEF Send
<1>5. ASSUME NEW s \in Targets, SwitchRestart(s) PROVE PushInv'
  BY <1>5 DEF SwitchRestart
<1>6. ASSUME NEW s \in Targets, NEW v \in Vendors, VendorChanges(s, v) PROVE PushInv'
  BY <1>6 DEF VendorChanges
<1>7. CASE UNCHANGED pushVars
  BY <1>7 DEF pushVars
<1>8. QED
  BY <1>1, <1>2, <1>3, <1>4, <1>5, <1>6, <1>7 DEF PushNext

\* A push that is reported as done, and that the switch did not refuse in words, is in
\* the startup configuration of the switch, all of it, for any number of overlapping
\* requests, switches and restarts.
THEOREM PushesAreSaved == PushSpec => []OkIsSaved
<1>1. PushInv => OkIsSaved
  BY DEF PushInv, SavesWhatWasEntered, OkIsSaved
<1>2. QED
  BY <1>1, PushInvInit, PushInvStep, PTL DEF PushSpec

(***************************************************************************)
(* Firmware update: the status of the first phase goes stale only by a     *)
(* restart, since all that is ever written is the target version.          *)
(***************************************************************************)
FirmwareTypeOK ==
  /\ image \in [Ips -> [Partitions -> Versions]]
  /\ booted \in [Ips -> Partitions]
  /\ item \in [Runs -> [Ips ->
       [image : [Partitions -> Versions], booted : Partitions] \union {None}]]
  /\ state \in [Runs -> [Ips -> {"unknown", "checked", "FAILED", "SKIPPED", "UPDATED"}]]
  /\ phase \in [Runs -> {1, 2}]
  /\ moved \in [Runs -> [Ips -> BOOLEAN]]

\* What a run knows of a switch: the partition it runs from, until it is restarted, and
\* the versions on it, but for the target version another run has written since.
StatusAges(r, s) ==
  state[r][s] = "checked" /\ item[r][s] # None =>
    /\ moved[r][s] \/ item[r][s].booted = booted[s]
    /\ \A p \in Partitions : image[s][p] \in {item[r][s].image[p], Wanted}

FirmwareInv ==
  FirmwareTypeOK /\ (\A r \in Runs, s \in Ips : StatusAges(r, s)) /\ UpdateIsSafe

LEMMA OtherIsOther ==
  ASSUME NEW p \in Partitions PROVE Other(p) \in Partitions /\ Other(p) # p
  BY DEF Other, Partitions

LEMMA FirmwareInvInit == FirmwareInit => FirmwareInv
  BY DEF FirmwareInit, FirmwareInv, FirmwareTypeOK, StatusAges, UpdateIsSafe,
         RunningImageIsLeftAlone, ResultIsTrue, Partitions

\* Only the target version is ever written, so nothing a run has reported is undone.
LEMMA UploadKeepsInv ==
  ASSUME FirmwareInv, NEW r \in Runs, NEW s \in Ips, NEW written \in BOOLEAN,
         NEW answer \in {"2xx", "error", "lost"}, Upload(r, s, written, answer)
  PROVE  FirmwareInv'
<1> DEFINE status == item[r][s]
<1>1. FirmwareTypeOK /\ StatusAges(r, s) /\ spoiled = {} /\ ResultIsTrue
  BY DEF FirmwareInv, UpdateIsSafe, RunningImageIsLeftAlone
<1>2. status \in [image : [Partitions -> Versions], booted : Partitions] \union {None}
  BY <1>1 DEF FirmwareTypeOK
<1>3. state[r][s] = "checked"
  BY DEF Upload
<1>4. CASE status = None \/ (status # None /\ Has(status))
  <2>1. UNCHANGED <<image, spoiled, booted, item, phase, moved>>
    BY <1>4 DEF Upload
  <2>2. PICK result \in {"FAILED", "SKIPPED"} :
          /\ state' = [state EXCEPT ![r][s] = result]
          /\ result = "SKIPPED" => status # None /\ Has(status)
    BY <1>4 DEF Upload
  <2>3. status # None /\ Has(status)
        => \E p \in Partitions : image[s][p] \in Longer \union {Wanted}
    BY <1>1, <1>3 DEF StatusAges, Has
  <2>4. FirmwareTypeOK'
    BY <1>1, <2>1, <2>2 DEF FirmwareTypeOK
  <2>5. \A q \in Runs, i \in Ips :
          state'[q][i] = IF q = r /\ i = s THEN result ELSE state[q][i]
    BY <1>1, <2>2 DEF FirmwareTypeOK
  <2>6. \A q \in Runs, i \in Ips : StatusAges(q, i)'
    BY <2>1, <2>5 DEF FirmwareInv, StatusAges
  <2>7. ResultIsTrue'
    BY <1>1, <2>1, <2>2, <2>3, <2>5 DEF ResultIsTrue
  <2>8. QED
    BY <1>1, <2>1, <2>4, <2>6, <2>7 DEF FirmwareInv, UpdateIsSafe, RunningImageIsLeftAlone
<1>5. CASE status # None /\ ~Has(status)
  <2> DEFINE part == UploadTo(status)
  <2>1. /\ image' = IF written THEN [image EXCEPT ![s][part] = Wanted] ELSE image
        /\ spoiled' = IF written /\ part = booted[s] /\ ~moved[r][s]
                      THEN spoiled \union {s} ELSE spoiled
        /\ state' = [state EXCEPT ![r][s] = IF Accepts(answer) THEN "UPDATED" ELSE "FAILED"]
        /\ UNCHANGED <<booted, item, phase, moved>>
    BY <1>5 DEF Upload
  <2>2. part \in Partitions /\ part # status.booted
    BY <1>2, <1>5, OtherIsOther DEF UploadTo
  <2> HIDE DEF part
  <2>3. ~(part = booted[s] /\ ~moved[r][s])
    BY <1>1, <1>3, <1>5, <2>2 DEF StatusAges
  <2>4. spoiled' = {}
    BY <1>1, <2>1, <2>3
  <2>5. \A i \in Ips, p \in Partitions : image'[i][p] \in {image[i][p], Wanted}
    BY <1>1, <2>1, <2>2 DEF FirmwareTypeOK
  <2>6. FirmwareTypeOK'
    BY <1>1, <2>1, <2>2, FirmwareAssumption DEF FirmwareTypeOK
  <2>7. \A q \in Runs, i \in Ips : StatusAges(q, i)'
    <3>1. \A q \in Runs, i \in Ips : state'[q][i] = "checked" => state[q][i] = "checked"
      BY <1>1, <2>1 DEF FirmwareTypeOK, Accepts
    <3>2. \A q \in Runs, i \in Ips : StatusAges(q, i)
      BY DEF FirmwareInv
    <3>3. QED
      BY <2>1, <2>5, <3>1, <3>2 DEF StatusAges
  <2>8. Accepts(answer) => image'[s][part] = Wanted
    BY <1>1, <2>1, <2>2 DEF Upload, Accepts, FirmwareTypeOK
  <2>9. ResultIsTrue'
    <3> SUFFICES ASSUME NEW q \in Runs, NEW i \in Ips
                 PROVE  /\ state'[q][i] = "UPDATED" => \E p \in Partitions : image'[i][p] = Wanted
                        /\ state'[q][i] = "SKIPPED" =>
                             \E p \in Partitions : image'[i][p] \in Longer \union {Wanted}
      BY DEF ResultIsTrue
    <3>1. CASE q = r /\ i = s
      BY <1>1, <2>1, <2>2, <2>8, <3>1 DEF FirmwareTypeOK
    <3>2. CASE ~(q = r /\ i = s)
      <4>1. state'[q][i] = state[q][i]
        BY <1>1, <2>1, <3>2 DEF FirmwareTypeOK
      <4>2. QED
        BY <1>1, <2>5, <4>1 DEF ResultIsTrue
    <3>3. QED
      BY <3>1, <3>2
  <2>10. QED
    BY <2>4, <2>6, <2>7, <2>9 DEF FirmwareInv, UpdateIsSafe, RunningImageIsLeftAlone
<1>6. QED
  BY <1>4, <1>5

LEMMA FirmwareInvStep == FirmwareInv /\ [FirmwareNext]_firmwareVars => FirmwareInv'
<1> SUFFICES ASSUME FirmwareInv, [FirmwareNext]_firmwareVars PROVE FirmwareInv'
  OBVIOUS
<1> USE DEF FirmwareInv, UpdateIsSafe, RunningImageIsLeftAlone
<1>1. ASSUME NEW r \in Runs, NEW s \in Ips, NEW answers \in BOOLEAN, CheckStatus(r, s, answers)
      PROVE  FirmwareInv'
  <2> DEFINE status == IF answers THEN [image |-> image[s], booted |-> booted[s]] ELSE None
  <2>1. /\ item' = [item EXCEPT ![r][s] = status]
        /\ state' = [state EXCEPT ![r][s] = "checked"]
        /\ moved' = [moved EXCEPT ![r][s] = FALSE]
        /\ UNCHANGED <<image, booted, phase, spoiled>>
    BY <1>1 DEF CheckStatus
  <2>2. /\ status \in [image : [Partitions -> Versions], booted : Partitions] \union {None}
        /\ status # None => status.image = image[s] /\ status.booted = booted[s]
    BY DEF FirmwareTypeOK
  <2> HIDE DEF status
  <2>3. FirmwareTypeOK'
    BY <2>1, <2>2 DEF FirmwareTypeOK
  <2>4. \A q \in Runs, i \in Ips :
          IF q = r /\ i = s
          THEN state'[q][i] = "checked" /\ item'[q][i] = status
          ELSE /\ state'[q][i] = state[q][i] /\ item'[q][i] = item[q][i]
               /\ moved'[q][i] = moved[q][i]
    BY <2>1 DEF FirmwareTypeOK
  <2>5. \A q \in Runs, i \in Ips : StatusAges(q, i)'
    <3> SUFFICES ASSUME NEW q \in Runs, NEW i \in Ips PROVE StatusAges(q, i)'
      OBVIOUS
    <3>1. StatusAges(q, i)
      OBVIOUS
    <3>2. image' = image /\ booted' = booted
      BY <2>1
    <3>3. CASE q = r /\ i = s
      BY <2>2, <2>4, <3>2, <3>3 DEF StatusAges
    <3>4. CASE ~(q = r /\ i = s)
      BY <2>4, <3>1, <3>2, <3>4 DEF StatusAges
    <3>5. QED
      BY <3>3, <3>4
  <2>6. ResultIsTrue'
    BY <2>1, <2>4 DEF ResultIsTrue
  <2>7. QED
    BY <2>1, <2>3, <2>5, <2>6
<1>2. ASSUME NEW r \in Runs, BeginUploads(r) PROVE FirmwareInv'
  BY <1>2 DEF BeginUploads, FirmwareTypeOK, StatusAges, ResultIsTrue
<1>3. ASSUME NEW s \in Ips, NEW partition \in Partitions, Boot(s, partition)
      PROVE  FirmwareInv'
  BY <1>3 DEF Boot, FirmwareTypeOK, StatusAges, ResultIsTrue
<1>4. CASE UNCHANGED firmwareVars
  BY <1>4 DEF firmwareVars, FirmwareTypeOK, StatusAges, ResultIsTrue
<1>5. QED
  BY <1>1, <1>2, <1>3, <1>4, UploadKeepsInv DEF FirmwareNext

\* No partition is written to while a switch runs from it, unless the switch has been
\* restarted since it was asked, and every result that was reported stays true, for any
\* number of runs of the updater at a time, switches and versions.
THEOREM UpdatesAreSafe == FirmwareSpec => []UpdateIsSafe
<1>1. FirmwareInv => UpdateIsSafe
  BY DEF FirmwareInv
<1>2. QED
  BY <1>1, FirmwareInvInit, FirmwareInvStep, PTL DEF FirmwareSpec

(***************************************************************************)
(* Traps: what is left of a window and what has gone since the mail add up *)
(* to alert_dedup_seconds, since pruning takes no window that is open.     *)
(***************************************************************************)
WindowsAddUp ==
  /\ recent \in [Keys -> Nat] /\ mute \in [Keys -> Nat]
  /\ \A k \in Keys : recent[k] + mute[k] = Dedup
  /\ \A k \in Keys : recent[k] > 0 => k \in pruned

\* An engine is learned with the first trap that is lost, and then registered unless
\* that fails.
LossesAreLearned ==
  /\ lost \in [Senders -> 0 .. 2]
  /\ \A s \in Senders : lost[s] > 0 => s \in learned
  /\ \A s \in Senders : s \in learned => s \in users \/ s \in failed

TrapInv == WindowsAddUp /\ LossesAreLearned /\ NoneIsKeptBack /\ OnlyTheFirstIsLost

LEMMA TrapInvInit == TrapInit => TrapInv
  BY TrapAssumption
  DEF TrapInit, TrapInv, WindowsAddUp, LossesAreLearned, NoneIsKeptBack, OnlyTheFirstIsLost

LEMMA KeyOfTrap == ASSUME NEW s \in Senders, NEW t \in Traps PROVE <<s, t.name>> \in Keys
  BY DEF Keys

\* A mail needs a window that has lapsed, so the next is a whole one away.
LEMMA HandleKeepsWindows ==
  ASSUME TrapInv, NEW s \in Senders, NEW t \in Traps, Handle(s, t)
  PROVE  /\ WindowsAddUp' /\ NoneIsKeptBack'
         /\ \A k \in Keys : mute[k] > 0 /\ mute'[k] = 0 => mute[k] >= Dedup
<1> DEFINE k == <<s, t.name>>
           mail == ShouldAlert(t) /\ ~InWindow(k)
           held == Kept(pruned \union {k}, k)
<1>1. k \in Keys
  BY KeyOfTrap
<1>2. WindowsAddUp /\ quiet = FALSE /\ Dedup \in Nat \ {0}
  BY TrapAssumption DEF TrapInv, NoneIsKeptBack, Handle
<1>3. /\ IF mail
         THEN /\ pruned' = held
              /\ recent' = [j \in Keys |->
                   IF j = k THEN Dedup ELSE IF j \in held THEN recent[j] ELSE 0]
              /\ mute' = [mute EXCEPT ![k] = 0]
         ELSE UNCHANGED <<pruned, recent, mute>>
      /\ quiet' = (quiet \/ (ShouldAlert(t) /\ ~mail /\ mute[k] >= Dedup))
  BY DEF Handle
<1>4. k \in held /\ \A j \in Keys : recent[j] > 0 => j \in held
  BY <1>2 DEF Kept, WindowsAddUp
<1>5. ShouldAlert(t) /\ ~mail => recent[k] > 0
  BY DEF InWindow
<1>6. mail => ~(recent[k] > 0)
  BY DEF InWindow
<1> HIDE DEF k, mail, held
<1>7. NoneIsKeptBack'
  <2>1. k \in Keys => mute[k] \in Nat /\ recent[k] \in Nat /\ recent[k] + mute[k] = Dedup
    BY <1>2 DEF WindowsAddUp
  <2>2. recent[k] > 0 => ~(mute[k] >= Dedup)
    BY <1>1, <1>2, <2>1
  <2>3. ~quiet'
    BY <1>2, <1>3, <1>5, <2>2
  <2>4. QED
    BY <2>3 DEF NoneIsKeptBack
<1>8. CASE mail
  <2>1. recent[k] = 0 /\ mute[k] = Dedup
    BY <1>1, <1>2, <1>6, <1>8 DEF WindowsAddUp
  <2>2. \A j \in Keys : /\ recent'[j] = IF j = k THEN Dedup ELSE recent[j]
                        /\ mute'[j] = IF j = k THEN 0 ELSE mute[j]
    BY <1>2, <1>3, <1>4, <1>8 DEF WindowsAddUp
  <2>3. recent' \in [Keys -> Nat] /\ mute' \in [Keys -> Nat]
    BY <1>2, <1>3, <1>8 DEF WindowsAddUp
  <2>4. \A j \in Keys : recent'[j] > 0 => j \in pruned'
    BY <1>2, <1>3, <1>4, <1>8, <2>2
  <2>5. QED
    BY <1>2, <1>7, <2>1, <2>2, <2>3, <2>4 DEF WindowsAddUp
<1>9. CASE ~mail
  BY <1>2, <1>3, <1>7, <1>9 DEF WindowsAddUp
<1>10. QED
  BY <1>8, <1>9

\* The step of every action, for the invariant and for the distance of two mails.
LEMMA TrapInvStep ==
  ASSUME TrapInv, [TrapNext]_trapVars
  PROVE  /\ TrapInv'
         /\ \A k \in Keys : mute[k] > 0 /\ mute'[k] = 0 => mute[k] >= Dedup
<1> DEFINE Spaced == \A k \in Keys : mute[k] > 0 /\ mute'[k] = 0 => mute[k] >= Dedup
<1>1. ASSUME NEW s \in Senders, NEW t \in Traps, TrapHeard(s, t) \/ V3Heard(s, t)
      PROVE  TrapInv' /\ Spaced
  <2>1. Handle(s, t) /\ UNCHANGED <<learned, users, lost, failed>>
    BY <1>1 DEF TrapHeard, V3Heard
  <2>2. LossesAreLearned' /\ OnlyTheFirstIsLost'
    BY <2>1 DEF TrapInv, LossesAreLearned, OnlyTheFirstIsLost
  <2>3. QED
    BY <2>1, <2>2, HandleKeepsWindows DEF TrapInv
<1>2. ASSUME NEW s \in Senders, NEW ok \in BOOLEAN, V3Lost(s, ok)
      PROVE  TrapInv' /\ Spaced
  <2>1. UNCHANGED <<recent, pruned, mute, quiet>>
    BY <1>2 DEF V3Lost
  <2>2. WindowsAddUp' /\ NoneIsKeptBack' /\ Spaced
    BY <2>1 DEF TrapInv, WindowsAddUp, NoneIsKeptBack
  <2>3. LossesAreLearned'
    BY <1>2 DEF TrapInv, V3Lost, Register, LossesAreLearned
  <2>4. OnlyTheFirstIsLost'
    BY <1>2 DEF TrapInv, V3Lost, Register, LossesAreLearned, OnlyTheFirstIsLost
  <2>5. QED
    BY <2>2, <2>3, <2>4 DEF TrapInv
<1>3. CASE TrapTick
  <2>1. \A k \in Keys : /\ recent'[k] = IF recent[k] > 0 THEN recent[k] - 1 ELSE 0
                        /\ mute'[k] = IF mute[k] < Dedup THEN mute[k] + 1 ELSE Dedup
    BY <1>3 DEF TrapTick, Down
  <2>2. \A k \in Keys : /\ recent[k] \in Nat /\ mute[k] \in Nat /\ Dedup \in Nat
                        /\ recent[k] + mute[k] = Dedup /\ recent[k] > 0 => k \in pruned
    BY TrapAssumption DEF TrapInv, WindowsAddUp
  <2>3. recent' \in [Keys -> Nat] /\ mute' \in [Keys -> Nat]
    BY <1>3, <2>2 DEF TrapTick, Down
  <2>4. WindowsAddUp' /\ Spaced
    BY <1>3, <2>1, <2>2, <2>3, TrapAssumption DEF TrapTick, WindowsAddUp, TrapInv
  <2>5. LossesAreLearned' /\ NoneIsKeptBack' /\ OnlyTheFirstIsLost'
    BY <1>3 DEF TrapTick, TrapInv, LossesAreLearned, NoneIsKeptBack, OnlyTheFirstIsLost
  <2>6. QED
    BY <2>4, <2>5 DEF TrapInv
<1>4. CASE TrapRestart
  <2>1. WindowsAddUp' /\ Spaced
    BY <1>4, TrapAssumption DEF TrapRestart, WindowsAddUp
  <2>2. LossesAreLearned' /\ NoneIsKeptBack' /\ OnlyTheFirstIsLost'
    BY <1>4 DEF TrapRestart, TrapInv, LossesAreLearned, NoneIsKeptBack, OnlyTheFirstIsLost
  <2>3. QED
    BY <2>1, <2>2 DEF TrapInv
<1>5. CASE UNCHANGED trapVars
  BY <1>5
  DEF trapVars, TrapInv, WindowsAddUp, LossesAreLearned, NoneIsKeptBack, OnlyTheFirstIsLost
<1>6. QED
  BY <1>1, <1>2, <1>3, <1>4, <1>5 DEF TrapNext

\* A trap is kept back only inside a window that a mail opened, two mails for a name and
\* a switch are a window apart, and learning an engine costs a switch one trap unless its
\* registration fails: for any number of switches, length of the window and size of the
\* table.
THEOREM TrapsStayTold == TrapSpec => TrapsAreTold
<1>1. TrapInv /\ [TrapNext]_trapVars => TrapInv'
  BY TrapInvStep
<1>2. TrapInv /\ [TrapNext]_trapVars
      => [\A k \in Keys : mute[k] > 0 /\ mute'[k] = 0 => mute[k] >= Dedup]_trapVars
  BY TrapInvStep
<1>3. TrapInv => NoneIsKeptBack /\ OnlyTheFirstIsLost
  BY DEF TrapInv
<1>4. QED
  BY <1>1, <1>2, <1>3, TrapInvInit, PTL DEF TrapSpec, TrapsAreTold, MailsAreSpaced
================================================================================
