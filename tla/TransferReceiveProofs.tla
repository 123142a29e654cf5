------------------------ MODULE TransferReceiveProofs ------------------------
(***************************************************************************)
(* Proofs about TransferReceive, for every set of receivers, stores and    *)
(* envelopes, every expiry and every bound.                                *)
(***************************************************************************)
EXTENDS TransferReceive, TLAPS

USE ExpiryAssumption, TimeAssumption, NoneAssumption

-----------------------------------------------------------------------------
(***************************************************************************)
(* VerifiedOnly: no assumption on who runs or what fails.                  *)
(***************************************************************************)
LEMMA FileTypes == AbsentFile \in File /\ TornFile \in File
BY DEF AbsentFile, TornFile, File

LEMMA InitVerified == Init => VerifiedInv
BY FileTypes
   DEF Init, VerifiedInv, ReceiveTypeOK, CallsOK, VerifiedOnly, Steps, Opened, AbsentFile

\* Ending a call, for whatever reason, keeps the invariant.
LEMMA ReturnVerified ==
    ASSUME VerifiedInv, NEW r \in Receivers, Return(r),
           UNCHANGED <<clock, file, disk, verified>>
    PROVE  /\ pc' \in [Receivers -> Steps]
           /\ store' \in [Receivers -> Stores \cup {None}]
           /\ env' \in [Receivers -> Envelopes \cup {None}]
           /\ authentic' \in [Receivers -> BOOLEAN]
           /\ seen' \in [Receivers -> SUBSET Envelopes]
           /\ CallsOK'
           /\ \A q \in Receivers : seen'[q] \subseteq verified'
           /\ \A q \in Receivers : pc'[q] \in Opened => env'[q] \in verified'
<1> USE DEF Return, Goto, VerifiedInv, ReceiveTypeOK
<1>1. pc' \in [Receivers -> Steps] /\ store' \in [Receivers -> Stores \cup {None}]
      BY DEF Steps
<1>2. /\ env' \in [Receivers -> Envelopes \cup {None}]
      /\ authentic' \in [Receivers -> BOOLEAN]
      /\ seen' \in [Receivers -> SUBSET Envelopes]
      OBVIOUS
<1>3. CallsOK'
      BY DEF CallsOK
<1>4. \A q \in Receivers : seen'[q] \subseteq verified'
      OBVIOUS
<1>5. \A q \in Receivers : pc'[q] \in Opened => env'[q] \in verified'
      BY DEF Opened
<1>6. QED BY <1>1, <1>2, <1>3, <1>4, <1>5

LEMMA NextVerified == VerifiedInv /\ [Next]_vars => VerifiedInv'
<1> SUFFICES ASSUME VerifiedInv, [Next]_vars
             PROVE  VerifiedInv'
    OBVIOUS
<1> USE DEF VerifiedInv, ReceiveTypeOK
<1>1. ASSUME NEW r \in Receivers, LoadSeenIds(r)
      PROVE  VerifiedInv'
  <2>1. PICK s \in Stores, e \in Envelopes, ok \in BOOLEAN :
            /\ store' = [store EXCEPT ![r] = s]
            /\ env' = [env EXCEPT ![r] = e]
            /\ authentic' = [authentic EXCEPT ![r] = ok]
            /\ seen' = [seen EXCEPT ![r] = file[s].ids]
        BY <1>1 DEF LoadSeenIds
  <2>2. file[s].ids \subseteq verified /\ file[s].ids \subseteq Envelopes
        BY DEF VerifiedOnly, File
  <2>3. QED BY <1>1, <2>1, <2>2
            DEF LoadSeenIds, Goto, Steps, Opened, CallsOK, VerifiedOnly, history
<1>2. ASSUME NEW r \in Receivers, ValidateForOpen(r)
      PROVE  VerifiedInv'
      BY <1>2 DEF ValidateForOpen, Goto, Steps, Opened, CallsOK, VerifiedOnly, history, callVars
<1>3. ASSUME NEW r \in Receivers, OpenEnvelope(r)
      PROVE  VerifiedInv'
  <2>1. env[r] \in Envelopes
        BY <1>3 DEF OpenEnvelope, CallsOK
  <2>2. QED BY <1>3, <2>1
            DEF OpenEnvelope, Goto, Steps, Opened, CallsOK, VerifiedOnly, callVars
<1>4. ASSUME NEW r \in Receivers, EvictExpired(r)
      PROVE  VerifiedInv'
      BY <1>4 DEF EvictExpired, Goto, Steps, Opened, CallsOK, VerifiedOnly, history
<1>5. ASSUME NEW r \in Receivers, CheckAndInsert(r)
      PROVE  VerifiedInv'
      BY <1>5 DEF CheckAndInsert, Goto, Steps, Opened, CallsOK, VerifiedOnly, history
<1>6. ASSUME NEW r \in Receivers, NEW f \in File, f.ids \subseteq verified,
             NEW step \in Steps, pc[r] \in Opened,
             SetFile(store[r], f), Goto(r, step), UNCHANGED <<clock, callVars, history>>
      PROVE  VerifiedInv'
  <2>1. store[r] \in Stores
        BY <1>6 DEF Opened, CallsOK
  <2>2. ReceiveTypeOK'
        BY <1>6, <2>1 DEF SetFile, Goto, callVars, history
  <2>3. CallsOK'
        BY <1>6, <2>1 DEF Goto, callVars, CallsOK, Opened
  <2>4. \A s \in Stores :
            /\ file'[s].ids \subseteq verified'
            /\ file'[s] \in disk'[s]
            /\ \A g \in disk'[s] : g.ids \subseteq verified'
        BY <1>6, <2>1 DEF SetFile, VerifiedOnly, history
  <2>5. \A q \in Receivers :
            seen'[q] \subseteq verified' /\ (pc'[q] \in Opened => env'[q] \in verified')
        BY <1>6 DEF Goto, callVars, history
  <2>6. QED BY <1>6, <2>2, <2>3, <2>4, <2>5 DEF VerifiedOnly, history
<1>7. ASSUME NEW r \in Receivers, TruncateStore(r)
      PROVE  VerifiedInv'
  <2>1. TornFile.ids \subseteq verified
        BY DEF TornFile
  <2>2. QED BY <1>6, <1>7, <2>1, FileTypes DEF TruncateStore, Steps, Opened
<1>8. ASSUME NEW r \in Receivers, WriteStore(r)
      PROVE  VerifiedInv'
  <2>1. ToBytes(seen[r]) \in File /\ ToBytes(seen[r]).ids \subseteq verified
        BY DEF ToBytes, File
  <2>2. QED BY <1>6, <1>8, <2>1 DEF WriteStore, Steps, Opened
<1>9. ASSUME NEW r \in Receivers, Deliver(r)
      PROVE  VerifiedInv'
  <2>1. env[r] \in verified
        BY <1>9 DEF Deliver, Opened
  <2>2. delivered' \subseteq verified /\ replayed' \subseteq Envelopes
        BY <1>9, <2>1 DEF Deliver, VerifiedOnly
  <2>3. Return(r) /\ UNCHANGED <<clock, file, disk, verified>>
        BY <1>9 DEF Deliver
  <2>4. QED BY <2>2, <2>3, ReturnVerified DEF VerifiedOnly
<1>10. ASSUME NEW r \in Receivers, Reject(r) \/ IOFails(r) \/ Kill(r)
       PROVE  VerifiedInv'
  <2>1. Return(r) /\ UNCHANGED <<clock, file, disk, history>>
        BY <1>10 DEF Reject, IOFails, Kill
  <2>2. QED BY <2>1, ReturnVerified DEF history, VerifiedOnly
<1>11. CASE \E s \in Stores : Writeback(s)
       BY <1>11 DEF Writeback, callVars, history, CallsOK, VerifiedOnly
<1>12. CASE Tick
       BY <1>12 DEF Tick, callVars, history, CallsOK, VerifiedOnly
<1>13. CASE SetBack
       BY <1>13 DEF SetBack, callVars, history, CallsOK, VerifiedOnly
<1>14. CASE PowerLoss
  <2>1. \A s \in Stores : file'[s] \in disk[s] /\ disk'[s] = {file'[s]}
        BY <1>14 DEF PowerLoss
  <2>2. file' \in [Stores -> File] /\ disk' \in [Stores -> SUBSET File]
        BY <1>14, <2>1 DEF PowerLoss
  <2>3. QED BY <1>14, <2>1, <2>2
            DEF PowerLoss, history, CallsOK, VerifiedOnly, Steps, Opened
<1>15. CASE UNCHANGED vars
       BY <1>15 DEF vars, callVars, history, CallsOK, VerifiedOnly
<1>16. QED BY <1>1, <1>2, <1>3, <1>4, <1>5, <1>7, <1>8, <1>9, <1>10, <1>11, <1>12, <1>13,
              <1>14, <1>15 DEF Next, ReceiveStep

LEMMA VerifiedInvariance == Spec => []VerifiedInv
BY InitVerified, NextVerified, PTL DEF Spec

\* Every variable of the receive path keeps its type.
THEOREM ReceiveTypeCorrect == Spec => []ReceiveTypeOK
<1>1. VerifiedInv => ReceiveTypeOK
      BY DEF VerifiedInv
<1>2. QED BY <1>1, VerifiedInvariance, PTL

\* However many receivers, stores, failures, power losses and clock changes there
\* are, an id enters a store file or is delivered only after an authentic message
\* with that id was opened.
THEOREM VerifiedBeforeRecorded == Spec => []VerifiedOnly
<1>1. VerifiedInv => VerifiedOnly
      BY DEF VerifiedInv
<1>2. QED BY <1>1, VerifiedInvariance, PTL

-----------------------------------------------------------------------------
(***************************************************************************)
(* AtMostOnce: one receiver, one store, a clock that is never set back and *)
(* no power loss; failed operations and kills at any step are allowed.     *)
(***************************************************************************)
LEMMA InitOnce == Init => OnceInv
BY InitVerified DEF Init, OnceInv, AtMostOnce, DeliveredKnown, AcceptedOnce

LEMMA NextOnce ==
    ASSUME OneReceiver, OneStore, SteadyClock
    PROVE  OnceInv /\ [Next]_vars => OnceInv'
<1> SUFFICES ASSUME OnceInv, [Next]_vars
             PROVE  OnceInv'
    OBVIOUS
<1>v. VerifiedInv /\ VerifiedInv'
      BY NextVerified DEF OnceInv
<1>t. ReceiveTypeOK /\ CallsOK
      BY <1>v DEF VerifiedInv
<1>g. SUFFICES AtMostOnce' /\ DeliveredKnown' /\ AcceptedOnce'
      BY <1>v DEF OnceInv
<1> USE DEF OnceInv, ReceiveTypeOK
<1>1. ASSUME NEW r \in Receivers, LoadSeenIds(r)
      PROVE  AtMostOnce' /\ DeliveredKnown' /\ AcceptedOnce'
  <2>1. PICK s \in Stores : LoadOK(s) /\ seen' = [seen EXCEPT ![r] = file[s].ids]
        BY <1>1 DEF LoadSeenIds
  <2>2. file[s].kind # "torn"
        BY <2>1 DEF LoadOK, FromBytesOK
  <2>3. DeliveredKnown'
        BY <1>1, <1>t, <2>1, <2>2 DEF LoadSeenIds, DeliveredKnown, Live, Goto, history, OneReceiver
  <2>4. QED BY <1>1, <1>t, <2>3 DEF LoadSeenIds, AtMostOnce, AcceptedOnce, Goto, history, OneReceiver
<1>2. ASSUME NEW r \in Receivers, ValidateForOpen(r) \/ OpenEnvelope(r)
      PROVE  AtMostOnce' /\ DeliveredKnown' /\ AcceptedOnce'
      BY <1>2, <1>t DEF ValidateForOpen, OpenEnvelope, DeliveredKnown, Live, AtMostOnce,
         AcceptedOnce, Goto, history, callVars
<1>3. ASSUME NEW r \in Receivers, EvictExpired(r)
      PROVE  AtMostOnce' /\ DeliveredKnown' /\ AcceptedOnce'
      BY <1>3, <1>t DEF EvictExpired, DeliveredKnown, Live, AtMostOnce, AcceptedOnce, Goto, history
<1>4. ASSUME NEW r \in Receivers, CheckAndInsert(r)
      PROVE  AtMostOnce' /\ DeliveredKnown' /\ AcceptedOnce'
  <2>1. env[r] \in Envelopes /\ env[r] \notin delivered
        BY <1>4, <1>t DEF CheckAndInsert, DeliveredKnown, CallsOK
  <2>2. QED BY <1>4, <1>t, <2>1
            DEF CheckAndInsert, DeliveredKnown, Live, AtMostOnce, AcceptedOnce, Goto, history
<1>5. ASSUME NEW r \in Receivers, TruncateStore(r)
      PROVE  AtMostOnce' /\ DeliveredKnown' /\ AcceptedOnce'
  <2>1. store[r] \in Stores
        BY <1>5, <1>t DEF TruncateStore, CallsOK
  <2>2. DeliveredKnown'
        BY <1>5, <1>t, <2>1
           DEF TruncateStore, DeliveredKnown, Live, Goto, SetFile, TornFile, history, callVars
  <2>3. QED BY <1>5, <1>t, <2>2
            DEF TruncateStore, AtMostOnce, AcceptedOnce, Goto, history, callVars, OneReceiver
<1>6. ASSUME NEW r \in Receivers, WriteStore(r)
      PROVE  AtMostOnce' /\ DeliveredKnown' /\ AcceptedOnce'
  <2>1. store[r] \in Stores
        BY <1>6, <1>t DEF WriteStore, CallsOK
  <2>2. file' = [file EXCEPT ![store[r]] = ToBytes(seen[r])]
        BY <1>6 DEF WriteStore, SetFile
  <2>3. DeliveredKnown'
        BY <1>6, <1>t, <2>1, <2>2
           DEF WriteStore, DeliveredKnown, Live, Goto, ToBytes, history, callVars
  <2>4. AcceptedOnce'
        BY <1>6, <1>t, <2>1, <2>2
           DEF WriteStore, AcceptedOnce, Goto, history, callVars, OneReceiver
  <2>5. QED BY <1>6, <2>3, <2>4 DEF WriteStore, AtMostOnce, history
<1>7. ASSUME NEW r \in Receivers, Deliver(r)
      PROVE  AtMostOnce' /\ DeliveredKnown' /\ AcceptedOnce'
  <2>1. /\ store[r] \in Stores
        /\ file[store[r]] = ToBytes(seen[r])
        /\ env[r] \in seen[r]
        /\ env[r] \notin delivered
        BY <1>7, <1>t DEF Deliver, CallsOK, AcceptedOnce
  <2>2. \A s \in Stores : env[r] \in file[s].ids
        BY <2>1 DEF OneStore, ToBytes
  <2>3. \A q \in Receivers : pc'[q] = "idle"
        BY <1>7, <1>t DEF Deliver, Return, Goto, OneReceiver
  <2>4. DeliveredKnown'
    <3>1. ASSUME NEW e \in delivered', Live(e)'
          PROVE  \A s \in Stores : file'[s].kind = "torn" \/ e \in file'[s].ids
      <4>1. file' = file /\ clock' = clock /\ delivered' = delivered \cup {env[r]}
            BY <1>7 DEF Deliver
      <4>2. Live(e)
            BY <3>1, <4>1 DEF Live
      <4>3. QED BY <2>2, <4>1, <4>2 DEF DeliveredKnown
    <3>2. QED BY <2>3, <3>1 DEF DeliveredKnown
  <2>5. QED BY <1>7, <2>1, <2>3, <2>4 DEF Deliver, AtMostOnce, AcceptedOnce
<1>8. ASSUME NEW r \in Receivers, Reject(r) \/ IOFails(r) \/ Kill(r)
      PROVE  AtMostOnce' /\ DeliveredKnown' /\ AcceptedOnce'
  <2>1. Return(r) /\ UNCHANGED <<clock, file, disk, history>>
        BY <1>8 DEF Reject, IOFails, Kill
  <2>2. \A q \in Receivers : pc'[q] = "idle"
        BY <2>1, <1>t DEF Return, Goto, OneReceiver
  <2>3. QED BY <2>1, <2>2 DEF history, AtMostOnce, DeliveredKnown, Live, AcceptedOnce
<1>9. CASE Tick
  <2>1. \A e \in Envelopes : Live(e)' => Live(e)
        BY <1>9, <1>t DEF Tick, Live
  <2>2. QED BY <1>9, <1>t, <2>1
            DEF Tick, AtMostOnce, DeliveredKnown, AcceptedOnce, history, callVars
<1>10. CASE \E s \in Stores : Writeback(s)
       BY <1>10 DEF Writeback, AtMostOnce, DeliveredKnown, Live, AcceptedOnce, history, callVars
<1>11. ~SetBack /\ ~PowerLoss
       BY DEF SetBack, PowerLoss, SteadyClock
<1>12. CASE UNCHANGED vars
       BY <1>12 DEF vars, AtMostOnce, DeliveredKnown, Live, AcceptedOnce, history, callVars
<1>13. QED BY <1>1, <1>2, <1>3, <1>4, <1>5, <1>6, <1>7, <1>8, <1>9, <1>10, <1>11, <1>12
           DEF Next, ReceiveStep

\* One receiver that always uses the same store never hands out a payload twice,
\* whatever fails and wherever it is killed, if the clock is never set back.
THEOREM NoReplay ==
    ASSUME OneReceiver, OneStore, SteadyClock
    PROVE  Spec => []AtMostOnce
<1>1. OnceInv => AtMostOnce
      BY DEF OnceInv
<1>2. OnceInv /\ [Next]_vars => OnceInv'
      BY NextOnce
<1>3. QED BY <1>1, <1>2, InitOnce, PTL DEF Spec
-----------------------------------------------------------------------------
(***************************************************************************)
(* ImplementsReplayGuard, under the same assumptions: the check_and_insert *)
(* is the moment a receive takes effect.                                   *)
(***************************************************************************)
LEMMA InitGuardInv == Init => GuardInv
BY InitOnce DEF Init, GuardInv, LoadedReadable

LEMMA NextGuardInv ==
    ASSUME OneReceiver, OneStore, SteadyClock
    PROVE  GuardInv /\ [Next]_vars => GuardInv'
<1> SUFFICES ASSUME GuardInv, [Next]_vars
             PROVE  LoadedReadable'
    BY NextOnce DEF GuardInv
<1>t. ReceiveTypeOK /\ CallsOK
      BY DEF GuardInv, OnceInv, VerifiedInv
<1> USE DEF LoadedReadable, LoadOK, FromBytesOK, Goto, callVars, history
<1>1. ASSUME NEW r \in Receivers, LoadSeenIds(r)
      PROVE  LoadedReadable'
      BY <1>1, <1>t DEF LoadSeenIds, OneReceiver, ReceiveTypeOK
<1>2. ASSUME NEW r \in Receivers,
             ValidateForOpen(r) \/ OpenEnvelope(r) \/ EvictExpired(r) \/ CheckAndInsert(r)
      PROVE  LoadedReadable'
      BY <1>2, <1>t DEF GuardInv, ValidateForOpen, OpenEnvelope, EvictExpired, CheckAndInsert,
         ReceiveTypeOK
<1>3. ASSUME NEW r \in Receivers, TruncateStore(r) \/ WriteStore(r)
      PROVE  LoadedReadable'
  <2>1. \A q \in Receivers : pc'[q] \in {"write", "output"}
        BY <1>3, <1>t DEF TruncateStore, WriteStore, OneReceiver, ReceiveTypeOK
  <2>2. QED BY <2>1
<1>4. ASSUME NEW r \in Receivers, Return(r)
      PROVE  LoadedReadable'
  <2>1. \A q \in Receivers : pc'[q] = "idle"
        BY <1>4, <1>t DEF Return, OneReceiver, ReceiveTypeOK
  <2>2. QED BY <2>1
<1>5. CASE UNCHANGED <<file, pc, callVars>>
      BY <1>5 DEF GuardInv
<1>6. ~SetBack /\ ~PowerLoss
      BY DEF SetBack, PowerLoss, SteadyClock
<1>7. QED BY <1>1, <1>2, <1>3, <1>4, <1>5, <1>6
          DEF Next, ReceiveStep, Reject, Deliver, IOFails, Kill, Tick, Writeback, vars

\* While its store file is not being rewritten, the guard is closed to a receive
\* exactly when the store it named cannot be loaded.
LEMMA ClosedTo ==
    ASSUME OneReceiver, OneStore, NEW r \in Receivers, store[r] \in Stores
    PROVE  Unloadable <=> pc[r] # "write" /\ ~LoadOK(store[r])
BY DEF OneReceiver, OneStore, Unloadable

\* What a step does to the guard when the files and the accepted ids stay.
LEMMA SameGuard ==
    ASSUME file' = file,
           \A r \in Receivers : pc'[r] = "write" <=> pc[r] = "write",
           \A r \in Receivers : pc[r] = "write" => store'[r] = store[r]
    PROVE  Unloadable' = Unloadable
BY DEF Unloadable, LoadOK, FromBytesOK

LEMMA InitGuard == Init => Guard!GuardInit
BY DEF Init, Guard!GuardInit, HeldBy, Accepted, Unloadable, LoadOK, AbsentFile

LEMMA NextGuard ==
    ASSUME OneReceiver, OneStore, SteadyClock
    PROVE  GuardInv /\ [Next]_vars => [Guard!GuardNext]_Guard!gvars
<1> SUFFICES ASSUME GuardInv, [Next]_vars
             PROVE  [Guard!GuardNext]_Guard!gvars
    OBVIOUS
<1>t. ReceiveTypeOK /\ CallsOK
      BY DEF GuardInv, OnceInv, VerifiedInv
<1>s. \A r \in Receivers : pc[r] # "idle" => store[r] \in Stores /\ env[r] \in Envelopes
      BY <1>t DEF CallsOK
<1>1. ASSUME UNCHANGED <<clock, file, verified, delivered>>,
             HeldBy' = HeldBy,
             \A q \in Receivers : pc'[q] = "write" <=> pc[q] = "write",
             \A q \in Receivers : pc[q] = "write" => store'[q] = store[q]
      PROVE  UNCHANGED Guard!gvars
      BY <1>1, SameGuard DEF Guard!gvars
<1>2. ASSUME NEW r \in Receivers, LoadSeenIds(r) \/ ValidateForOpen(r) \/ EvictExpired(r)
      PROVE  UNCHANGED Guard!gvars
  <2>1. \A q \in Receivers : ~Accepted(q) /\ ~Accepted(q)' /\ pc[q] # "write" /\ pc'[q] # "write"
        BY <1>2, <1>t DEF LoadSeenIds, ValidateForOpen, EvictExpired, OneReceiver, Goto, Accepted,
           ReceiveTypeOK
  <2>2. HeldBy' = HeldBy
        BY <2>1 DEF HeldBy
  <2>3. UNCHANGED <<clock, file, verified, delivered>>
        BY <1>2 DEF LoadSeenIds, ValidateForOpen, EvictExpired, history
  <2>4. QED BY <1>1, <2>1, <2>2, <2>3
<1>3. ASSUME NEW r \in Receivers, OpenEnvelope(r)
      PROVE  Guard!Authenticate
  <2>1. \A q \in Receivers : ~Accepted(q) /\ ~Accepted(q)' /\ pc[q] # "write" /\ pc'[q] # "write"
        BY <1>3, <1>t DEF OpenEnvelope, OneReceiver, Goto, Accepted, ReceiveTypeOK
  <2>2. HeldBy' = HeldBy
        BY <2>1 DEF HeldBy
  <2>3. Unloadable' = Unloadable
        BY <1>3, <2>1, SameGuard DEF OpenEnvelope
  <2>4. env[r] \in Envelopes /\ Live(env[r])
        BY <1>3, <1>s DEF OpenEnvelope
  <2>5. Guard!Current(env[r])
        BY <2>4 DEF Guard!Current, Live
  <2>6. QED BY <1>3, <2>2, <2>3, <2>4, <2>5 DEF OpenEnvelope, Guard!Authenticate
<1>4. ASSUME NEW r \in Receivers, CheckAndInsert(r)
      PROVE  Guard!Accept(r)
  <2>1. store[r] \in Stores /\ env[r] \in Envelopes /\ pc[r] = "insert"
        BY <1>4, <1>s DEF CheckAndInsert
  <2>2. ~Unloadable
        BY <2>1, ClosedTo DEF GuardInv, LoadedReadable
  <2>3. Unloadable' = Unloadable
    <3>1. \A q \in Receivers : pc'[q] # "write" /\ pc[q] # "write"
          BY <1>4, <1>t DEF CheckAndInsert, OneReceiver, Goto, ReceiveTypeOK
    <3>2. QED BY <1>4, <3>1, SameGuard DEF CheckAndInsert
  <2>4. env[r] \in verified /\ env[r] \notin delivered
    <3>1. env[r] \in verified
          BY <2>1 DEF GuardInv, OnceInv, VerifiedInv, Opened
    <3>2. env[r] \in delivered => env[r] \in seen[r]
          BY <1>4, <2>1 DEF CheckAndInsert, GuardInv, OnceInv, DeliveredKnown
    <3>3. QED BY <1>4, <3>1, <3>2 DEF CheckAndInsert
  <2>5. HeldBy[r] = None /\ HeldBy' = [HeldBy EXCEPT ![r] = env[r]]
    <3>1. HeldBy[r] = None
          BY <2>1 DEF HeldBy, Accepted
    <3>2. \A q \in Receivers : q = r
          BY DEF OneReceiver
    <3>3. Accepted(r)' /\ env' = env
          BY <1>4, <1>t DEF CheckAndInsert, Goto, Accepted, ReceiveTypeOK
    <3>4. QED BY <3>1, <3>2, <3>3 DEF HeldBy
  <2>6. Guard!Current(env[r])
        BY <1>4 DEF CheckAndInsert, Guard!Current, Live
  <2>7. QED BY <1>4, <2>1, <2>2, <2>3, <2>4, <2>5, <2>6 DEF CheckAndInsert, history, Guard!Accept
<1>5. ASSUME NEW r \in Receivers, TruncateStore(r)
      PROVE  UNCHANGED Guard!gvars
  <2>1. store[r] \in Stores /\ store' = store /\ env' = env /\ pc[r] = "truncate" /\ pc'[r] = "write"
        BY <1>5, <1>s, <1>t DEF TruncateStore, Goto, callVars, ReceiveTypeOK
  <2>2. ~Unloadable
        BY <2>1, ClosedTo DEF GuardInv, LoadedReadable
  <2>3. ~Unloadable'
        BY <2>1 DEF Unloadable, OneStore
  <2>4. HeldBy' = HeldBy
        BY <2>1 DEF HeldBy, Accepted, OneReceiver
  <2>5. QED BY <1>5, <2>2, <2>3, <2>4 DEF TruncateStore, history, Guard!gvars, Unloadable
<1>6. ASSUME NEW r \in Receivers, WriteStore(r)
      PROVE  [Guard!CloseAfter(r)]_Guard!gvars
  <2>1. store[r] \in Stores /\ store' = store /\ env' = env /\ pc[r] = "write" /\ pc'[r] = "output"
        BY <1>6, <1>s, <1>t DEF WriteStore, Goto, callVars, ReceiveTypeOK
  <2>2. ~Unloadable
        BY <2>1 DEF Unloadable, OneStore
  <2>3. HeldBy' = HeldBy
        BY <2>1 DEF HeldBy, Accepted, OneReceiver
  <2>4. HeldBy[r] # None
        BY <2>1, <1>s, NoneAssumption DEF HeldBy, Accepted
  <2>5. Unloadable' \in BOOLEAN /\ Unloadable \in BOOLEAN
        BY DEF Unloadable
  <2>6. UNCHANGED <<clock, verified, delivered>>
        BY <1>6 DEF WriteStore, history
  <2>7. CASE Unloadable'
        BY <2>3, <2>4, <2>5, <2>6, <2>7 DEF Guard!CloseAfter
  <2>8. CASE ~Unloadable'
        BY <2>2, <2>3, <2>5, <2>6, <2>8 DEF Guard!gvars
  <2>9. QED BY <2>7, <2>8
<1>7. ASSUME NEW r \in Receivers, Return(r), file' = file, pc[r] # "idle"
      PROVE  /\ HeldBy' = [HeldBy EXCEPT ![r] = None]
             /\ Accepted(r) => HeldBy[r] = env[r] /\ HeldBy[r] # None
             /\ ~Accepted(r) => HeldBy' = HeldBy
             /\ pc[r] # "write" => Unloadable' = Unloadable
  <2>1. pc'[r] = "idle" /\ \A q \in Receivers : q = r
        BY <1>7, <1>t DEF Return, Goto, ReceiveTypeOK, OneReceiver
  <2>2. HeldBy' = [HeldBy EXCEPT ![r] = None]
        BY <2>1 DEF HeldBy, Accepted
  <2>3. Accepted(r) => HeldBy[r] = env[r] /\ HeldBy[r] # None
        BY <1>7, <1>s, NoneAssumption DEF HeldBy
  <2>4. ~Accepted(r) => HeldBy' = HeldBy
        BY <2>1, <2>2 DEF HeldBy
  <2>5. pc[r] # "write" => Unloadable' = Unloadable
        BY <1>7, <2>1, SameGuard
  <2>6. QED BY <2>2, <2>3, <2>4, <2>5
<1>8. ASSUME NEW r \in Receivers, Deliver(r)
      PROVE  Guard!HandOut(r)
  <2>1. Return(r) /\ file' = file /\ pc[r] = "output" /\ Accepted(r)
        BY <1>8 DEF Deliver, Accepted
  <2>2. env[r] \notin delivered
        BY <2>1 DEF GuardInv, OnceInv, AcceptedOnce
  <2>3. QED BY <1>7, <1>8, <2>1, <2>2 DEF Deliver, Guard!HandOut
<1>9. ASSUME NEW r \in Receivers, Reject(r) \/ IOFails(r) \/ Kill(r)
      PROVE  [Guard!GiveUp(r)]_Guard!gvars
  <2>1. Return(r) /\ pc[r] # "idle" /\ UNCHANGED <<clock, file, history>>
        BY <1>9 DEF Reject, IOFails, Kill
  <2>2. CASE ~Accepted(r)
    <3>1. HeldBy' = HeldBy /\ Unloadable' = Unloadable
          BY <1>7, <2>1, <2>2 DEF Accepted
    <3>2. QED BY <2>1, <3>1 DEF Guard!gvars, history
  <2>3. CASE Accepted(r)
    <3>1. Unloadable' \in {Unloadable, TRUE}
      <4>1. CASE pc[r] # "write"
            BY <1>7, <2>1, <4>1
      <4>2. CASE pc[r] = "write"
        <5>1. ~Unloadable
              BY <4>2, <1>s, ClosedTo
        <5>2. QED BY <5>1 DEF Unloadable
      <4>3. QED BY <4>1, <4>2
    <3>2. QED BY <1>7, <2>1, <2>3, <3>1 DEF Guard!GiveUp, history
  <2>4. QED BY <2>2, <2>3
<1>10. CASE Tick
  <2>1. clock' = clock + 1 /\ UNCHANGED <<file, pc, store, env, verified, delivered>>
        BY <1>10 DEF Tick, callVars, history
  <2>2. HeldBy' = HeldBy /\ Unloadable' = Unloadable
        BY <2>1, SameGuard DEF HeldBy, Accepted
  <2>3. QED BY <2>1, <2>2 DEF Guard!Elapse, Guard!GuardNext
<1>11. CASE UNCHANGED <<clock, file, pc, callVars, history>>
  <2>1. HeldBy' = HeldBy /\ Unloadable' = Unloadable
        BY <1>11, SameGuard DEF HeldBy, Accepted, callVars
  <2>2. QED BY <1>11, <2>1 DEF Guard!gvars, history
<1>12. ~SetBack /\ ~PowerLoss
       BY DEF SetBack, PowerLoss, SteadyClock
<1>13. QED
  <2>1. ASSUME NEW r \in Receivers, ReceiveStep(r) \/ Kill(r)
        PROVE  [Guard!GuardNext]_Guard!gvars
        BY <1>2, <1>3, <1>4, <1>5, <1>6, <1>8, <1>9, <2>1 DEF ReceiveStep, Guard!GuardNext
  <2>2. CASE \E s \in Stores : Writeback(s)
        BY <1>11, <2>2 DEF Writeback
  <2>3. QED BY <1>10, <1>11, <1>12, <2>1, <2>2 DEF Next, vars

\* One receiver with one store, whatever fails and wherever it is killed, hands
\* out a payload as if authenticity, expiry and novelty were checked in one step,
\* and once its store does not load it accepts nothing more.
THEOREM ReceiveIsAGuard ==
    ASSUME OneReceiver, OneStore, SteadyClock
    PROVE  Spec => ImplementsReplayGuard
<1>1. GuardInv /\ [Next]_vars => GuardInv'
      BY NextGuardInv
<1>2. GuardInv /\ [Next]_vars => [Guard!GuardNext]_Guard!gvars
      BY NextGuard
<1>3. QED BY <1>1, <1>2, InitGuardInv, InitGuard, PTL
          DEF Spec, ImplementsReplayGuard, Guard!GuardSpec

=============================================================================
