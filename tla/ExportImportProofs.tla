------------------------- MODULE ExportImportProofs -------------------------
(***************************************************************************)
(* Proofs about ExportImport, for every set of items, every other process  *)
(* that writes the source vault and every limit.                           *)
(***************************************************************************)
EXTENDS ExportImport, FunctionTheorems, FiniteSetTheorems, SequenceTheorems, TLAPS

USE IdsAssumption, BoundsAssumption, FailuresAssumption

LEMMA BoundType == MaxImports \in Nat
OBVIOUS

-----------------------------------------------------------------------------
(***************************************************************************)
(* Export.                                                                 *)
(***************************************************************************)
LEMMA LiveItemsType ==
    ASSUME source \in [Ids -> [rev : Nat, live : BOOLEAN]]
    PROVE  LiveItems(source) \subseteq Items
BY DEF LiveItems, Items

LEMMA InitExport == Init => ExportInv
<1> SUFFICES ASSUME Init PROVE ExportInv
    OBVIOUS
<1> USE DEF Init, NoBundle
<1>1. ExportTypes
      BY DEF ExportTypes
<1>2. QED BY <1>1 DEF ExportInv

\* The other process: one more moment can only disqualify an unchanged item.
LEMMA WriteExport ==
    ASSUME ExportInv, NEW live \in BOOLEAN, WriteItem(live)
    PROVE  ExportInv'
<1> USE DEF ExportInv
<1>1. UNCHANGED <<epc, todo, out, bundle>>
      BY DEF WriteItem
<1>2. source' \in [Ids -> [rev : Nat, live : BOOLEAN]]
  <2>1. PICK i \in Ids : source' = [source EXCEPT ![i] = [rev |-> source[i].rev + 1, live |-> live]]
        BY DEF WriteItem
  <2>2. source[i].rev + 1 \in Nat
        BY DEF ExportTypes
  <2>3. QED BY <2>1, <2>2 DEF ExportTypes
<1>3. LiveItems(source') \subseteq Items
      BY <1>2 DEF LiveItems, Items
<1>4. moments' = IF epc = "idle" THEN {} ELSE moments \cup {LiveItems(source')}
      BY DEF WriteItem
<1>5. moments' \subseteq SUBSET Items
      BY <1>3, <1>4 DEF ExportTypes
<1>6. ExportTypes'
      BY <1>1, <1>2, <1>5 DEF ExportTypes
<1>7. ASSUME epc = "read"
      PROVE  LiveItems(source') \in moments' /\ Sound(out, todo, moments')
  <2>1. moments' = moments \cup {LiveItems(source')}
        BY <1>4, <1>7
  <2>2. Sound(out, todo, moments) /\ LiveItems(source) \in moments
        BY <1>7
  <2>3. ASSUME NEW x \in UNION moments', \A m \in moments' : x \in m
        PROVE  \/ \E k \in DOMAIN todo : todo[k] = x.id
               \/ \E k \in DOMAIN out : out[k] = x
    <3>1. x \in LiveItems(source) /\ \A m \in moments : x \in m
          BY <2>1, <2>2, <2>3
    <3>2. QED BY <2>2, <3>1 DEF Sound
  <2>4. \A k \in DOMAIN out : \E m \in moments' : out[k] \in m
        BY <2>1, <2>2 DEF Sound
  <2>5. QED BY <2>1, <2>2, <2>3, <2>4 DEF Sound
<1>8. QED BY <1>1, <1>6, <1>7

LEMMA ListExport ==
    ASSUME ExportInv, ListLive
    PROVE  ExportInv'
<1> USE DEF ExportInv
<1>1. /\ UNCHANGED <<source, bundle>>
      /\ epc' = "read" /\ out' = <<>> /\ ~bundle.sealed
      /\ moments' = {LiveItems(source)}
      /\ todo' \in Ordered(LiveIds)
      BY DEF ListLive
<1>2. /\ todo' \in [1 .. Cardinality(LiveIds) -> LiveIds]
      /\ Range(todo') = LiveIds
      /\ \A j, k \in DOMAIN todo' : j < k => todo'[j] < todo'[k]
      BY <1>1 DEF Ordered
<1>3. LiveIds \subseteq Ids
      BY DEF LiveIds
<1>4. Cardinality(LiveIds) \in Nat
      BY <1>3, FS_Subset, FS_CardinalityType
<1>5. todo' \in Seq(Ids)
  <2>1. todo' \in [1 .. Cardinality(LiveIds) -> Ids]
        BY <1>2, <1>3
  <2>2. QED BY <1>4, <2>1, IsASeq
<1>6. ExportTypes'
      BY <1>1, <1>5, LiveItemsType DEF ExportTypes
<1>7. \A j, k \in DOMAIN todo' : todo'[j] = todo'[k] => j = k
  <2> SUFFICES ASSUME NEW j \in DOMAIN todo', NEW k \in DOMAIN todo', j # k
               PROVE  todo'[j] # todo'[k]
      OBVIOUS
  <2>1. j \in Nat /\ k \in Nat
        BY <1>2, <1>4
  <2>2. todo'[j] \in Nat /\ todo'[k] \in Nat
        BY <1>2, <1>3
  <2>3. CASE j < k
        BY <1>2, <2>2, <2>3
  <2>4. CASE k < j
        BY <1>2, <2>2, <2>4
  <2>5. QED BY <2>1, <2>3, <2>4
<1>8. \A x \in LiveItems(source) : \E k \in DOMAIN todo' : todo'[k] = x.id
  <2> SUFFICES ASSUME NEW x \in LiveItems(source)
               PROVE  \E k \in DOMAIN todo' : todo'[k] = x.id
      OBVIOUS
  <2>1. x.id \in LiveIds
        BY DEF LiveItems, LiveIds
  <2>2. QED BY <1>2, <2>1 DEF Range
<1>9. Sound(out', todo', moments')
      BY <1>1, <1>7, <1>8 DEF Sound
<1>10. QED BY <1>1, <1>6, <1>9

\* with_item of a live item: what was read is the item as it is now.
LEMMA WithItemExport ==
    ASSUME ExportInv, WithItem
    PROVE  ExportInv'
<1> USE DEF ExportInv
<1> DEFINE i == Head(todo)
           y == [id |-> i, rev |-> source[i].rev]
           n == Len(out)
<1>1. /\ UNCHANGED <<source, epc, moments, bundle>>
      /\ epc = "read" /\ todo # <<>> /\ source[i].live
      /\ out' = Append(out, y) /\ todo' = Tail(todo)
      BY DEF WithItem
<1>2. /\ i = todo[1] /\ i \in Ids /\ 1 \in DOMAIN todo
      /\ DOMAIN todo = 1 .. Len(todo) /\ Len(todo) \in Nat
      BY <1>1 DEF ExportTypes
<1>3. source[i] \in [rev : Nat, live : BOOLEAN]
      BY <1>2 DEF ExportTypes
<1>4. y \in Items /\ y \in LiveItems(source)
      BY <1>1, <1>2, <1>3 DEF Items, LiveItems
<1>5. /\ out \in Seq(Items) /\ todo \in Seq(Ids)
      BY DEF ExportTypes
<1>6. /\ out' \in Seq(Items) /\ n \in Nat
      /\ DOMAIN out = 1 .. n /\ DOMAIN out' = 1 .. n + 1
      /\ out'[n + 1] = y
      /\ \A k \in 1 .. n : out'[k] = out[k]
      BY <1>1, <1>4, <1>5
<1>7. /\ todo' \in Seq(Ids) /\ DOMAIN todo' = 1 .. Len(todo) - 1
      /\ \A k \in 1 .. Len(todo) - 1 : todo'[k] = todo[k + 1]
      BY <1>1, <1>2, <1>5
<1>8. ExportTypes'
      BY <1>1, <1>6, <1>7 DEF ExportTypes
<1>9. Sound(out, todo, moments) /\ LiveItems(source) \in moments /\ ~bundle.sealed
      BY <1>1
<1>10. \A k \in DOMAIN out' : \E m \in moments : out'[k] \in m
  <2> SUFFICES ASSUME NEW k \in DOMAIN out'
               PROVE  \E m \in moments : out'[k] \in m
      OBVIOUS
  <2>1. CASE k \in 1 .. n
        BY <1>6, <1>9, <2>1 DEF Sound
  <2>2. CASE k = n + 1
        BY <1>4, <1>6, <1>9, <2>2
  <2>3. QED BY <1>6, <2>1, <2>2
<1>11. \A j \in 1 .. n : out[j].id # i
       BY <1>2, <1>6, <1>9 DEF Sound
<1>12. \A j, k \in DOMAIN out' : out'[j].id = out'[k].id => j = k
  <2> SUFFICES ASSUME NEW j \in DOMAIN out', NEW k \in DOMAIN out',
                      out'[j].id = out'[k].id
               PROVE  j = k
      OBVIOUS
  <2>1. CASE j \in 1 .. n /\ k \in 1 .. n
        BY <1>6, <1>9, <2>1 DEF Sound
  <2>2. CASE j \in 1 .. n /\ k = n + 1
        BY <1>6, <1>11, <2>2
  <2>3. CASE j = n + 1 /\ k \in 1 .. n
        BY <1>6, <1>11, <2>3
  <2>4. QED BY <1>6, <2>1, <2>2, <2>3
<1>13. \A k \in DOMAIN todo' : k + 1 \in DOMAIN todo /\ todo'[k] = todo[k + 1]
       BY <1>2, <1>7
<1>14. \A j, k \in DOMAIN todo' : todo'[j] = todo'[k] => j = k
  <2> SUFFICES ASSUME NEW j \in DOMAIN todo', NEW k \in DOMAIN todo',
                      todo'[j] = todo'[k]
               PROVE  j = k
      OBVIOUS
  <2>1. j + 1 = k + 1
        BY <1>9, <1>13 DEF Sound
  <2>2. QED BY <1>2, <1>7, <2>1
<1>15. \A j \in DOMAIN out', k \in DOMAIN todo' : out'[j].id # todo'[k]
  <2> SUFFICES ASSUME NEW j \in DOMAIN out', NEW k \in DOMAIN todo'
               PROVE  out'[j].id # todo'[k]
      OBVIOUS
  <2>1. CASE j \in 1 .. n
        BY <1>6, <1>9, <1>13, <2>1 DEF Sound
  <2>2. CASE j = n + 1
    <3>1. k + 1 # 1
          BY <1>2, <1>7
    <3>2. todo[k + 1] # todo[1]
          BY <1>2, <1>9, <1>13, <3>1 DEF Sound
    <3>3. QED BY <1>2, <1>6, <1>13, <2>2, <3>2
  <2>3. QED BY <1>6, <2>1, <2>2
<1>16. ASSUME NEW x \in UNION moments, \A m \in moments : x \in m
       PROVE  \/ \E k \in DOMAIN todo' : todo'[k] = x.id
              \/ \E k \in DOMAIN out' : out'[k] = x
  <2>1. CASE \E k \in DOMAIN out : out[k] = x
    <3>1. PICK k \in DOMAIN out : out[k] = x
          BY <2>1
    <3>2. k \in DOMAIN out' /\ out'[k] = x
          BY <1>6, <3>1
    <3>3. QED BY <3>2
  <2>2. CASE \E k \in DOMAIN todo : todo[k] = x.id
    <3>1. PICK k \in DOMAIN todo : todo[k] = x.id
          BY <2>2
    <3>2. CASE k = 1
      <4>1. x \in LiveItems(source)
            BY <1>9, <1>16
      <4>2. x = [id |-> x.id, rev |-> source[x.id].rev]
            BY <4>1 DEF LiveItems
      <4>3. x = y
            BY <1>2, <3>1, <3>2, <4>2
      <4>4. n + 1 \in DOMAIN out'
            BY <1>6
      <4>5. QED BY <1>6, <4>3, <4>4
    <3>3. CASE k # 1
      <4>1. k - 1 \in DOMAIN todo' /\ todo'[k - 1] = todo[k]
            BY <1>2, <1>7, <3>1, <3>3
      <4>2. QED BY <3>1, <4>1
    <3>4. QED BY <3>2, <3>3
  <2>3. QED BY <1>9, <1>16, <2>1, <2>2 DEF Sound
<1>17. Sound(out', todo', moments)
       BY <1>10, <1>12, <1>14, <1>15, <1>16 DEF Sound
<1>18. QED BY <1>1, <1>8, <1>9, <1>17

LEMMA EndedExport ==
    ASSUME ExportInv, ItemGone \/ ExportAborted
    PROVE  ExportInv'
<1>1. EndExport /\ UNCHANGED <<source, bundle>>
      BY DEF ItemGone, ExportAborted
<1>2. QED BY <1>1 DEF ExportInv, EndExport, ExportTypes

\* The list is read to its end: nothing is left to read.
LEMMA SealExport ==
    ASSUME ExportInv, SealBundle
    PROVE  ExportInv'
<1> USE DEF ExportInv
<1>1. /\ epc = "read" /\ todo = <<>> /\ UNCHANGED source
      /\ bundle' = [items |-> out, moments |-> moments, sealed |-> TRUE]
      /\ epc' = "idle" /\ todo' = <<>> /\ out' = <<>> /\ moments' = {}
      BY DEF SealBundle, EndExport
<1>2. ExportTypes'
      BY <1>1 DEF ExportTypes
<1>3. Sound(bundle'.items, <<>>, bundle'.moments)
      BY <1>1
<1>4. QED BY <1>1, <1>2, <1>3

LEMMA ImportStepsKeepExport ==
    ASSUME ExportInv, UNCHANGED <<source, exportVars>>
    PROVE  ExportInv'
BY DEF ExportInv, exportVars, ExportTypes

LEMMA ExportStep == ExportInv /\ [Next]_vars => ExportInv'
<1> SUFFICES ASSUME ExportInv, [Next]_vars PROVE ExportInv'
    OBVIOUS
<1>1. CASE UpdateItem
      BY <1>1, WriteExport DEF UpdateItem
<1>2. CASE DeleteItem
      BY <1>2, WriteExport DEF DeleteItem
<1>3. CASE ListLive
      BY <1>3, ListExport
<1>4. CASE ExportProgress \/ ExportAborted
      BY <1>4, WithItemExport, EndedExport, SealExport DEF ExportProgress
<1>5. CASE Authenticate \/ ImportProgress \/ AddFails \/ DeleteFails \/ KillImport
  <2>1. UNCHANGED <<source, exportVars>>
        BY <1>5 DEF Authenticate, ImportProgress, AddOk, ImportDone, DeleteOk,
                    RolledBack, AddFails, DeleteFails, KillImport
  <2>2. QED BY <2>1, ImportStepsKeepExport
<1>6. CASE UNCHANGED vars
      BY <1>6, ImportStepsKeepExport DEF vars
<1>7. QED BY <1>1, <1>2, <1>3, <1>4, <1>5, <1>6 DEF Next

LEMMA InvImpliesExportSound == ExportInv => ExportSound
<1> SUFFICES ASSUME ExportInv, bundle.sealed
             PROVE  /\ Range(bundle.items) \subseteq UNION bundle.moments
                    /\ IsInjective([k \in DOMAIN bundle.items |-> bundle.items[k].id])
                    /\ {x \in UNION bundle.moments : \A m \in bundle.moments : x \in m}
                         \subseteq Range(bundle.items)
    BY DEF ExportSound
<1>1. Sound(bundle.items, <<>>, bundle.moments)
      BY DEF ExportInv
<1>2. Range(bundle.items) \subseteq UNION bundle.moments
      BY <1>1 DEF Sound, Range
<1>3. IsInjective([k \in DOMAIN bundle.items |-> bundle.items[k].id])
      BY <1>1 DEF Sound, IsInjective
<1>4. ASSUME NEW x \in UNION bundle.moments, \A m \in bundle.moments : x \in m
      PROVE  x \in Range(bundle.items)
  <2>1. \E k \in DOMAIN bundle.items : bundle.items[k] = x
        BY <1>1, <1>4 DEF Sound
  <2>2. QED BY <2>1 DEF Range
<1>5. QED BY <1>2, <1>3, <1>4

LEMMA ExportInvariant == Spec => []ExportInv
BY InitExport, ExportStep, PTL DEF Spec

\* export() (export.rs:125-147, 382-414) under any concurrent writer: what the
\* bundle holds was live with that revision at some moment of the export, nothing
\* is there twice, and what did not change meanwhile is there.
THEOREM ExportIsSound == Spec => []ExportSound
BY ExportInvariant, InvImpliesExportSound, PTL

-----------------------------------------------------------------------------
(***************************************************************************)
(* Import, whatever adds and deletes fail, before or after their renames,  *)
(* and wherever it is killed.                                              *)
(***************************************************************************)
\* A stretch that begins, grows by an add, and shrinks by a delete of its first.
LEMMA StretchBegins == \A items : Stretch(items, 1, 0) = {}
BY DEF Stretch

LEMMA StretchGrows ==
    ASSUME NEW items, NEW n \in Nat
    PROVE  Stretch(items, 1, n + 1) = Stretch(items, 1, n) \cup {<<n + 1, items[n + 1]>>}
<1>1. 1 .. n + 1 = (1 .. n) \cup {n + 1}
      OBVIOUS
<1>2. {<<j, items[j]>> : j \in (1 .. n) \cup {n + 1}}
        = {<<j, items[j]>> : j \in 1 .. n} \cup {<<n + 1, items[n + 1]>>}
      OBVIOUS
<1>3. QED BY <1>1, <1>2 DEF Stretch

LEMMA StretchShrinks ==
    ASSUME NEW items, NEW from \in Nat, NEW to \in Nat
    PROVE  {t \in Stretch(items, from, to) : t[1] # from} = Stretch(items, from + 1, to)
<1>1. ASSUME NEW t
      PROVE  t \in Stretch(items, from, to) /\ t[1] # from <=> t \in Stretch(items, from + 1, to)
  <2>1. ASSUME t \in Stretch(items, from, to), t[1] # from
        PROVE  t \in Stretch(items, from + 1, to)
    <3>1. PICK j \in from .. to : t = <<j, items[j]>>
          BY <2>1 DEF Stretch
    <3>2. j \in from + 1 .. to
          BY <2>1, <3>1
    <3>3. QED BY <3>1, <3>2 DEF Stretch
  <2>2. ASSUME t \in Stretch(items, from + 1, to)
        PROVE  t \in Stretch(items, from, to) /\ t[1] # from
    <3>1. PICK j \in from + 1 .. to : t = <<j, items[j]>>
          BY <2>2 DEF Stretch
    <3>2. j \in from .. to /\ j # from
          OBVIOUS
    <3>3. QED BY <3>1, <3>2 DEF Stretch
  <2>3. QED BY <2>1, <2>2
<1>2. QED BY <1>1

\* What holds of a call holds while its vault, its result and the bundle stay.
LEMMA SameCall ==
    ASSUME NEW n, CallSound(n), bundle' = bundle, target'[n] = target[n], result'[n] = result[n]
    PROVE  CallSound(n)'
<1>1. LeavesStretch(n)'
      BY DEF CallSound, LeavesStretch
<1>2. ImportedItems(n)' = ImportedItems(n)
      BY DEF ImportedItems
<1>3. ASSUME "after" \notin AddFailures
      PROVE  AllOrNothing(n)'
  <2>1. AllOrNothing(n)
        BY <1>3 DEF CallSound
  <2>2. QED BY <1>2, <2>1 DEF AllOrNothing
<1>4. QED BY <1>1, <1>3 DEF CallSound

LEMMA InitImport == Init => ImportInv
<1> SUFFICES ASSUME Init PROVE ImportInv
    OBVIOUS
<1> USE DEF Init, NoBundle
<1>1. ImportTypes
      BY DEF ImportTypes, Outcomes
<1>2. CallsSound
      BY DEF CallsSound
<1>3. NotYetCalled
      BY DEF NotYetCalled
<1>4. QED BY <1>1, <1>2, <1>3 DEF ImportInv

\* Steps of the export: a bundle that an import reads is not replaced.
LEMMA ExportStepsKeepImport ==
    ASSUME ImportInv, UNCHANGED importVars, bundle.sealed => bundle' = bundle
    PROVE  ImportInv'
<1>1. /\ UNCHANGED <<ipc, queue, undo, imported, target, calls, result>>
      /\ ImportTypes
      BY DEF importVars, ImportInv
<1>2. ImportTypes'
      BY <1>1 DEF ImportTypes
<1>3. calls > 0 => bundle' = bundle
      BY DEF ImportInv
<1>4. calls \in Nat
      BY <1>1, BoundType DEF ImportTypes
<1>5. CallsSound'
  <2> SUFFICES ASSUME NEW n \in 1 .. calls
               PROVE  CallSound(n)'
      BY <1>1 DEF CallsSound
  <2>1. bundle' = bundle
        BY <1>3, <1>4
  <2>2. CallSound(n)
        BY DEF ImportInv, CallsSound
  <2>3. QED BY <1>1, <2>1, <2>2, SameCall DEF importVars
<1>6. ipc = "add" => AddRunning'
      BY <1>1, <1>3 DEF ImportInv, AddRunning
<1>7. ipc = "rollback" => RollbackRunning'
      BY <1>1, <1>3 DEF ImportInv, RollbackRunning, RollbackFrom
<1>8. NotYetCalled'
      BY <1>1 DEF ImportInv, NotYetCalled
<1>9. QED BY <1>1, <1>2, <1>3, <1>5, <1>6, <1>7, <1>8 DEF ImportInv

\* A step of the running call leaves the other calls alone.
LEMMA OtherCalls ==
    ASSUME ImportInv, calls' = calls, bundle' = bundle, calls > 0,
           \A n \in 1 .. MaxImports \ {calls} :
               target'[n] = target[n] /\ result'[n] = result[n],
           CallSound(calls)'
    PROVE  CallsSound' /\ NotYetCalled'
<1>1. calls \in 1 .. MaxImports
      BY BoundType DEF ImportInv, ImportTypes
<1>2. ASSUME NEW n \in 1 .. calls
      PROVE  CallSound(n)'
  <2>1. CASE n = calls
        BY <2>1
  <2>2. CASE n # calls
    <3>1. n \in 1 .. MaxImports \ {calls}
          BY <1>1, <2>2
    <3>2. target'[n] = target[n] /\ result'[n] = result[n]
          BY <3>1
    <3>3. CallSound(n)
          BY DEF ImportInv, CallsSound
    <3>4. QED BY <3>2, <3>3, SameCall
  <2>3. QED BY <2>1, <2>2
<1>3. CallsSound'
      BY <1>2 DEF CallsSound
<1>4. NotYetCalled'
  <2> SUFFICES ASSUME NEW n \in 1 .. MaxImports, n > calls
               PROVE  target'[n] = {} /\ result'[n] = "none"
      BY DEF NotYetCalled
  <2>1. n \in 1 .. MaxImports \ {calls}
        BY <1>1
  <2>2. target'[n] = target[n] /\ result'[n] = result[n]
        BY <2>1
  <2>3. QED BY <2>2 DEF ImportInv, NotYetCalled
<1>5. QED BY <1>3, <1>4

LEMMA AuthenticateImport ==
    ASSUME ImportInv, ExportTypes, Authenticate
    PROVE  ImportInv'
<1>1. /\ ipc = "idle" /\ bundle.sealed /\ calls < MaxImports
      /\ calls' = calls + 1 /\ ipc' = "add" /\ queue' = bundle.items
      /\ UNCHANGED <<bundle, undo, imported, target, result>>
      BY DEF Authenticate, exportVars
<1>2. imported = <<>> /\ ImportTypes /\ NotYetCalled
      BY <1>1 DEF ImportInv
<1>3. calls \in 0 .. MaxImports /\ calls' \in 1 .. MaxImports
      BY <1>1, <1>2, BoundType DEF ImportTypes
<1>4. bundle.items \in Seq(Items)
      BY DEF ExportTypes
<1>5. ImportTypes'
      BY <1>1, <1>2, <1>3, <1>4, BoundType DEF ImportTypes
<1>6. target[calls'] = {} /\ result[calls'] = "none"
      BY <1>1, <1>2, <1>3 DEF NotYetCalled
<1>7. AddRunning'
  <2>1. /\ Len(imported') = 0
        /\ Len(queue') = Len(bundle'.items) /\ Len(queue') \in Nat
        /\ \A j \in 1 .. Len(queue') : queue'[j] = bundle'.items[0 + j]
        BY <1>1, <1>2, <1>4
  <2>2. target'[calls'] = Stretch(bundle'.items, 1, Len(imported'))
        BY <1>1, <1>6, <2>1, StretchBegins
  <2>3. QED BY <2>1, <2>2 DEF AddRunning
<1>8. NotYetCalled'
      BY <1>1, <1>2, <1>3, BoundType DEF NotYetCalled
<1>9. CallsSound'
  <2> SUFFICES ASSUME NEW n \in 1 .. calls'
               PROVE  CallSound(n)'
      BY DEF CallsSound
  <2>1. CASE n = calls'
    <3>1. AllOrNothing(n)'
          BY <1>1, <1>6, <2>1 DEF AllOrNothing
    <3>2. target'[n] = Stretch(bundle.items, 1, 0)
          BY <1>1, <1>6, <2>1, StretchBegins
    <3>3. 1 \in 1 .. Len(bundle.items) + 1 /\ 0 \in 0 .. Len(bundle.items)
          BY <1>4
    <3>4. QED BY <1>1, <3>1, <3>2, <3>3 DEF CallSound, LeavesStretch
  <2>2. CASE n # calls'
    <3>1. n \in 1 .. calls
          BY <1>1, <1>3, <2>2
    <3>2. CallSound(n)
          BY <3>1 DEF ImportInv, CallsSound
    <3>3. QED BY <1>1, <3>2, SameCall
  <2>3. QED BY <2>1, <2>2
<1>10. calls' > 0
       BY <1>3
<1>11. QED BY <1>1, <1>5, <1>6, <1>7, <1>8, <1>9, <1>10 DEF ImportInv

\* What holds of a running call before any of its steps.
LEMMA Running ==
    ASSUME ImportInv, ipc # "idle"
    PROVE  /\ ImportTypes /\ calls \in 1 .. MaxImports /\ calls > 0
           /\ result[calls] = "none" /\ bundle.sealed
           /\ LeavesStretch(calls)
<1>1. ImportTypes /\ calls > 0 /\ result[calls] = "none" /\ bundle.sealed
      BY DEF ImportInv
<1>2. calls \in 1 .. MaxImports /\ calls \in 1 .. calls
      BY <1>1, BoundType DEF ImportTypes
<1>3. QED BY <1>1, <1>2 DEF ImportInv, CallsSound, CallSound

LEMMA AddOkImport ==
    ASSUME ImportInv, ExportTypes, AddOk
    PROVE  ImportInv'
<1> DEFINE n == Len(imported)
           t == <<n + 1, Head(queue)>>
<1>1. /\ ipc = "add" /\ queue # <<>>
      /\ target' = [target EXCEPT ![calls] = target[calls] \cup {t}]
      /\ imported' = Append(imported, n + 1)
      /\ queue' = Tail(queue)
      /\ UNCHANGED <<bundle, ipc, undo, calls, result>>
      BY DEF AddOk, NewRecord, exportVars
<1>2. /\ ImportTypes /\ calls \in 1 .. MaxImports /\ calls > 0
      /\ result[calls] = "none" /\ bundle.sealed
      BY <1>1, Running
<1>3. /\ n + Len(queue) = Len(bundle.items)
      /\ \A j \in 1 .. Len(queue) : queue[j] = bundle.items[n + j]
      /\ \A j \in 1 .. n : imported[j] = j
      /\ target[calls] = Stretch(bundle.items, 1, n)
      BY <1>1 DEF ImportInv, AddRunning
<1>4. /\ queue \in Seq(Items) /\ imported \in Seq(Nat) /\ bundle.items \in Seq(Items)
      BY <1>2 DEF ImportTypes, ExportTypes
<1>5. /\ n \in Nat /\ Len(queue) \in Nat /\ Len(queue) > 0
      /\ Head(queue) = queue[1] /\ Head(queue) \in Items
      BY <1>1, <1>4
<1>6. Head(queue) = bundle.items[n + 1]
  <2>1. 1 \in 1 .. Len(queue)
        BY <1>5
  <2>2. queue[1] = bundle.items[n + 1]
        BY <1>3, <2>1
  <2>3. QED BY <1>5, <2>2
<1>7. /\ queue' \in Seq(Items) /\ Len(queue') = Len(queue) - 1
      /\ \A j \in 1 .. Len(queue') : queue'[j] = queue[j + 1]
      BY <1>1, <1>4
<1>8. /\ imported' \in Seq(Nat) /\ Len(imported') = n + 1
      /\ imported'[n + 1] = n + 1
      /\ \A j \in 1 .. n : imported'[j] = imported[j]
  <2>1. n + 1 \in Nat /\ imported' = Append(imported, n + 1)
        BY <1>1, <1>5
  <2> HIDE DEF n
  <2>2. n = Len(imported)
        BY DEF n
  <2>3. QED BY <1>4, <2>1, <2>2
<1>9. target \in [1 .. MaxImports -> SUBSET Records]
      BY <1>2 DEF ImportTypes
<1>10. t \in Records
       BY <1>5 DEF Records
<1>11. /\ target' \in [1 .. MaxImports -> SUBSET Records]
       /\ target'[calls] = target[calls] \cup {t}
       /\ \A m \in 1 .. MaxImports \ {calls} : target'[m] = target[m]
       BY <1>1, <1>2, <1>9, <1>10
<1>12. ImportTypes'
       BY <1>1, <1>2, <1>7, <1>8, <1>11 DEF ImportTypes
<1>13. Len(imported') + Len(queue') = Len(bundle.items)
  <2>1. (n + 1) + (Len(queue) - 1) = n + Len(queue)
        BY <1>5
  <2>2. QED BY <1>3, <1>7, <1>8, <2>1
<1>14. \A j \in 1 .. Len(queue') : queue'[j] = bundle.items[Len(imported') + j]
  <2> SUFFICES ASSUME NEW j \in 1 .. Len(queue')
               PROVE  queue'[j] = bundle.items[Len(imported') + j]
      OBVIOUS
  <2>1. j + 1 \in 1 .. Len(queue)
        BY <1>5, <1>7
  <2>2. queue[j + 1] = bundle.items[n + (j + 1)]
        BY <1>3, <2>1
  <2>3. n + (j + 1) = Len(imported') + j
        BY <1>5, <1>7, <1>8
  <2>4. QED BY <1>7, <2>2, <2>3
<1>15. \A j \in 1 .. Len(imported') : imported'[j] = j
  <2> SUFFICES ASSUME NEW j \in 1 .. Len(imported')
               PROVE  imported'[j] = j
      OBVIOUS
  <2>1. CASE j = n + 1
        BY <1>8, <2>1
  <2>2. CASE j \in 1 .. n
        BY <1>3, <1>8, <2>2
  <2>3. QED BY <1>5, <1>8, <2>1, <2>2
<1>16. target'[calls] = Stretch(bundle.items, 1, n + 1)
  <2>1. Stretch(bundle.items, 1, n + 1)
          = Stretch(bundle.items, 1, n) \cup {<<n + 1, bundle.items[n + 1]>>}
        BY <1>5, StretchGrows
  <2>2. t = <<n + 1, bundle.items[n + 1]>>
        BY <1>6
  <2>3. target'[calls] = Stretch(bundle.items, 1, n) \cup {t}
        BY <1>3, <1>11
  <2>4. QED BY <2>1, <2>2, <2>3
<1>17. AddRunning'
  <2>1. target'[calls'] = Stretch(bundle'.items, 1, Len(imported'))
        BY <1>1, <1>8, <1>16
  <2>2. QED BY <1>1, <1>13, <1>14, <1>15, <2>1 DEF AddRunning
<1>18. CallSound(calls)'
  <2>1. AllOrNothing(calls)'
        BY <1>1, <1>2 DEF AllOrNothing
  <2>2. 1 \in 1 .. Len(bundle.items) + 1 /\ n + 1 \in 0 .. Len(bundle.items)
        BY <1>3, <1>5
  <2>3. QED BY <1>1, <1>16, <2>1, <2>2 DEF CallSound, LeavesStretch
<1>19. CallsSound' /\ NotYetCalled'
       BY <1>1, <1>2, <1>11, <1>18, OtherCalls
<1>20. QED BY <1>1, <1>2, <1>12, <1>17, <1>19 DEF ImportInv

\* A failing add may have put its item into the vault, one more than is undone.
LEMMA AddFailsImport ==
    ASSUME ImportInv, ExportTypes, AddFails
    PROVE  ImportInv'
<1> DEFINE n == Len(imported)
           t == <<n + 1, Head(queue)>>
<1>1. /\ ipc = "add" /\ queue # <<>> /\ ipc' = "rollback" /\ undo' = imported
      /\ \/ target' = target
         \/ "after" \in AddFailures
            /\ target' = [target EXCEPT ![calls] = target[calls] \cup {t}]
      /\ UNCHANGED <<bundle, queue, imported, calls, result>>
      BY DEF AddFails, NewRecord, exportVars
<1>2. /\ ImportTypes /\ calls \in 1 .. MaxImports /\ calls > 0
      /\ result[calls] = "none" /\ bundle.sealed
      BY <1>1, Running
<1>3. /\ n + Len(queue) = Len(bundle.items)
      /\ \A j \in 1 .. Len(queue) : queue[j] = bundle.items[n + j]
      /\ \A j \in 1 .. n : imported[j] = j
      /\ target[calls] = Stretch(bundle.items, 1, n)
      BY <1>1 DEF ImportInv, AddRunning
<1>4. /\ queue \in Seq(Items) /\ imported \in Seq(Nat) /\ bundle.items \in Seq(Items)
      BY <1>2 DEF ImportTypes, ExportTypes
<1>5. /\ n \in Nat /\ Len(queue) \in Nat /\ Len(queue) > 0 /\ n + 1 <= Len(bundle.items)
      /\ Head(queue) = queue[1] /\ Head(queue) \in Items
      BY <1>1, <1>3, <1>4
<1>6. t = <<n + 1, bundle.items[n + 1]>>
  <2>1. 1 \in 1 .. Len(queue)
        BY <1>5
  <2>2. queue[1] = bundle.items[n + 1]
        BY <1>3, <2>1
  <2>3. QED BY <1>5, <2>2
<1>7. PICK last \in {n, n + 1} :
          /\ target'[calls] = Stretch(bundle.items, 1, last)
          /\ "after" \notin AddFailures => last = n
          /\ target' \in [1 .. MaxImports -> SUBSET Records]
          /\ \A m \in 1 .. MaxImports \ {calls} : target'[m] = target[m]
  <2>1. target \in [1 .. MaxImports -> SUBSET Records] /\ t \in Records
        BY <1>2, <1>5 DEF ImportTypes, Records
  <2>2. CASE target' = target
        BY <1>3, <2>1, <2>2
  <2>3. CASE /\ "after" \in AddFailures
             /\ target' = [target EXCEPT ![calls] = target[calls] \cup {t}]
    <3>1. target'[calls] = Stretch(bundle.items, 1, n) \cup {t}
          BY <1>2, <1>3, <2>1, <2>3
    <3>2. Stretch(bundle.items, 1, n + 1) = Stretch(bundle.items, 1, n) \cup {t}
          BY <1>5, <1>6, StretchGrows
    <3>3. target' \in [1 .. MaxImports -> SUBSET Records]
          BY <1>2, <2>1, <2>3
    <3>4. QED BY <2>1, <2>3, <3>1, <3>2, <3>3
  <2>4. QED BY <1>1, <2>2, <2>3
<1>8. last \in Nat /\ last <= Len(bundle.items)
      BY <1>4, <1>5, <1>7
<1>9. ImportTypes'
      BY <1>1, <1>2, <1>7 DEF ImportTypes
<1>10. RollbackRunning'
  <2>1. target'[calls'] = Stretch(bundle'.items, 0 + 1, last)
        BY <1>1, <1>7
  <2>2. \A m \in 1 .. Len(undo') : undo'[m] = 0 + m
        BY <1>1, <1>3, <1>4
  <2>3. last \in {0 + Len(undo'), 0 + Len(undo') + 1}
        BY <1>1, <1>5, <1>7
  <2>4. "after" \notin AddFailures => last = 0 + Len(undo')
        BY <1>1, <1>5, <1>7
  <2>5. last \in Nat /\ last <= Len(bundle'.items) /\ 0 \in Nat
        BY <1>1, <1>8
  <2>6. QED BY <2>1, <2>2, <2>3, <2>4, <2>5 DEF RollbackRunning, RollbackFrom
<1>11. CallSound(calls)'
  <2>1. AllOrNothing(calls)'
        BY <1>1, <1>2 DEF AllOrNothing
  <2>2. 1 \in 1 .. Len(bundle.items) + 1 /\ last \in 0 .. Len(bundle.items)
        BY <1>4, <1>8
  <2>3. QED BY <1>1, <1>7, <2>1, <2>2 DEF CallSound, LeavesStretch
<1>12. CallsSound' /\ NotYetCalled'
       BY <1>1, <1>2, <1>7, <1>11, OtherCalls
<1>13. QED BY <1>1, <1>2, <1>9, <1>10, <1>12 DEF ImportInv

\* A step by which the running call returns, or is killed.
LEMMA ReturnsImport ==
    ASSUME ImportInv, ipc # "idle", NEW outcome \in Outcomes, Returns(outcome),
           target' \in [1 .. MaxImports -> SUBSET Records],
           \A m \in 1 .. MaxImports \ {calls} : target'[m] = target[m],
           UNCHANGED <<bundle, calls>>,
           LeavesStretch(calls)',
           "after" \notin AddFailures => AllOrNothing(calls)'
    PROVE  ImportInv'
<1>1. /\ ipc' = "idle" /\ queue' = <<>> /\ undo' = <<>> /\ imported' = <<>>
      /\ result' = [result EXCEPT ![calls] = outcome]
      BY DEF Returns
<1>2. ImportTypes /\ calls \in 1 .. MaxImports /\ calls > 0 /\ bundle.sealed
      BY Running
<1>3. ImportTypes'
      BY <1>1, <1>2 DEF ImportTypes
<1>4. \A n \in 1 .. MaxImports \ {calls} : target'[n] = target[n] /\ result'[n] = result[n]
      BY <1>1, <1>2 DEF ImportTypes
<1>5. CallSound(calls)'
      BY DEF CallSound
<1>6. CallsSound' /\ NotYetCalled'
      BY <1>2, <1>4, <1>5, OtherCalls
<1>7. QED BY <1>1, <1>2, <1>3, <1>6 DEF ImportInv

\* The same when the vault stays as it is.
LEMMA QuietReturn ==
    ASSUME ImportInv, ipc # "idle", NEW outcome \in Outcomes, Returns(outcome),
           UNCHANGED <<bundle, target, calls>>,
           "after" \notin AddFailures => AllOrNothing(calls)'
    PROVE  ImportInv'
<1>1. ImportTypes /\ LeavesStretch(calls)
      BY Running
<1>2. LeavesStretch(calls)'
      BY <1>1 DEF LeavesStretch
<1>3. target' \in [1 .. MaxImports -> SUBSET Records]
      BY <1>1 DEF ImportTypes
<1>4. QED BY <1>2, <1>3, ReturnsImport

\* As many records as items: their positions tell them apart.
LEMMA RecordCount ==
    ASSUME NEW n \in Nat, NEW items
    PROVE  Cardinality({<<j, items[j]>> : j \in 1 .. n}) = n
<1> DEFINE S == {<<j, items[j]>> : j \in 1 .. n}
           f == [j \in 1 .. n |-> <<j, items[j]>>]
<1>1. f \in Bijection(1 .. n, S)
  <2>1. f \in [1 .. n -> S]
        OBVIOUS
  <2>2. \A j, k \in 1 .. n : f[j] = f[k] => j = k
    <3> SUFFICES ASSUME NEW j \in 1 .. n, NEW k \in 1 .. n, f[j] = f[k]
                 PROVE  j = k
        OBVIOUS
    <3>1. <<j, items[j]>> = <<k, items[k]>>
          OBVIOUS
    <3>2. QED BY <3>1
  <2>3. \A t \in S : \E j \in 1 .. n : f[j] = t
        OBVIOUS
  <2>4. QED BY <2>1, <2>2, <2>3, Fun_IsBij
<1>2. IsFiniteSet(1 .. n) /\ Cardinality(1 .. n) = n
  <2>1. Cardinality(1 .. n) = IF 1 > n THEN 0 ELSE n - 1 + 1
        BY FS_Interval
  <2>2. (IF 1 > n THEN 0 ELSE n - 1 + 1) = n
        OBVIOUS
  <2>3. QED BY <2>1, <2>2, FS_Interval
<1>3. Cardinality(1 .. n) = Cardinality(S)
  <2> HIDE DEF S, f
  <2>1. ExistsBijection(1 .. n, S)
        BY <1>1, Fun_ExistsBij
  <2>2. QED BY <1>2, <2>1, FS_Bijection
<1>4. QED BY <1>2, <1>3

LEMMA ImportDoneImport ==
    ASSUME ImportInv, ExportTypes, ImportDone
    PROVE  ImportInv'
<1> DEFINE n == Len(imported)
<1>1. /\ ipc = "add" /\ queue = <<>> /\ Returns("ok")
      /\ UNCHANGED <<bundle, target, calls>>
      BY DEF ImportDone, exportVars
<1>2. ImportTypes /\ calls \in 1 .. MaxImports
      BY <1>1, Running
<1>3. n \in Nat /\ bundle.items \in Seq(Items)
      BY <1>2 DEF ImportTypes, ExportTypes
<1>4. n + Len(queue) = Len(bundle.items) /\ Len(queue) = 0
      BY <1>1 DEF ImportInv, AddRunning
<1>5. n = Len(bundle.items) /\ DOMAIN bundle.items = 1 .. n
      BY <1>3, <1>4
<1>6. target[calls] = {<<j, bundle.items[j]>> : j \in 1 .. n}
      BY <1>1 DEF ImportInv, AddRunning, Stretch
<1>7. Cardinality(target[calls]) = Len(bundle.items)
      BY <1>3, <1>5, <1>6, RecordCount
<1>8. ImportedItems(calls) = Range(bundle.items)
  <2>1. ImportedItems(calls) = {t[2] : t \in {<<j, bundle.items[j]>> : j \in 1 .. n}}
        BY <1>6 DEF ImportedItems
  <2>2. ASSUME NEW x
        PROVE  x \in ImportedItems(calls) <=> x \in Range(bundle.items)
    <3>1. x \in ImportedItems(calls) <=> \E j \in 1 .. n : x = <<j, bundle.items[j]>>[2]
          BY <2>1
    <3>2. QED BY <1>5, <3>1 DEF Range
  <2>3. QED BY <2>2
<1>9. result'[calls] = "ok"
      BY <1>1, <1>2 DEF Returns, ImportTypes
<1>10. AllOrNothing(calls)'
       BY <1>1, <1>7, <1>8, <1>9 DEF AllOrNothing, ImportedItems
<1>11. "ok" \in Outcomes
       BY DEF Outcomes
<1>12. QED BY <1>1, <1>10, <1>11, QuietReturn

\* A delete of the rollback takes the first record of the stretch away.
LEMMA DeleteShrinks ==
    ASSUME ImportInv, ExportTypes, ipc = "rollback", undo # <<>>,
           target' = [target EXCEPT ![calls] = WithoutHead],
           UNCHANGED <<bundle, calls>>
    PROVE  /\ target' \in [1 .. MaxImports -> SUBSET Records]
           /\ \A m \in 1 .. MaxImports \ {calls} : target'[m] = target[m]
           /\ LeavesStretch(calls)'
           /\ undo' = Tail(undo) => undo' \in Seq(Nat) /\ RollbackRunning'
<1>1. ImportTypes /\ calls \in 1 .. MaxImports
      BY Running
<1>2. undo \in Seq(Nat) /\ target \in [1 .. MaxImports -> SUBSET Records]
      BY <1>1 DEF ImportTypes
<1>3. /\ Len(undo) \in Nat /\ Len(undo) > 0 /\ Head(undo) = undo[1]
      /\ Tail(undo) \in Seq(Nat) /\ Len(Tail(undo)) = Len(undo) - 1
      /\ \A m \in 1 .. Len(undo) - 1 : Tail(undo)[m] = undo[m + 1]
      BY <1>2
<1>4. PICK d \in Nat, last \in Nat : RollbackFrom(d, last)
      BY DEF ImportInv, RollbackRunning
<1>5. Head(undo) = d + 1 /\ last <= Len(bundle.items) /\ d + 1 <= last
      BY <1>3, <1>4 DEF RollbackFrom
<1>6. target'[calls] = Stretch(bundle.items, (d + 1) + 1, last)
  <2>1. target'[calls] = {t \in Stretch(bundle.items, d + 1, last) : t[1] # d + 1}
        BY <1>1, <1>2, <1>4, <1>5 DEF WithoutHead, RollbackFrom
  <2>2. d + 1 \in Nat
        OBVIOUS
  <2>3. \A a \in Nat : {t \in Stretch(bundle.items, a, last) : t[1] # a}
                        = Stretch(bundle.items, a + 1, last)
        BY StretchShrinks
  <2>4. QED BY <2>1, <2>2, <2>3
<1>7. /\ target' \in [1 .. MaxImports -> SUBSET Records]
      /\ \A m \in 1 .. MaxImports \ {calls} : target'[m] = target[m]
  <2>1. WithoutHead \subseteq target[calls]
        BY DEF WithoutHead
  <2>2. QED BY <1>1, <1>2, <2>1
<1>8. LeavesStretch(calls)'
  <2>1. Len(bundle.items) \in Nat
        BY DEF ExportTypes
  <2>2. (d + 1) + 1 \in 1 .. Len(bundle.items) + 1 /\ last \in 0 .. Len(bundle.items)
        BY <1>5, <2>1
  <2>3. QED BY <1>6, <2>2 DEF LeavesStretch
<1>9. ASSUME undo' = Tail(undo)
      PROVE  undo' \in Seq(Nat) /\ RollbackRunning'
  <2>1. \A m \in 1 .. Len(undo') : undo'[m] = (d + 1) + m
        BY <1>3, <1>4, <1>9 DEF RollbackFrom
  <2>2. /\ last \in {(d + 1) + Len(undo'), (d + 1) + Len(undo') + 1}
        /\ "after" \notin AddFailures => last = (d + 1) + Len(undo')
        BY <1>3, <1>4, <1>9 DEF RollbackFrom
  <2>3. target'[calls'] = Stretch(bundle'.items, (d + 1) + 1, last)
        BY <1>6
  <2>4. RollbackFrom(d + 1, last)'
        BY <1>5, <2>1, <2>2, <2>3 DEF RollbackFrom
  <2>5. QED BY <1>3, <1>9, <2>4 DEF RollbackRunning
<1>10. QED BY <1>7, <1>8, <1>9

LEMMA DeleteOkImport ==
    ASSUME ImportInv, ExportTypes, DeleteOk
    PROVE  ImportInv'
<1>1. /\ ipc = "rollback" /\ undo # <<>>
      /\ target' = [target EXCEPT ![calls] = WithoutHead]
      /\ undo' = Tail(undo)
      /\ UNCHANGED <<bundle, ipc, queue, imported, calls, result>>
      BY DEF DeleteOk, exportVars
<1>2. /\ ImportTypes /\ calls \in 1 .. MaxImports /\ calls > 0
      /\ result[calls] = "none" /\ bundle.sealed
      BY <1>1, Running
<1>3. /\ target' \in [1 .. MaxImports -> SUBSET Records]
      /\ \A m \in 1 .. MaxImports \ {calls} : target'[m] = target[m]
      /\ LeavesStretch(calls)'
      /\ undo' \in Seq(Nat) /\ RollbackRunning'
      BY <1>1, DeleteShrinks
<1>4. ImportTypes'
      BY <1>1, <1>2, <1>3 DEF ImportTypes
<1>5. CallSound(calls)'
      BY <1>1, <1>2, <1>3 DEF CallSound, AllOrNothing
<1>6. CallsSound' /\ NotYetCalled'
      BY <1>1, <1>2, <1>3, <1>5, OtherCalls
<1>7. QED BY <1>1, <1>2, <1>3, <1>4, <1>6 DEF ImportInv

LEMMA DeleteFailsImport ==
    ASSUME ImportInv, ExportTypes, DeleteFails
    PROVE  ImportInv'
<1>1. /\ ipc = "rollback" /\ undo # <<>> /\ Returns("partial")
      /\ target' = target \/ target' = [target EXCEPT ![calls] = WithoutHead]
      /\ UNCHANGED <<bundle, calls>>
      BY DEF DeleteFails, exportVars
<1>2. ImportTypes /\ calls \in 1 .. MaxImports
      BY <1>1, Running
<1>3. result'[calls] = "partial"
      BY <1>1, <1>2 DEF Returns, ImportTypes
<1>4. AllOrNothing(calls)' /\ "partial" \in Outcomes
      BY <1>1, <1>3 DEF AllOrNothing, Outcomes
<1>5. CASE target' = target
      BY <1>1, <1>4, <1>5, QuietReturn
<1>6. CASE target' = [target EXCEPT ![calls] = WithoutHead]
      BY <1>1, <1>4, <1>6, DeleteShrinks, ReturnsImport
<1>7. QED BY <1>1, <1>5, <1>6

LEMMA KillImportImport ==
    ASSUME ImportInv, KillImport
    PROVE  ImportInv'
<1>1. ipc # "idle" /\ Returns("killed") /\ UNCHANGED <<bundle, target, calls>>
      BY DEF KillImport, exportVars
<1>2. ImportTypes /\ calls \in 1 .. MaxImports
      BY <1>1, Running
<1>3. result'[calls] = "killed"
      BY <1>1, <1>2 DEF Returns, ImportTypes
<1>4. AllOrNothing(calls)' /\ "killed" \in Outcomes
      BY <1>1, <1>3 DEF AllOrNothing, Outcomes
<1>5. QED BY <1>1, <1>4, QuietReturn

\* The stretch is used up, but for what a failing add may have left.
LEMMA RolledBackImport ==
    ASSUME ImportInv, RolledBack
    PROVE  ImportInv'
<1>1. /\ ipc = "rollback" /\ undo = <<>> /\ Returns("rolled back")
      /\ UNCHANGED <<bundle, target, calls>>
      BY DEF RolledBack, exportVars
<1>2. ImportTypes /\ calls \in 1 .. MaxImports
      BY <1>1, Running
<1>3. PICK d \in Nat, last \in Nat : RollbackFrom(d, last)
      BY <1>1 DEF ImportInv, RollbackRunning
<1>4. ASSUME "after" \notin AddFailures
      PROVE  target[calls] = {}
  <2>1. last = d
    <3>1. last = d + Len(undo)
          BY <1>3, <1>4 DEF RollbackFrom
    <3>2. Len(undo) = 0
          BY <1>1
    <3>3. QED BY <3>1, <3>2
  <2>2. target[calls] = Stretch(bundle.items, d + 1, d)
        BY <1>3, <2>1 DEF RollbackFrom
  <2>3. d + 1 .. d = {}
        OBVIOUS
  <2>4. QED BY <2>2, <2>3 DEF Stretch
<1>5. result'[calls] = "rolled back"
      BY <1>1, <1>2 DEF Returns, ImportTypes
<1>6. "after" \notin AddFailures => AllOrNothing(calls)'
      BY <1>1, <1>4, <1>5 DEF AllOrNothing
<1>7. "rolled back" \in Outcomes
      BY DEF Outcomes
<1>8. QED BY <1>1, <1>6, <1>7, QuietReturn

LEMMA ImportStep == ImportInv /\ ExportInv /\ [Next]_vars => ImportInv'
<1> SUFFICES ASSUME ImportInv, ExportInv, [Next]_vars PROVE ImportInv'
    OBVIOUS
<1>1. ExportTypes
      BY DEF ExportInv
<1>2. CASE UpdateItem \/ DeleteItem \/ ListLive \/ ExportProgress \/ ExportAborted
  <2>1. UNCHANGED importVars
        BY <1>2 DEF UpdateItem, DeleteItem, WriteItem, ListLive, ExportProgress,
                    WithItem, ItemGone, ExportAborted, SealBundle
  <2>2. bundle.sealed => bundle' = bundle
    <3>1. CASE SealBundle
          BY <3>1 DEF SealBundle, ExportInv
    <3>2. CASE ~SealBundle
          BY <1>2, <3>2 DEF UpdateItem, DeleteItem, WriteItem, ListLive, ExportProgress,
                            WithItem, ItemGone, ExportAborted
    <3>3. QED BY <3>1, <3>2
  <2>3. QED BY <2>1, <2>2, ExportStepsKeepImport
<1>3. CASE Authenticate
      BY <1>1, <1>3, AuthenticateImport
<1>4. CASE ImportProgress
      BY <1>1, <1>4, AddOkImport, ImportDoneImport, DeleteOkImport, RolledBackImport
         DEF ImportProgress
<1>5. CASE AddFails
      BY <1>1, <1>5, AddFailsImport
<1>6. CASE DeleteFails
      BY <1>1, <1>6, DeleteFailsImport
<1>7. CASE KillImport
      BY <1>7, KillImportImport
<1>8. CASE UNCHANGED vars
      BY <1>8, ExportStepsKeepImport DEF vars, exportVars
<1>9. QED BY <1>2, <1>3, <1>4, <1>5, <1>6, <1>7, <1>8 DEF Next

LEMMA ImportInvariant == Spec => []ImportInv
BY ImportStep, InitImport, ExportInvariant, PTL DEF Spec

\* import() (export.rs:189-209), whichever adds and deletes fail, before or after
\* their renames, and wherever it is killed: what it leaves in the vault is one
\* stretch of the bundle, each item of it once.
THEOREM ImportIsAStretch == Spec => []ImportLeavesStretch
<1>1. ImportInv => ImportLeavesStretch
      BY DEF ImportInv, CallsSound, CallSound, ImportLeavesStretch
<1>2. QED BY <1>1, ImportInvariant, PTL

\* import() over a store whose failing add or delete changes nothing: Ok added
\* exactly the items of the bundle, each once, and an error that reports a
\* successful rollback left nothing behind.
THEOREM ImportIsAllOrNothing ==
    ASSUME "after" \notin AddFailures
    PROVE  Spec => []ImportAllOrNothing
<1>1. ImportInv => ImportAllOrNothing
      BY DEF ImportInv, CallsSound, CallSound, ImportAllOrNothing
<1>2. QED BY <1>1, ImportInvariant, PTL
=============================================================================
