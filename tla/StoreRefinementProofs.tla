----------------------- MODULE StoreRefinementProofs -----------------------
(***************************************************************************)
(* EnrollmentStore implements CredentialStore, for any number of threads   *)
(* and labels and under every fault, as long as no two saves of one label  *)
(* overlap.                                                                *)
(***************************************************************************)
EXTENDS EnrollmentStoreProofs

Inv == TypeInv /\ Exclusive /\ TmpHeld /\ Coherence

LEMMA PhaseMoves ==
    ASSUME TypeInv, NEW t \in Threads, NEW where, pc' = [pc EXCEPT ![t] = where]
    PROVE  phase' = [phase EXCEPT ![t] = PhaseOf(where)]
BY DEF TypeInv, TypeOK, phase

\* A step that neither enters nor leaves "answered" answers nothing.
LEMMA AnswerStays ==
    ASSUME TypeInv, NEW t \in Threads, NEW where,
           pc' = [pc EXCEPT ![t] = where], pc[t] # "answered", where # "answered",
           \A u \in Threads : u # t => items'[u] = items[u]
    PROVE  answer' = answer
<1> USE DEF TypeInv, TypeOK
<1>1. \A u \in Threads : /\ pc'[u] = "answered" <=> pc[u] = "answered"
                         /\ pc[u] = "answered" => items'[u] = items[u]
  OBVIOUS
<1> QED BY <1>1 DEF answer

LEMMA CredStays ==
    ASSUME UNCHANGED <<path, platter>> PROVE cred' = cred /\ durable' = durable
BY DEF cred, durable

\* What a saver renames is its own enrollment, or nothing that can be loaded.
LEMMA SavedIsOwn ==
    ASSUME NEW t \in Threads, NEW f, SavedBy(f, t)
    PROVE  load_enrollment(f) \in {Own[t], NoFile}
<1>1. CASE f.body = NoOne
  BY <1>1 DEF load_enrollment
<1>2. CASE f.body = t
  BY <1>2 DEF SavedBy, Content, load_enrollment, Own
<1> QED BY <1>1, <1>2 DEF SavedBy

\* A step of a call that changes credentials, and changes none.
LEMMA InsideChange ==
    ASSUME TypeInv, NEW t \in Threads, NEW where \in {"write", "flush", "rename", "removing", "erase", "across"},
           pc[t] \in {"write", "flush", "rename", "removing", "erase", "across"},
           pc' = [pc EXCEPT ![t] = where],
           UNCHANGED <<path, platter, touched, stale, may, items>>
    PROVE  UNCHANGED Abs!vars
<1>1. phase' = phase
  BY PhaseMoves DEF TypeInv, TypeOK, phase, PhaseOf
<1>2. answer' = answer /\ cred' = cred /\ durable' = durable
  BY AnswerStays, CredStays
<1> QED BY <1>1, <1>2 DEF Abs!vars

LEMMA BeginStep ==
    ASSUME TypeInv, NEW t \in Threads, NEW where \in {"write", "removing", "erase", "across"},
           pc[t] = "idle", pc' = [pc EXCEPT ![t] = where],
           UNCHANGED <<path, platter, touched, stale, may, items>>
    PROVE  Abs!Begin(t)
<1>1. phase[t] = "idle" /\ phase' = [phase EXCEPT ![t] = "changing"]
  BY PhaseMoves DEF TypeInv, TypeOK, phase, PhaseOf
<1>2. answer' = answer /\ cred' = cred /\ durable' = durable
  BY AnswerStays, CredStays
<1> QED BY <1>1, <1>2 DEF Abs!Begin, Abs!Enter

LEMMA FailStep ==
    ASSUME TypeInv, NEW t \in Threads,
           pc[t] \in {"idle", "write", "flush", "rename", "removing", "across"},
           pc' = [pc EXCEPT ![t] = "done"],
           UNCHANGED <<path, platter, touched, stale, may, items>>
    PROVE  Abs!Fail(t)
<1>1. phase[t] \in {"idle", "changing"} /\ phase' = [phase EXCEPT ![t] = "done"]
  BY PhaseMoves DEF TypeInv, TypeOK, phase, PhaseOf
<1>2. answer' = answer /\ cred' = cred /\ durable' = durable
  BY AnswerStays, CredStays
<1> QED BY <1>1, <1>2 DEF Abs!Fail, Abs!Enter

LEMMA LoadsUnion ==
    ASSUME NEW A, NEW f
    PROVE  { load_enrollment(g) : g \in A \cup {f} }
              = { load_enrollment(g) : g \in A } \cup {load_enrollment(f)}
OBVIOUS

LEMMA LoadsOne ==
    ASSUME NEW f
    PROVE  { load_enrollment(g) : g \in {f} } = {load_enrollment(f)}
OBVIOUS

LEMMA ChangeStep ==
    ASSUME TypeInv, NEW t \in Threads, NEW l \in Labels,
           NEW f, path' = [path EXCEPT ![l] = f], load_enrollment(f) \in {Own[t], NoFile},
           Changes(t, l), UNCHANGED items,
           pc[t] \in {"idle", "rename", "removing"},
           NEW where \in {"removing", "erase", "across"}, pc' = [pc EXCEPT ![t] = where]
    PROVE  Abs!Change(t, l)
<1> USE DEF TypeInv, TypeOK
<1>1. phase[t] \in {"idle", "changing"} /\ phase' = [phase EXCEPT ![t] = "changing"]
  BY PhaseMoves DEF phase, PhaseOf
<1>2. answer' = answer
  BY AnswerStays
<1>3. path'[l] = f
  OBVIOUS
<1>4. cred' = [cred EXCEPT ![l] = load_enrollment(f)]
  BY <1>3 DEF cred
<1>9. durable' = [durable EXCEPT ![l] = @ \cup {load_enrollment(f), NoFile}]
  <2>1. load_enrollment(NoFile) = NoFile /\ load_enrollment(Torn) = NoFile
    BY DEF load_enrollment, Torn
  <2>2. platter' = [platter EXCEPT ![l] = @ \cup {f} \cup (IF f = NoFile THEN {} ELSE {Torn})]
    BY <1>3 DEF Changes
  <2>3. \A k \in Labels : durable'[k] = { load_enrollment(g) : g \in platter'[k] }
    BY DEF durable
  <2>4. durable'[l] = durable[l] \cup {load_enrollment(f), NoFile}
    <3>1. platter'[l] = platter[l] \cup {f} \cup (IF f = NoFile THEN {} ELSE {Torn})
      BY <2>2
    <3>2. durable[l] = { load_enrollment(g) : g \in platter[l] }
      BY DEF durable
    <3>3. CASE f = NoFile
      <4>1. platter'[l] = platter[l] \cup {f}
        BY <3>1, <3>3
      <4>2. durable'[l] = { load_enrollment(g) : g \in platter[l] \cup {f} }
        BY <2>3, <4>1
      <4>3. durable'[l] = durable[l] \cup {load_enrollment(f)}
        BY <3>2, <4>2, LoadsUnion, Zenon
      <4> QED BY <2>1, <3>3, <4>3
    <3>4. CASE f # NoFile
      <4>1. platter'[l] = (platter[l] \cup {f}) \cup {Torn}
        BY <3>1, <3>4
      <4>2. durable'[l] = { load_enrollment(g) : g \in (platter[l] \cup {f}) \cup {Torn} }
        BY <2>3, <4>1
      <4>3. durable'[l] = { load_enrollment(g) : g \in platter[l] \cup {f} }
                          \cup {load_enrollment(Torn)}
        BY <4>2, LoadsUnion, Zenon
      <4>4. { load_enrollment(g) : g \in platter[l] \cup {f} } = durable[l] \cup {load_enrollment(f)}
        BY <3>2, LoadsUnion, Zenon
      <4>5. durable'[l] = (durable[l] \cup {load_enrollment(f)}) \cup {load_enrollment(Torn)}
        BY <4>3, <4>4, Zenon
      <4> QED BY <2>1, <4>5
    <3> QED BY <3>3, <3>4
  <2>5. \A k \in Labels : k # l => durable'[k] = durable[k]
    BY <2>2 DEF durable
  <2> QED BY <2>4, <2>5 DEF durable
<1>5. stale' = [stale EXCEPT ![l] = @ \cup {cred[l]}]
  BY DEF Changes, cred
<1>6. \A u \in Threads : Reading(u) <=> phase[u] = "reading"
  BY DEF Reading, phase, PhaseOf, PCs
<1>7. may' = [u \in Threads |-> IF phase[u] = "reading"
                                THEN [may[u] EXCEPT ![l] = @ \cup {load_enrollment(f)}] ELSE may[u]]
  BY <1>3, <1>6 DEF Changes
<1>8. touched' = [touched EXCEPT ![t] = @ \cup {l}]
  BY DEF Changes
<1> QED BY <1>1, <1>2, <1>4, <1>5, <1>7, <1>8, <1>9 DEF Abs!Change, Abs!Enter

LEMMA UnlinkRefines ==
    ASSUME TypeInv, NEW t \in Threads, NEW l \in Labels, Unlink(t, l), UNCHANGED items,
           pc[t] \in {"idle", "removing"},
           NEW where \in {"removing", "erase", "across"}, pc' = [pc EXCEPT ![t] = where]
    PROVE  Abs!Next \/ UNCHANGED Abs!vars
<1> USE DEF TypeInv, TypeOK
<1>1. CASE path[l] # NoFile
  <2>1. load_enrollment(NoFile) = NoFile
    BY DEF load_enrollment
  <2>2. Abs!Change(t, l)
    BY <1>1, <2>1, ChangeStep DEF Unlink
  <2> QED BY <2>2 DEF Abs!Next
<1>2. CASE path[l] = NoFile
  <2>1. UNCHANGED <<path, platter, touched, stale, may>>
    BY <1>2 DEF Unlink, history
  <2>2. CASE pc[t] = "idle"
    <3>1. Abs!Begin(t)
      BY <2>1, <2>2, BeginStep
    <3> QED BY <3>1 DEF Abs!Next
  <2>3. CASE pc[t] = "removing"
    BY <2>1, <2>3, InsideChange
  <2> QED BY <2>2, <2>3
<1> QED BY <1>1, <1>2

LEMMA SaveRefines ==
    ASSUME Inv, NEW t \in Threads, Save(t)
    PROVE  Abs!Next \/ UNCHANGED Abs!vars
<1> USE DEF Inv, TypeInv, TypeOK, disk, cache, locals, history, Goto
<1>1. ASSUME NEW l \in Labels, SaveOpen(t, l) PROVE Abs!Begin(t)
  BY <1>1, BeginStep DEF SaveOpen
<1>2. ASSUME SaveWrite(t) PROVE UNCHANGED Abs!vars
  <2>1. UNCHANGED <<path, platter, touched, stale, may>>
    BY <1>2 DEF SaveWrite, WritePart, Exclusive
  <2> QED BY <1>2, <2>1, InsideChange DEF SaveWrite
<1>3. ASSUME SaveFlush(t) PROVE UNCHANGED Abs!vars
  <2>1. UNCHANGED <<path, platter, touched, stale, may>>
    BY <1>3 DEF SaveFlush, WritePart, Exclusive
  <2> QED BY <1>3, <2>1, InsideChange DEF SaveFlush
<1>4. ASSUME SaveRename(t) PROVE Abs!Change(t, label[t])
  <2>1. label[t] \in Labels /\ load_enrollment(tmp[label[t]]) \in {Own[t], NoFile}
    BY <1>4, SavedIsOwn DEF SaveRename, OpenFile, TmpHeld
  <2> QED BY <1>4, <2>1, ChangeStep DEF SaveRename
<1>5. ASSUME SaveThrow(t) PROVE Abs!Fail(t)
  BY <1>5, FailStep DEF SaveThrow
<1>6. label[t] \in Labels \/ ~SaveRename(t)
  BY DEF SaveRename, OpenFile
<1> QED BY <1>1, <1>2, <1>3, <1>4, <1>5, <1>6 DEF Save, Abs!Next

LEMMA RemovalRefines ==
    ASSUME Inv, NEW t \in Threads, Removal(t)
    PROVE  Abs!Next \/ UNCHANGED Abs!vars
<1> USE DEF Inv, TypeInv, TypeOK, disk, cache, history, Goto
<1>1. ASSUME NEW l \in Labels, Remove(t, l) PROVE Abs!Next \/ UNCHANGED Abs!vars
  <2>1. CASE Unlink(t, l)
    BY <1>1, <2>1, UnlinkRefines DEF Remove
  <2>2. CASE UNCHANGED <<path, platter, file, history>>
    <3>1. Abs!Begin(t)
      BY <1>1, <2>2, BeginStep DEF Remove
    <3> QED BY <3>1 DEF Abs!Next
  <2> QED BY <1>1, <2>1, <2>2 DEF Remove
<1>5. ASSUME NEW l \in Labels, RemoveAcross(t, l) PROVE Abs!Next \/ UNCHANGED Abs!vars
  BY <1>5, UnlinkRefines DEF RemoveAcross
<1>6. ASSUME EraseOther(t) PROVE Abs!Next
  <2>1. Abs!Fail(t)
    BY <1>6, FailStep DEF EraseOther, locals
  <2> QED BY <2>1 DEF Abs!Next
<1>2. ASSUME RemoveAll(t) PROVE Abs!Next
  <2>1. CASE Goto(t, "removing") \/ Goto(t, "erase")
    <3>1. Abs!Begin(t)
      BY <1>2, <2>1, BeginStep DEF RemoveAll
    <3> QED BY <3>1 DEF Abs!Next
  <2>2. CASE Goto(t, "done")
    <3>1. Abs!Fail(t)
      BY <1>2, <2>2, FailStep DEF RemoveAll
    <3> QED BY <3>1 DEF Abs!Next
  <2> QED BY <1>2, <2>1, <2>2 DEF RemoveAll
<1>3. ASSUME RemoveAllStep(t) PROVE Abs!Next \/ UNCHANGED Abs!vars
  <2>1. PICK l \in Labels : Unlink(t, l)
    BY <1>3 DEF RemoveAllStep
  <2>2. pc[t] = "removing" /\ pc' = [pc EXCEPT ![t] = "removing"] /\ UNCHANGED items
    BY <1>3 DEF RemoveAllStep
  <2> QED BY <2>1, <2>2, UnlinkRefines
<1>4. ASSUME RemoveAllEnd(t) PROVE UNCHANGED Abs!vars
  BY <1>4, InsideChange DEF RemoveAllEnd
<1> QED BY <1>1, <1>2, <1>3, <1>4, <1>5, <1>6 DEF Removal

LEMMA EraseRefines ==
    ASSUME Inv, NEW t \in Threads, Erase(t)
    PROVE  Abs!Settle(t)
<1> USE DEF Inv, TypeInv, TypeOK, disk, locals, Goto, Erase
<1>1. phase[t] = "changing" /\ phase' = [phase EXCEPT ![t] = "done"]
  BY PhaseMoves DEF phase, PhaseOf
<1>2. answer' = answer /\ cred' = cred /\ durable' = durable
  BY AnswerStays, CredStays
<1>3. \A u \in Threads : pc[u] = "done" <=> phase[u] = "done"
  BY DEF phase, PhaseOf, PCs
<1>4. touched' = [u \in Threads |-> IF u = t \/ phase[u] = "done" THEN {} ELSE touched[u]]
  BY <1>3 DEF Uncached
<1> QED BY <1>1, <1>2, <1>4 DEF Abs!Settle, Abs!Enter, Uncached

LEMMA ReadRefines ==
    ASSUME Inv, Sighted', NEW t \in Threads, Read(t) \/ ReaddirThrows(t)
    PROVE  Abs!Next \/ UNCHANGED Abs!vars
<1> USE DEF Inv, TypeInv, TypeOK, disk, cache, history, Goto
<1>1. ASSUME ForUid(t) PROVE Abs!BeginRead(t)
  <2>1. phase[t] = "idle" /\ phase' = [phase EXCEPT ![t] = "reading"]
    BY <1>1, PhaseMoves DEF ForUid, phase, PhaseOf
  <2>2. answer' = answer /\ cred' = cred /\ durable' = durable
    BY <1>1, AnswerStays, CredStays DEF ForUid
  <2>3. may' = [may EXCEPT ![t] = [l \in Labels |-> stale[l] \cup {cred[l]}]]
    BY <1>1 DEF ForUid, cred
  <2> QED BY <1>1, <2>1, <2>2, <2>3 DEF ForUid, Abs!BeginRead, Abs!Enter
<1>2. ASSUME Scan(t) \/ CacheMiss(t) \/ Load(t) PROVE UNCHANGED Abs!vars
  <2>1. PICK where \in {"scan", "load"} : pc' = [pc EXCEPT ![t] = where]
    BY <1>2 DEF Scan, CacheMiss, Load, ScanOver
  <2>2. Reading(t) /\ UNCHANGED <<path, platter, touched, stale, may>>
    BY <1>2 DEF Scan, CacheMiss, Load, ScanOver, Reading
  <2>3. \A u \in Threads : u # t => items'[u] = items[u]
    BY <1>2 DEF Scan, CacheMiss, Load, ScanOver
  <2>4. phase' = phase
    BY <2>1, <2>2 DEF phase, PhaseOf, Reading
  <2>5. answer' = answer /\ cred' = cred /\ durable' = durable
    BY <2>1, <2>2, <2>3, AnswerStays, CredStays DEF Reading
  <2> QED BY <2>2, <2>4, <2>5 DEF Abs!vars
<1>3. ASSUME CacheHit(t) \/ Fill(t) \/ FillEmpty(t) PROVE Abs!EndRead(t)
  <2>1. /\ pc[t] \in {"scan", "load"} /\ pc' = [pc EXCEPT ![t] = "answered"]
        /\ \A u \in Threads : u # t => items'[u] = items[u]
        /\ UNCHANGED <<path, platter, touched, stale, may>>
    BY <1>3 DEF CacheHit, Fill, FillEmpty, Answer, ScanOver
  <2>2. phase[t] = "reading" /\ phase' = [phase EXCEPT ![t] = "answered"]
    BY <2>1, PhaseMoves DEF phase, PhaseOf
  <2>3. ReadsAreExact'
    BY <1>3, ReadStep DEF Read, Coherence
  <2>4. items'[t] \in [Labels -> File]
    BY <1>3 DEF CacheHit, Fill, FillEmpty
  <2>5. \A l \in Labels : items'[t][l] \in may[t][l] \/ (Overlooks /\ items'[t][l] = NoFile)
    <3>1. \A l \in Labels : items'[t][l] \in may'[t][l] \/ (items'[t][l] = NoFile /\ l \in blind'[t])
      BY <2>1, <2>3 DEF ReadsAreExact
    <3>2. Overlooks \/ blind'[t] = {}
      BY DEF Sighted, Overlooking, Overlooks
    <3> QED BY <2>1, <3>1, <3>2
  <2>6. items'[t] \in [Labels -> {NoFile} \cup UNION { may[t][l] : l \in Labels }]
    BY <2>4, <2>5
  <2>7. answer' = [answer EXCEPT ![t] = items'[t]]
    BY <2>1 DEF answer
  <2>8. cred' = cred /\ durable' = durable
    BY <2>1, CredStays
  <2> QED BY <2>1, <2>2, <2>5, <2>6, <2>7, <2>8 DEF Abs!EndRead, Abs!Enter
<1>4. ASSUME ReaddirThrows(t) PROVE Abs!Fail(t) \/ Abs!FailRead(t)
  <2>1. CASE Reading(t)
    <3>1. phase[t] = "reading" /\ phase' = [phase EXCEPT ![t] = "done"]
      BY <1>4, <2>1, PhaseMoves DEF ReaddirThrows, Reading, phase, PhaseOf
    <3>2. answer' = answer /\ cred' = cred /\ durable' = durable
      BY <1>4, <2>1, AnswerStays, CredStays DEF ReaddirThrows
    <3> QED BY <1>4, <2>1, <3>1, <3>2 DEF ReaddirThrows, Abs!FailRead, Abs!Enter
  <2>2. CASE ~Reading(t)
    BY <1>4, <2>2, FailStep DEF ReaddirThrows, Reading
  <2> QED BY <2>1, <2>2
<1> QED BY <1>1, <1>2, <1>3, <1>4 DEF Read, Abs!Next

LEMMA CrashRefines ==
    ASSUME Inv, Crash
    PROVE  Abs!Crash
<1> USE DEF Inv, TypeInv, TypeOK, Crash
<1>3. phase' = [t \in Threads |-> IF phase[t] = "idle" THEN "idle" ELSE "done"]
  BY DEF phase, PhaseOf, PCs
<1>4. answer' = [t \in Threads |-> [l \in Labels |-> NoFile]]
  BY DEF answer
<1>1. CASE UNCHANGED <<path, ptime, platter>>
  <2>1. cred' = cred /\ durable' = durable
    BY <1>1, CredStays
  <2> QED BY <1>3, <1>4, <2>1 DEF Abs!Crash, Abs!None
<1>2. CASE PowerLoss
  <2>1. \A l \in Labels : cred'[l] = load_enrollment(path'[l]) /\ cred'[l] \in durable[l]
    BY <1>2 DEF PowerLoss, cred, durable
  <2>2. cred' \in [Labels -> UNION { durable[l] : l \in Labels }]
    BY <2>1 DEF cred
  <2>3. \A l \in Labels : { load_enrollment(f) : f \in platter'[l] } = {cred'[l]}
    <3> TAKE l \in Labels
    <3>1. platter'[l] = {path'[l]}
      BY <1>2 DEF PowerLoss
    <3>2. { load_enrollment(f) : f \in platter'[l] } = { load_enrollment(f) : f \in {path'[l]} }
      BY <3>1
    <3>3. cred'[l] = load_enrollment(path'[l])
      BY <2>1
    <3> QED BY <3>2, <3>3, LoadsOne, Zenon
  <2>4. durable' = [l \in Labels |-> {cred'[l]}]
    BY <2>3 DEF durable
  <2>5. LosesPower
    BY <1>2 DEF PowerLoss, LosesPower
  <2> QED BY <1>3, <1>4, <2>1, <2>2, <2>4, <2>5 DEF Abs!Crash, Abs!PowerFails, Abs!None
<1> QED BY <1>1, <1>2

LEMMA WritebackRefines ==
    ASSUME Inv, NEW l \in Labels, Writeback(l)
    PROVE  Abs!Persist(l)
<1> USE DEF Inv, TypeInv, TypeOK
<1>1. platter' = [platter EXCEPT ![l] = {path[l]}]
      /\ UNCHANGED <<path, pc, items, touched, stale, may>>
  BY DEF Writeback, locals, history
<1>2. cred' = cred /\ phase' = phase /\ answer' = answer
  BY <1>1 DEF cred, phase, answer
<1>3. durable' = [durable EXCEPT ![l] = {cred[l]}]
  <2>1. { load_enrollment(f) : f \in platter'[l] } = {cred[l]}
    BY <1>1 DEF cred
  <2>2. \A k \in Labels : k # l => platter'[k] = platter[k]
    BY <1>1
  <2> QED BY <2>1, <2>2 DEF durable
<1> QED BY <1>1, <1>2, <1>3 DEF Abs!Persist

\* The store of the daemon, with its files, its cache and its lock, implements the
\* abstract credential store: changes are atomic, lookups see them (and overlook a
\* credential only where reads can fail), and a power failure, which undoes renames and
\* unlinks that were not written back, brings back nothing older than that.
THEOREM StoreImplements ==
    ASSUME SharedLabel = "no"
    PROVE  Spec => ImplementsCredentialStore
<1>1. Init => Abs!Init
  <2>1. ASSUME Init PROVE durable = [l \in Labels |-> {NoFile}]
    BY <2>1 DEF Init, durable, load_enrollment
  <2> QED BY <2>1 DEF Init, Abs!Init, Abs!None, cred, phase, answer, PhaseOf, load_enrollment
<1>2. ASSUME Inv, Sighted', [Next]_vars PROVE [Abs!Next]_(Abs!vars)
  <2>1. ASSUME Tick \/ UNCHANGED vars PROVE UNCHANGED Abs!vars
    <3>1. UNCHANGED <<path, platter, pc, items, touched, stale, may>>
      BY <2>1 DEF Tick, vars, disk, locals, history
    <3> QED BY <3>1 DEF Abs!vars, cred, durable, phase, answer
  <2>2. ASSUME NEW t \in Threads, Erase(t) PROVE Abs!Next
    BY <1>2, <2>2, EraseRefines DEF Abs!Next
  <2>3. ASSUME Crash PROVE Abs!Next
    BY <1>2, <2>3, CrashRefines DEF Abs!Next
  <2>4. ASSUME NEW l \in Labels, Writeback(l) PROVE Abs!Next
    BY <1>2, <2>4, WritebackRefines DEF Abs!Next
  <2> QED BY <1>2, <2>1, <2>2, <2>3, <2>4, SaveRefines, RemovalRefines, ReadRefines DEF Next
<1>3. Spec => []Inv
  BY TmpAlways, CoherenceAlways, PTL DEF Inv
<1> QED BY <1>1, <1>2, <1>3, SightedAlways, PTL DEF Spec, ImplementsCredentialStore, Abs!Spec
=============================================================================
