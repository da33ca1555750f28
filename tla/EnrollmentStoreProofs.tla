----------------------- MODULE EnrollmentStoreProofs -----------------------
(***************************************************************************)
(* The safety properties of EnrollmentStore, for any number of threads and *)
(* labels and any clock, as long as no two saves of one label overlap and  *)
(* nobody but the daemon changes the directory.                            *)
(***************************************************************************)
EXTENDS EnrollmentStore, TLAPS

(* A saver's open file has a name until somebody replaces or unlinks it. *)
OpenFile ==
    \A t \in Threads :
       /\ pc[t] \in {"write", "flush", "rename"} => label[t] \in Labels
       /\ file[t] = "tmp" => label[t] \in Labels /\ tmp[label[t]] # NoFile
       /\ file[t] = "path" => label[t] \in Labels /\ path[label[t]] # NoFile

TypeInv == TypeOK /\ OpenFile

LEMMA PutType ==
    ASSUME NEW f \in Content, NEW t \in Threads, NEW part
    PROVE  Put(f, part, t) \in Content
BY DEF Put, Content

LEMMA LoadType == ASSUME NEW f \in File PROVE load_enrollment(f) \in File
BY DEF load_enrollment, File

HistoryType ==
    /\ touched \in [Threads -> SUBSET Labels]
    /\ stale \in [Labels -> SUBSET File]
    /\ may \in [Threads -> [Labels -> SUBSET File]]
    /\ blind \in [Threads -> SUBSET Labels] /\ missing \in SUBSET Labels

PlatterType ==
    platter \in [Labels -> SUBSET File] /\ \A l \in Labels : path[l] \in platter[l]

LEMMA TornType == Torn \in Content /\ Torn \in File /\ Torn # NoFile
BY StoreAssumption DEF Torn, Content, File

LEMMA ChangesType ==
    ASSUME TypeInv, NEW t \in Threads, NEW l \in Labels, path' \in [Labels -> File],
           \A k \in Labels : k # l => path'[k] = path[k],
           Changes(t, l)
    PROVE  HistoryType' /\ PlatterType'
<1> USE DEF TypeInv, TypeOK, HistoryType, Changes
<1>1. load_enrollment(path[l]) \in File /\ load_enrollment(path'[l]) \in File
  BY LoadType
<1>2. touched' \in [Threads -> SUBSET Labels] /\ stale' \in [Labels -> SUBSET File]
  BY <1>1
<1>3. \A u \in Threads :
         [may[u] EXCEPT ![l] = @ \cup {load_enrollment(path'[l])}] \in [Labels -> SUBSET File]
  BY <1>1
<1>4. may' \in [Threads -> [Labels -> SUBSET File]]
  BY <1>3
<1>5. PlatterType'
  <2>1. platter[l] \cup {path'[l]} \cup (IF path'[l] = NoFile THEN {} ELSE {Torn}) \in SUBSET File
    BY TornType
  <2> QED BY <2>1 DEF PlatterType
<1> QED BY <1>2, <1>4, <1>5

LEMMA WriteType ==
    ASSUME TypeInv, NEW t \in Threads, NEW part, label[t] \in Labels,
           WritePart(t, label[t], part)
    PROVE  /\ path' \in [Labels -> File] /\ ptime' \in [Labels -> 0 .. MaxTime]
           /\ tmp' \in [Labels -> File] /\ ttime' \in [Labels -> 0 .. MaxTime]
           /\ HistoryType' /\ PlatterType'
           /\ \A l \in Labels : path[l] # NoFile => path'[l] # NoFile
           /\ \A l \in Labels : tmp[l] # NoFile => tmp'[l] # NoFile
<1> USE StoreAssumption DEF TypeInv, TypeOK, OpenFile
<1>1. \A f \in File : f # NoFile => Put(f, part, t) \in Content
  BY PutType DEF File
<1>2. \A f \in Content : f \in File /\ f # NoFile
  BY DEF File, Content
<1>3. CASE file[t] = "tmp" /\ UNCHANGED <<path, ptime, platter, history>>
           /\ tmp' = [tmp EXCEPT ![label[t]] = Put(@, part, t)]
           /\ ttime' = [ttime EXCEPT ![label[t]] = clock]
  <2>1. Put(tmp[label[t]], part, t) \in Content
    BY <1>1, <1>3
  <2> QED BY <1>2, <1>3, <2>1 DEF history, HistoryType, PlatterType
<1>4. CASE file[t] = "path" /\ UNCHANGED <<tmp, ttime>>
           /\ path' = [path EXCEPT ![label[t]] = Put(@, part, t)]
           /\ ptime' = [ptime EXCEPT ![label[t]] = clock]
           /\ Changes(t, label[t])
  <2>1. Put(path[label[t]], part, t) \in Content
    BY <1>1, <1>4
  <2>2. path' \in [Labels -> File]
    BY <1>2, <1>4, <2>1
  <2>3. HistoryType' /\ PlatterType'
    BY <1>4, <2>2, ChangesType
  <2> QED BY <1>2, <1>4, <2>1, <2>3
<1>5. CASE UNCHANGED <<disk, history>>
  BY <1>5 DEF disk, history, HistoryType, PlatterType
<1> QED BY <1>3, <1>4, <1>5 DEF WritePart

LEMMA UnlinkType ==
    ASSUME TypeInv, NEW t \in Threads, NEW l \in Labels, Unlink(t, l)
    PROVE  /\ path' \in [Labels -> File]
           /\ file' \in [Threads -> {"tmp", "path", "gone"}]
           /\ HistoryType' /\ PlatterType'
           /\ \A u \in Threads : file'[u] = "tmp" => file[u] = "tmp"
           /\ \A u \in Threads :
                 file'[u] = "path" => file[u] = "path" /\ path'[label[u]] # NoFile
<1> USE DEF TypeInv, TypeOK, OpenFile
<1>1. path' \in [Labels -> File] /\ file' \in [Threads -> {"tmp", "path", "gone"}]
  BY DEF Unlink, Rebind, File
<1>2. HistoryType' /\ PlatterType'
  <2>1. CASE path[l] # NoFile
    BY <1>1, <2>1, ChangesType DEF Unlink
  <2>2. CASE path[l] = NoFile
    BY <2>2 DEF Unlink, history, HistoryType, PlatterType
  <2> QED BY <2>1, <2>2
<1>3. \A u \in Threads : /\ file'[u] = "tmp" => file[u] = "tmp"
                         /\ file'[u] = "path" => file[u] = "path" /\ path'[label[u]] # NoFile
  BY DEF Unlink, Rebind
<1> QED BY <1>1, <1>2, <1>3

LEMMA TypeStep ==
    ASSUME TypeInv, [Next]_vars
    PROVE  TypeInv'
<1> USE StoreAssumption DEF TypeInv, TypeOK, OpenFile, PCs, disk, cache, locals, history,
                              HistoryType, PlatterType, Goto
<1>1. ASSUME NEW t \in Threads, NEW l \in Labels, SaveOpen(t, l) PROVE TypeInv'
  BY <1>1, TornType DEF SaveOpen
<1>2. ASSUME NEW t \in Threads, SaveWrite(t) PROVE TypeInv'
  BY <1>2, WriteType DEF SaveWrite
<1>3. ASSUME NEW t \in Threads, SaveFlush(t) PROVE TypeInv'
  <2>1. CASE WritePart(t, label[t], "body")
    BY <1>3, <2>1, WriteType DEF SaveFlush
  <2>2. CASE UNCHANGED <<disk, history>>
    BY <1>3, <2>2 DEF SaveFlush
  <2> QED BY <1>3, <2>1, <2>2 DEF SaveFlush
<1>4. ASSUME NEW t \in Threads, SaveRename(t) PROVE TypeInv'
  <2> DEFINE l == label[t]
  <2>1. l \in Labels /\ tmp[l] \in File /\ tmp[l] # NoFile
    BY <1>4 DEF SaveRename
  <2>2. /\ path' = [path EXCEPT ![l] = tmp[l]] /\ ptime' = [ptime EXCEPT ![l] = ttime[l]]
        /\ tmp' = [tmp EXCEPT ![l] = NoFile]
        /\ Rebind(l, "path") /\ NewEntry(l) /\ Changes(t, l)
        /\ pc' = [pc EXCEPT ![t] = "erase"]
        /\ UNCHANGED <<ttime, clock, cached, cmtime, citems, mu, label, mt, items>>
    BY <1>4 DEF SaveRename
  <2> HIDE DEF l
  <2>3. todo' \in [Threads -> SUBSET Labels]
    <3>1. CASE path[l] # NoFile
      BY <2>2, <3>1 DEF NewEntry
    <3>2. CASE path[l] = NoFile
      <4>1. PICK met \in SUBSET Threads :
               todo' = [u \in Threads |-> IF u \in met THEN todo[u] \cup {l} ELSE todo[u]]
        BY <2>2, <3>2 DEF NewEntry
      <4> QED BY <2>1, <4>1
    <3> QED BY <3>1, <3>2
  <2>4. HistoryType' /\ PlatterType'
    <3>1. path' \in [Labels -> File]
      BY <2>1, <2>2
    <3> QED BY <2>1, <2>2, <3>1, ChangesType
  <2>5. file' \in [Threads -> {"tmp", "path", "gone"}]
    BY <2>2 DEF Rebind
  <2>6. TypeOK'
    BY <2>1, <2>2, <2>3, <2>4, <2>5 DEF File
  <2>7. \A u \in Threads : /\ file'[u] = "tmp" => label[u] # l /\ file[u] = "tmp"
                           /\ file'[u] = "path" => \/ label[u] = l
                                                   \/ label[u] # l /\ file[u] = "path"
    BY <2>2 DEF Rebind
  <2>8. OpenFile'
    BY <2>1, <2>2, <2>7
  <2> QED BY <2>6, <2>8
<1>5. ASSUME NEW t \in Threads, SaveThrow(t) PROVE TypeInv'
  BY <1>5 DEF SaveThrow
<1>6. ASSUME NEW t \in Threads, NEW l \in Labels, Remove(t, l) PROVE TypeInv'
  <2>1. CASE Unlink(t, l)
    BY <1>6, <2>1, UnlinkType DEF Remove
  <2>2. CASE UNCHANGED <<path, platter, file, history>>
    BY <1>6, <2>2 DEF Remove
  <2> QED BY <1>6, <2>1, <2>2 DEF Remove
<1>18. ASSUME NEW t \in Threads, NEW l \in Labels, RemoveAcross(t, l) PROVE TypeInv'
  BY <1>18, UnlinkType DEF RemoveAcross
<1>19. ASSUME NEW t \in Threads, EraseOther(t) PROVE TypeInv'
  BY <1>19 DEF EraseOther
<1>7. ASSUME NEW t \in Threads, RemoveAll(t) PROVE TypeInv'
  <2>1. CASE Goto(t, "removing") /\ todo' = [todo EXCEPT ![t] = Present]
    BY <1>7, <2>1 DEF RemoveAll, Present
  <2>2. ASSUME (pc' = [pc EXCEPT ![t] = "done"] \/ pc' = [pc EXCEPT ![t] = "erase"]),
               UNCHANGED todo
        PROVE  TypeInv'
    <3>1. UNCHANGED <<disk, clock, cache, mu, label, file, mt, items, history>>
      BY <1>7 DEF RemoveAll
    <3>2. /\ pc' \in [Threads -> PCs]
          /\ \A u \in Threads : pc'[u] = pc[u] \/ pc'[u] \in {"done", "erase"}
      BY <2>2
    <3> QED BY <2>2, <3>1, <3>2
  <2> QED BY <1>7, <2>1, <2>2 DEF RemoveAll
<1>8. ASSUME NEW t \in Threads, RemoveAllStep(t) PROVE TypeInv'
  <2>1. PICK l \in todo[t] : Unlink(t, l) /\ todo' = [todo EXCEPT ![t] = @ \ {l}]
    BY <1>8 DEF RemoveAllStep
  <2>2. l \in Labels
    BY <2>1
  <2> QED BY <1>8, <2>1, <2>2, UnlinkType DEF RemoveAllStep
<1>9. ASSUME NEW t \in Threads, RemoveAllEnd(t) \/ Erase(t) PROVE TypeInv'
  <2>1. CASE RemoveAllEnd(t)
    BY <2>1 DEF RemoveAllEnd
  <2>2. CASE Erase(t)
    BY <2>2 DEF Erase, Uncached
  <2> QED BY <1>9, <2>1, <2>2
<1>10. ASSUME NEW t \in Threads, ForUid(t) PROVE TypeInv'
  <2>1. [l \in Labels |-> stale[l] \cup {load_enrollment(path[l])}] \in [Labels -> SUBSET File]
    BY LoadType
  <2> QED BY <1>10, <2>1 DEF ForUid, Present
<1>11. ASSUME NEW t \in Threads, Scan(t) PROVE TypeInv'
  <2>1. PICK l \in todo[t] :
           /\ todo' = [todo EXCEPT ![t] = @ \ {l}]
           /\ mt' = [mt EXCEPT ![t] = IF path[l] # NoFile /\ ptime[l] > @ THEN ptime[l] ELSE @]
    BY <1>11 DEF Scan
  <2>2. l \in Labels /\ ptime[l] \in -1 .. MaxTime
    BY <2>1
  <2>3. mt' \in [Threads -> -1 .. MaxTime]
    BY <2>1, <2>2
  <2>4. todo' \in [Threads -> SUBSET Labels]
    BY <2>1
  <2> QED BY <1>11, <2>3, <2>4 DEF Scan
<1>20. ASSUME NEW t \in Threads, Answer(t)
       PROVE  /\ todo' \in [Threads -> SUBSET Labels] /\ mt' \in [Threads -> -1 .. MaxTime]
              /\ mu' \in Threads \cup {NoOne} /\ pc' \in [Threads -> PCs]
              /\ \A u \in Threads : pc'[u] \in {"write", "flush", "rename"} => pc'[u] = pc[u]
  BY <1>20 DEF Answer
<1>12. ASSUME NEW t \in Threads, CacheHit(t) \/ CacheMiss(t) PROVE TypeInv'
  <2>1. CASE CacheHit(t)
    BY <1>20, <2>1 DEF CacheHit, Answer
  <2>2. CASE CacheMiss(t)
    BY <2>2 DEF CacheMiss, Present, ScanOver
  <2> QED BY <1>12, <2>1, <2>2
<1>13. ASSUME NEW t \in Threads, Load(t) PROVE TypeInv'
  <2>1. \A f \in File : load_enrollment(f) \in File
    BY LoadType
  <2>2. PICK l \in todo[t] :
           /\ \/ items' = [items EXCEPT ![t][l] = load_enrollment(path[l])] /\ UNCHANGED blind
              \/ blind' = [blind EXCEPT ![t] = @ \cup {l}] /\ UNCHANGED items
           /\ todo' = [todo EXCEPT ![t] = @ \ {l}]
    BY <1>13 DEF Load
  <2>3. l \in Labels /\ load_enrollment(path[l]) \in File
    BY <2>1, <2>2
  <2>4. CASE items' = [items EXCEPT ![t][l] = load_enrollment(path[l])] /\ UNCHANGED blind
    BY <1>13, <2>2, <2>3, <2>4 DEF Load
  <2>5. CASE blind' = [blind EXCEPT ![t] = @ \cup {l}] /\ UNCHANGED items
    BY <1>13, <2>2, <2>3, <2>5 DEF Load
  <2> QED BY <1>13, <2>2, <2>4, <2>5 DEF Load
<1>14. ASSUME NEW t \in Threads, Fill(t) \/ FillEmpty(t) PROVE TypeInv'
  <2>1. CASE Fill(t)
    BY <1>20, <2>1 DEF Fill, Answer
  <2>2. CASE FillEmpty(t)
    BY <1>20, <2>2 DEF FillEmpty, Answer, Present
  <2> QED BY <1>14, <2>1, <2>2
<1>21. ASSUME NEW l \in Labels, Writeback(l) PROVE TypeInv'
  BY <1>21 DEF Writeback
<1>15. ASSUME Tick \/ UNCHANGED vars PROVE TypeInv'
  BY <1>15 DEF Tick, vars
<1>16. ASSUME Crash PROVE TypeInv'
  <2>1. CASE PowerLoss
    <3>1. path' \in [Labels -> File] /\ ptime' \in [Labels -> 0 .. MaxTime]
      BY <2>1 DEF PowerLoss
    <3>2. platter' \in [Labels -> SUBSET File] /\ \A l \in Labels : path'[l] \in platter'[l]
      BY <2>1, <3>1 DEF PowerLoss
    <3> QED BY <1>16, <3>1, <3>2 DEF Crash
  <2>2. CASE UNCHANGED <<path, ptime, platter>>
    BY <1>16, <2>2 DEF Crash
  <2> QED BY <1>16, <2>1, <2>2 DEF Crash
<1>17. ASSUME NEW t \in Threads, ReaddirThrows(t) PROVE TypeInv'
  <2>1. CASE Reading(t)
    <3>1. [l \in Labels |-> NoFile] \in [Labels -> File] /\ -1 \in -1 .. MaxTime
      BY DEF File
    <3>2. /\ items' = [items EXCEPT ![t] = [l \in Labels |-> NoFile]]
          /\ mt' = [mt EXCEPT ![t] = -1]
      BY <1>17, <2>1 DEF ReaddirThrows
    <3>5. items' \in [Threads -> [Labels -> File]]
      <4> HIDE DEF File
      <4> QED BY <3>1, <3>2
    <3>6. mt' \in [Threads -> -1 .. MaxTime]
      BY <3>1, <3>2
    <3>3. [l \in Labels |-> {}] \in [Labels -> SUBSET File]
      OBVIOUS
    <3>4. may' \in [Threads -> [Labels -> SUBSET File]]
      BY <1>17, <2>1, <3>3 DEF ReaddirThrows
    <3> QED BY <1>17, <2>1, <3>4, <3>5, <3>6 DEF ReaddirThrows
  <2>2. CASE ~Reading(t)
    BY <1>17, <2>2 DEF ReaddirThrows
  <2> QED BY <2>1, <2>2
<1> QED
  BY <1>1, <1>2, <1>3, <1>4, <1>5, <1>6, <1>7, <1>8, <1>9, <1>10, <1>11, <1>12, <1>13, <1>14,
     <1>15, <1>16, <1>17, <1>18, <1>19, <1>21 DEF Next, Save, Removal, Read

LEMMA TypeAlways == Spec => []TypeInv
<1>1. Init => TypeInv
  BY StoreAssumption DEF Init, TypeInv, TypeOK, OpenFile, PCs, File
<1>2. TypeInv /\ [Next]_vars => TypeInv'
  BY TypeStep
<1> QED BY <1>1, <1>2, PTL DEF Spec

\* Every state is well typed, under every fault, crash and interleaving.
THEOREM StoreTypeCorrect == Spec => []TypeOK
BY TypeAlways, PTL DEF TypeInv

-----------------------------------------------------------------------------
(* With one save per label at a time, every saver owns its .tmp file from the open
   to the rename, and nobody writes to a file that already has its final name. *)
InSave == {"write", "flush", "rename"}

Exclusive ==
    /\ \A t, u \in Threads :
          t # u /\ pc[t] \in InSave /\ pc[u] \in InSave => label[t] # label[u]
    /\ \A t \in Threads : IF pc[t] \in {"write", "flush"} THEN file[t] = "tmp"
                                                          ELSE file[t] = "gone"

\* What thread t leaves in a file: all of it, unless its last flush is lost.
SavedBy(f, t) ==
    /\ f \in Content /\ f.hdr = t /\ f.body \in {t, NoOne}
    /\ "flush" \notin Faults => f.body = t

\* The .tmp file holds what its saver has written so far, and nothing older.
TmpHeld ==
    \A t \in Threads :
       /\ pc[t] = "write" => tmp[label[t]].body = NoOne
       /\ pc[t] = "flush" => tmp[label[t]].hdr = t /\ tmp[label[t]].body = NoOne
       /\ pc[t] = "rename" => SavedBy(tmp[label[t]], t)

\* Steps that leave the savers alone.
NoSaver ==
    /\ UNCHANGED <<label, file, tmp>>
    /\ \A u \in Threads : pc'[u] = pc[u] \/ (pc[u] \notin InSave /\ pc'[u] \notin InSave)

LEMMA NoSaverStep ==
    ASSUME TypeInv, Exclusive, [Next]_vars,
           SharedLabel = "no"
    PROVE  \/ NoSaver
           \/ Crash
           \/ \E t \in Threads : \/ \E l \in Labels : SaveOpen(t, l)
                                 \/ SaveWrite(t) \/ SaveFlush(t) \/ SaveRename(t) \/ SaveThrow(t)
<1> USE DEF NoSaver, TypeInv, TypeOK, InSave, disk, locals, Goto, history
<1>1. ASSUME NEW t \in Threads, NEW l \in Labels, Unlink(t, l) PROVE UNCHANGED file
  BY <1>1 DEF Unlink, Rebind, Exclusive
<1>2. ASSUME NEW t \in Threads, NEW l \in Labels, Remove(t, l) PROVE NoSaver
  BY <1>1, <1>2 DEF Remove
<1>3. ASSUME NEW t \in Threads, RemoveAllStep(t) PROVE NoSaver
  BY <1>1, <1>3 DEF RemoveAllStep
<1>4. ASSUME NEW t \in Threads, RemoveAll(t) \/ RemoveAllEnd(t) \/ Erase(t) PROVE NoSaver
  BY <1>4 DEF RemoveAll, RemoveAllEnd, Erase
<1>8. ASSUME NEW t \in Threads, NEW l \in Labels, RemoveAcross(t, l) PROVE NoSaver
  BY <1>1, <1>8 DEF RemoveAcross
<1>9. ASSUME NEW t \in Threads, EraseOther(t) PROVE NoSaver
  BY <1>9 DEF EraseOther
<1>10. ASSUME NEW l \in Labels, Writeback(l) PROVE NoSaver
  BY <1>10 DEF Writeback
<1>5. ASSUME NEW t \in Threads, Read(t) PROVE NoSaver
  BY <1>5 DEF Read, ForUid, Scan, CacheHit, CacheMiss, Load, Fill, FillEmpty, ScanOver, Answer
<1>6. ASSUME Tick \/ UNCHANGED vars PROVE NoSaver
  BY <1>6 DEF Tick, vars
<1>7. ASSUME NEW t \in Threads, ReaddirThrows(t) PROVE NoSaver
  BY <1>7 DEF ReaddirThrows
<1> QED
  BY <1>2, <1>3, <1>4, <1>5, <1>6, <1>7, <1>8, <1>9, <1>10 DEF Next, Save, Removal

LEMMA ExclusiveStep ==
    ASSUME TypeInv, Exclusive, [Next]_vars,
           SharedLabel = "no"
    PROVE  Exclusive'
<1> USE DEF Exclusive, TypeInv, TypeOK, InSave, Goto, locals
<1>1. CASE NoSaver
  BY <1>1 DEF NoSaver
<1>2. CASE Crash
  BY <1>2 DEF Crash
<1>3. ASSUME NEW t \in Threads, NEW l \in Labels, SaveOpen(t, l) PROVE Exclusive'
  BY <1>3 DEF SaveOpen, Writing
<1>4. ASSUME NEW t \in Threads, SaveWrite(t) PROVE Exclusive'
  BY <1>4 DEF SaveWrite
<1>5. ASSUME NEW t \in Threads, SaveFlush(t) PROVE Exclusive'
  BY <1>5 DEF SaveFlush
<1>6. ASSUME NEW t \in Threads, SaveRename(t) PROVE Exclusive'
  <2>1. /\ pc[t] = "rename" /\ pc' = [pc EXCEPT ![t] = "erase"]
        /\ Rebind(label[t], "path") /\ label' = label
    BY <1>6 DEF SaveRename
  <2>2. file' = file
    BY <2>1 DEF Rebind
  <2> QED BY <2>1, <2>2
<1>7. ASSUME NEW t \in Threads, SaveThrow(t) PROVE Exclusive'
  BY <1>7 DEF SaveThrow
<1> QED BY <1>1, <1>2, <1>3, <1>4, <1>5, <1>6, <1>7, NoSaverStep

LEMMA ExclusiveAlways ==
    ASSUME SharedLabel = "no"
    PROVE  Spec => [](TypeInv /\ Exclusive)
<1>1. Init => Exclusive
  BY DEF Init, Exclusive, InSave
<1>2. TypeInv /\ Exclusive /\ [Next]_vars => Exclusive'
  BY ExclusiveStep
<1> QED BY <1>1, <1>2, TypeAlways, PTL DEF Spec

-----------------------------------------------------------------------------
\* How the file of a label can change in one step, ...
FileStep(l) ==
    \/ path'[l] \in {path[l], NoFile}
    \/ "power" \in Faults /\ path'[l] \in platter[l]
    \/ \E t \in Threads : SavedBy(path'[l], t)

\* ... and what the disk may hold of it.
PlatterStep(l) == platter'[l] \subseteq platter[l] \cup {path'[l], Torn}

LEMMA AllPlatterSteps ==
    ASSUME TypeInv, [Next]_vars
    PROVE  \A l \in Labels : PlatterStep(l)
<1> USE DEF TypeInv, TypeOK, PlatterStep
<1>1. ASSUME NEW t \in Threads, NEW k \in Labels, Changes(t, k)
      PROVE  \A l \in Labels : PlatterStep(l)
  BY <1>1 DEF Changes
<1>2. ASSUME platter' = platter PROVE \A l \in Labels : PlatterStep(l)
  BY <1>2
<1>3. ASSUME NEW t \in Threads, NEW l \in Labels, Unlink(t, l)
      PROVE  \A k \in Labels : PlatterStep(k)
  BY <1>1, <1>2, <1>3 DEF Unlink
<1>4. ASSUME NEW t \in Threads, NEW part, label[t] \in Labels, WritePart(t, label[t], part)
      PROVE  \A k \in Labels : PlatterStep(k)
  BY <1>1, <1>2, <1>4 DEF WritePart, disk
<1>5. ASSUME NEW t \in Threads, Save(t) PROVE \A l \in Labels : PlatterStep(l)
  <2>1. CASE SaveWrite(t) \/ SaveFlush(t) \/ SaveRename(t)
    BY <1>1, <1>2, <1>4, <2>1 DEF SaveWrite, SaveFlush, SaveRename, OpenFile, disk
  <2>2. CASE SaveThrow(t) \/ \E l \in Labels : SaveOpen(t, l)
    BY <1>2, <2>2 DEF SaveThrow, SaveOpen, disk
  <2> QED BY <1>5, <2>1, <2>2 DEF Save
<1>6. ASSUME NEW t \in Threads, Removal(t) PROVE \A l \in Labels : PlatterStep(l)
  <2>1. CASE \E l \in Labels : Remove(t, l) \/ RemoveAcross(t, l)
    BY <1>2, <1>3, <2>1 DEF Remove, RemoveAcross
  <2>2. CASE RemoveAllStep(t)
    BY <1>3, <2>2 DEF RemoveAllStep
  <2>3. CASE RemoveAll(t) \/ RemoveAllEnd(t) \/ EraseOther(t)
    BY <1>2, <2>3 DEF RemoveAll, RemoveAllEnd, EraseOther, disk
  <2> QED BY <1>6, <2>1, <2>2, <2>3 DEF Removal
<1>7. ASSUME NEW t \in Threads, Erase(t) \/ Read(t) \/ ReaddirThrows(t)
      PROVE  \A l \in Labels : PlatterStep(l)
  BY <1>2, <1>7 DEF Erase, Read, ForUid, Scan, CacheHit, CacheMiss, Load, Fill, FillEmpty, Answer,
                    ReaddirThrows, disk
<1>8. ASSUME Tick \/ UNCHANGED vars PROVE \A l \in Labels : PlatterStep(l)
  BY <1>2, <1>8 DEF Tick, vars, disk
<1>9. ASSUME NEW k \in Labels, Writeback(k) PROVE \A l \in Labels : PlatterStep(l)
  BY <1>9 DEF Writeback
<1>10. ASSUME Crash PROVE \A l \in Labels : PlatterStep(l)
  BY <1>2, <1>10 DEF Crash, PowerLoss
<1> QED BY <1>5, <1>6, <1>7, <1>8, <1>9, <1>10 DEF Next

LEMMA TmpStep ==
    ASSUME TypeInv, Exclusive, TmpHeld, [Next]_vars, SharedLabel = "no"
    PROVE  TmpHeld' /\ \A l \in Labels : FileStep(l)
<1> USE DEF TypeInv, TypeOK, OpenFile, TmpHeld, FileStep, InSave, Goto, locals, disk, history
<1>1. ASSUME NoSaver PROVE TmpHeld'
  BY <1>1 DEF NoSaver, SavedBy
<1>2. ASSUME NEW t \in Threads, NEW l \in Labels, Unlink(t, l)
      PROVE  \A k \in Labels : FileStep(k)
  BY <1>2 DEF Unlink
<1>3. ASSUME UNCHANGED path PROVE \A l \in Labels : FileStep(l)
  BY <1>3
<1>4. ASSUME Crash PROVE TmpHeld' /\ \A l \in Labels : FileStep(l)
  <2>1. TmpHeld'
    BY <1>4 DEF Crash
  <2>2. \A l \in Labels : FileStep(l)
    BY <1>4 DEF Crash, PowerLoss
  <2> QED BY <2>1, <2>2
<1>5. ASSUME NoSaver PROVE \A l \in Labels : FileStep(l)
  <2>1. ASSUME NEW t \in Threads, Removal(t) PROVE \A l \in Labels : FileStep(l)
    BY <1>2, <1>3, <2>1 DEF Removal, Remove, RemoveAcross, EraseOther, RemoveAll, RemoveAllStep,
                            RemoveAllEnd
  <2>2. ASSUME NEW t \in Threads, Erase(t) \/ Read(t) \/ ReaddirThrows(t)
        PROVE  \A l \in Labels : FileStep(l)
    BY <1>3, <2>2 DEF Erase, Read, ForUid, Scan, CacheHit, CacheMiss, Load, Fill, FillEmpty,
                      Answer, ReaddirThrows
  <2>3. ASSUME Tick \/ UNCHANGED vars \/ \E l \in Labels : Writeback(l)
        PROVE  \A l \in Labels : FileStep(l)
    BY <1>3, <2>3 DEF Tick, vars, Writeback
  <2>4. ASSUME NEW t \in Threads, Save(t) PROVE \A l \in Labels : FileStep(l)
    <3>1. \A l \in Labels : ~SaveOpen(t, l)
      BY <1>5 DEF NoSaver, SaveOpen
    <3>2. ~SaveWrite(t) /\ ~SaveFlush(t) /\ ~SaveRename(t)
      BY <1>5 DEF NoSaver, SaveWrite, SaveFlush, SaveRename
    <3> QED BY <1>3, <2>4, <3>1, <3>2 DEF Save, SaveThrow
  <2> QED BY <1>4, <2>1, <2>2, <2>3, <2>4 DEF Next
<1>6. ASSUME NEW t \in Threads, NEW l \in Labels, SaveOpen(t, l)
      PROVE  TmpHeld' /\ \A k \in Labels : FileStep(k)
  <2>1. /\ label' = [label EXCEPT ![t] = l] /\ pc' = [pc EXCEPT ![t] = "write"]
        /\ tmp' = [tmp EXCEPT ![l] = Torn]
        /\ \A u \in Threads : pc[u] \in InSave => label[u] # l
        /\ UNCHANGED path
    BY <1>6 DEF SaveOpen, Writing
  <2>2. \A u \in Threads : u # t /\ pc'[u] \in InSave
                           => label'[u] = label[u] /\ tmp'[label[u]] = tmp[label[u]]
    BY <2>1
  <2>3. tmp'[label'[t]].body = NoOne
    BY <2>1 DEF Torn
  <2> QED BY <1>3, <2>1, <2>2, <2>3 DEF SavedBy
<1>7. ASSUME NEW t \in Threads, SaveWrite(t) PROVE TmpHeld' /\ \A l \in Labels : FileStep(l)
  <2>1. /\ pc[t] = "write" /\ pc' = [pc EXCEPT ![t] = "flush"] /\ UNCHANGED <<label, path>>
        /\ tmp' = [tmp EXCEPT ![label[t]] = Put(@, "hdr", t)]
    BY <1>7 DEF SaveWrite, WritePart, Exclusive
  <2>2. tmp[label[t]] \in Content /\ tmp[label[t]].body = NoOne
    BY <1>7, <2>1 DEF Exclusive, File
  <2>3. Put(tmp[label[t]], "hdr", t).hdr = t /\ Put(tmp[label[t]], "hdr", t).body = NoOne
    BY <2>2 DEF Put, Content
  <2>4. \A u \in Threads : u # t /\ pc'[u] \in InSave => tmp'[label[u]] = tmp[label[u]]
    BY <2>1 DEF Exclusive
  <2> QED BY <1>3, <2>1, <2>3, <2>4 DEF SavedBy
<1>8. ASSUME NEW t \in Threads, SaveFlush(t) PROVE TmpHeld' /\ \A l \in Labels : FileStep(l)
  <2>1. /\ pc[t] = "flush" /\ pc' = [pc EXCEPT ![t] = "rename"] /\ UNCHANGED <<label, path>>
        /\ \/ tmp' = [tmp EXCEPT ![label[t]] = Put(@, "body", t)]
           \/ "flush" \in Faults /\ tmp' = tmp
    BY <1>8 DEF SaveFlush, WritePart, Exclusive
  <2>2. tmp[label[t]] \in Content /\ tmp[label[t]].hdr = t /\ tmp[label[t]].body = NoOne
    BY <1>8, <2>1 DEF Exclusive, File
  <2>3. SavedBy(Put(tmp[label[t]], "body", t), t)
    BY <2>2 DEF Put, Content, SavedBy
  <2>4. SavedBy(tmp'[label[t]], t)
    BY <2>1, <2>2, <2>3 DEF SavedBy
  <2>5. \A u \in Threads : u # t /\ pc'[u] \in InSave => tmp'[label[u]] = tmp[label[u]]
    BY <2>1 DEF Exclusive
  <2> QED BY <1>3, <2>1, <2>4, <2>5 DEF SavedBy
<1>9. ASSUME NEW t \in Threads, SaveRename(t) PROVE TmpHeld' /\ \A l \in Labels : FileStep(l)
  <2>1. /\ pc[t] = "rename" /\ pc' = [pc EXCEPT ![t] = "erase"] /\ UNCHANGED label
        /\ path' = [path EXCEPT ![label[t]] = tmp[label[t]]]
        /\ tmp' = [tmp EXCEPT ![label[t]] = NoFile]
    BY <1>9 DEF SaveRename
  <2>2. \A u \in Threads : pc'[u] \in InSave => u # t /\ tmp'[label[u]] = tmp[label[u]]
    BY <2>1 DEF Exclusive
  <2>3. TmpHeld'
    BY <2>1, <2>2 DEF SavedBy
  <2>4. SavedBy(tmp[label[t]], t)
    BY <2>1
  <2>5. \A l \in Labels : FileStep(l)
    BY <2>1, <2>4
  <2> QED BY <2>3, <2>5
<1>10. ASSUME NEW t \in Threads, SaveThrow(t) PROVE TmpHeld' /\ \A l \in Labels : FileStep(l)
  BY <1>3, <1>10 DEF SaveThrow, SavedBy
<1> QED BY <1>1, <1>4, <1>5, <1>6, <1>7, <1>8, <1>9, <1>10, NoSaverStep

LEMMA TmpAlways ==
    ASSUME SharedLabel = "no"
    PROVE  Spec => [](TypeInv /\ Exclusive /\ TmpHeld)
<1>1. Init => TmpHeld
  BY DEF Init, TmpHeld
<1>2. TypeInv /\ Exclusive /\ TmpHeld /\ [Next]_vars => TmpHeld'
  BY TmpStep
<1> QED BY <1>1, <1>2, ExclusiveAlways, PTL DEF Spec

\* save_enrollment is atomic: with one save per label at a time, no lost flush and no
\* power failure, every .enc file is one complete save, through any death of the daemon,
\* failed write or failed rename and any interleaving with removals and reads.
THEOREM SaveIsAtomic ==
    ASSUME SharedLabel = "no", "flush" \notin Faults, "power" \notin Faults
    PROVE  Spec => []FilesAreComplete
<1>1. Init => FilesAreComplete
  BY DEF Init, FilesAreComplete
<1>2. ASSUME TypeInv, Exclusive, TmpHeld, FilesAreComplete, [Next]_vars
      PROVE  FilesAreComplete'
  <2>1. \A l \in Labels : FileStep(l)
    BY <1>2, TmpStep
  <2> QED BY <1>2, <2>1, StoreAssumption DEF FileStep, SavedBy, FilesAreComplete
<1> QED BY <1>1, <1>2, TmpAlways, PTL DEF Spec

\* Every version the disk may still hold is a save of one thread, an empty file or none.
PlatterHeld ==
    \A l \in Labels : \A f \in platter[l] :
       f \in {NoFile, Torn} \/ \E t \in Threads : SavedBy(f, t)

LEMMA PlatterAlways ==
    ASSUME SharedLabel = "no"
    PROVE  Spec => [](TypeInv /\ Exclusive /\ TmpHeld /\ PlatterHeld)
<1>1. Init => PlatterHeld
  BY DEF Init, PlatterHeld
<1>2. ASSUME TypeInv, Exclusive, TmpHeld, PlatterHeld, [Next]_vars
      PROVE  PlatterHeld'
  <2>1. \A l \in Labels : FileStep(l) /\ PlatterStep(l) /\ path[l] \in platter[l]
    BY <1>2, TmpStep, AllPlatterSteps DEF TypeInv, TypeOK
  <2>2. ASSUME NEW l \in Labels
        PROVE  path'[l] \in {NoFile, Torn} \/ \E t \in Threads : SavedBy(path'[l], t)
    BY <1>2, <2>1 DEF FileStep, PlatterHeld
  <2>3. ASSUME NEW l \in Labels, NEW f \in platter'[l]
        PROVE  f \in {NoFile, Torn} \/ \E t \in Threads : SavedBy(f, t)
    <3>1. f \in platter[l] \/ f = path'[l] \/ f = Torn
      BY <2>1, <2>3 DEF PlatterStep
    <3> QED BY <1>2, <2>2, <3>1 DEF PlatterHeld
  <2>4. \A f : (\E t \in Threads : SavedBy(f, t)) <=> (\E t \in Threads : SavedBy(f, t)')
    BY DEF SavedBy
  <2> QED BY <2>3, <2>4 DEF PlatterHeld
<1> QED BY <1>1, <1>2, TmpAlways, PTL DEF Spec

\* Under every fault, a lost flush and a power failure included, what load_enrollment
\* accepts is one complete save.
THEOREM NothingMixed ==
    ASSUME SharedLabel = "no"
    PROVE  Spec => []NeverMixed
<1>1. TypeInv /\ PlatterHeld => NeverMixed
  BY StoreAssumption
     DEF TypeInv, TypeOK, PlatterHeld, SavedBy, NeverMixed, load_enrollment, Torn
<1> QED BY <1>1, PlatterAlways, PTL

-----------------------------------------------------------------------------
(* Coherence.  The parts of the inductive invariant: *)

\* What a for_uid that begins now may find for a label.
Current(l) == stale[l] \cup {load_enrollment(path[l])}

\* mu_ is held exactly from the first to the last step of for_uid;
Locked == \A t \in Threads : mu = t <=> Reading(t)

\* a change is outstanding while its call has not dropped the cache, or failed to;
TouchedInside ==
    \A t \in Threads : touched[t] # {} => pc[t] \in {"removing", "erase", "across", "done"}

\* only outstanding changes leave something stale;
StalePending == \A l \in Labels : Pending(l) \/ stale[l] = {}

\* a for_uid that has loaded nothing has an empty list;
NothingLoaded ==
    \A t \in Threads : pc[t] \in {"idle", "scan"} => items[t] = [l \in Labels |-> NoFile]

\* what it has loaded is current, and what it has not loaded it has not come to or could
\* not read;
LoadedCurrent ==
    \A t \in Threads : pc[t] = "load" =>
       \A l \in Labels : \/ items[t][l] \in Current(l)
                         \/ items[t][l] = NoFile /\ l \in todo[t] \cup blind[t]

\* what is cached is current, or could not be read;
CachedCurrent ==
    cached = "yes" =>
       \A l \in Labels : citems[l] \in Current(l) \/ (citems[l] = NoFile /\ l \in missing)

\* and what is current may be answered.
CurrentMay ==
    \A t \in Threads : Reading(t) => \A l \in Labels : Current(l) \subseteq may[t][l]

Coherence ==
    /\ Locked /\ TouchedInside /\ StalePending /\ NothingLoaded
    /\ LoadedCurrent /\ CachedCurrent /\ CurrentMay /\ ReadsAreExact

\* A step of thread t, outside for_uid, that changes path[l].
PathChange(t, l) ==
    /\ \A k \in Labels : k # l => path'[k] = path[k]
    /\ Changes(t, l)
    /\ UNCHANGED <<cached, citems, mu, items>>
    /\ pc[t] \in {"idle", "rename", "removing"}
    /\ \E where \in {"removing", "erase", "across"} : pc' = [pc EXCEPT ![t] = where]
    /\ \A u \in Threads : u # t => todo[u] \subseteq todo'[u]

LEMMA PathChangeStep ==
    ASSUME TypeInv, Coherence, NEW t \in Threads, NEW l \in Labels, PathChange(t, l)
    PROVE  Coherence'
<1> USE DEF TypeInv, TypeOK, PathChange
<1>1. \A k \in Labels : Pending(k) \/ k = l <=> Pending(k)'
  BY DEF Pending, Changes
<1>2. \A u \in Threads : /\ Reading(u) \/ Reading(u)' => u # t /\ pc'[u] = pc[u]
                         /\ pc'[u] = "answered" => u # t /\ pc[u] = "answered"
  BY DEF Reading
<1>3. \A k \in Labels : k # l => Current(k)' = Current(k)
  BY DEF Current, Changes
<1>4. Current(l)' = Current(l) \cup {load_enrollment(path'[l])}
  BY DEF Current, Changes
<1>5. \A u \in Threads : \A k \in Labels :
         IF Reading(u) /\ k = l THEN may'[u][k] = may[u][k] \cup {load_enrollment(path'[l])}
                                ELSE may'[u][k] = may[u][k]
  BY DEF Changes
<1>12. blind' = blind /\ missing' = missing
  BY DEF Changes
<1> HIDE DEF Current
<1>6. Locked' /\ TouchedInside' /\ NothingLoaded'
  BY <1>2 DEF Coherence, Locked, TouchedInside, NothingLoaded, Changes, Reading
<1>7. StalePending'
  BY <1>1 DEF Coherence, StalePending, Changes
<1>8. LoadedCurrent'
  <2> SUFFICES ASSUME NEW u \in Threads, pc'[u] = "load", NEW k \in Labels
               PROVE  \/ items'[u][k] \in Current(k)'
                      \/ items'[u][k] = NoFile /\ k \in todo'[u] \cup blind'[u]
    BY DEF LoadedCurrent
  <2>1. u # t /\ pc[u] = "load" /\ todo[u] \subseteq todo'[u]
    BY <1>2 DEF Reading
  <2>2. Current(k) \subseteq Current(k)'
    BY <1>3, <1>4
  <2> QED BY <1>12, <2>1, <2>2 DEF Coherence, LoadedCurrent
<1>9. CachedCurrent'
  BY <1>3, <1>4, <1>12 DEF Coherence, CachedCurrent
<1>10. CurrentMay'
  BY <1>2, <1>3, <1>4, <1>5, ZenonT(40) DEF Coherence, CurrentMay, Reading
<1>11. ReadsAreExact'
  <2> SUFFICES ASSUME NEW u \in Threads, pc'[u] = "answered", NEW k \in Labels
               PROVE  \/ items'[u][k] \in may'[u][k]
                      \/ items'[u][k] = NoFile /\ k \in blind'[u]
    BY DEF ReadsAreExact
  <2>1. pc[u] = "answered" /\ may[u][k] \subseteq may'[u][k]
    BY <1>2, <1>5
  <2> QED BY <1>12, <2>1 DEF Coherence, ReadsAreExact
<1> QED BY <1>6, <1>7, <1>8, <1>9, <1>10, <1>11 DEF Coherence

\* A step that changes no .enc file and is not one of for_uid.
OffPath ==
    /\ UNCHANGED <<path, cached, citems, mu, items, touched, stale, may, blind, missing>>
    /\ \E t \in Threads :
       \E where \in {"write", "flush", "rename", "removing", "erase", "across", "done"} :
          /\ pc[t] \notin {"scan", "load", "answered"}
          /\ touched[t] # {} => where \in {"removing", "erase", "across", "done"}
          /\ pc' = [pc EXCEPT ![t] = where]
          /\ \A u \in Threads : u # t => todo'[u] = todo[u]

LEMMA OffPathStep ==
    ASSUME TypeInv, Coherence, OffPath
    PROVE  Coherence'
<1> USE DEF TypeInv, TypeOK, OffPath
<1>1. \A k \in Labels : (Pending(k)' <=> Pending(k)) /\ Current(k)' = Current(k)
  BY DEF Pending, Current
<1>2. \A u \in Threads : pc[u] \in {"scan", "load", "answered"} \/ pc'[u] \in {"scan", "load", "answered"}
                         => pc'[u] = pc[u] /\ todo'[u] = todo[u]
  OBVIOUS
<1>3. Locked' /\ TouchedInside' /\ StalePending' /\ NothingLoaded'
  BY <1>1, <1>2 DEF Coherence, Locked, TouchedInside, StalePending, NothingLoaded, Reading
<1>4. LoadedCurrent' /\ CachedCurrent' /\ CurrentMay'
  BY <1>1, <1>2 DEF Coherence, LoadedCurrent, CachedCurrent, CurrentMay, Reading
<1>5. ReadsAreExact'
  BY <1>2 DEF Coherence, ReadsAreExact
<1> QED BY <1>3, <1>4, <1>5 DEF Coherence

LEMMA EraseStep ==
    ASSUME TypeInv, Coherence, NEW t \in Threads, Erase(t)
    PROVE  Coherence'
<1> USE StoreAssumption DEF TypeInv, TypeOK, disk, locals, Goto, Erase, Uncached
<1>1. \A u \in Threads : ~Reading(u) /\ ~Reading(u)'
  BY DEF Coherence, Locked, Reading
<1>2. Locked' /\ LoadedCurrent' /\ CurrentMay' /\ CachedCurrent'
  BY <1>1 DEF Locked, LoadedCurrent, CurrentMay, CachedCurrent, Reading
<1>3. TouchedInside' /\ NothingLoaded' /\ ReadsAreExact'
  BY DEF Coherence, TouchedInside, NothingLoaded, ReadsAreExact
<1>4. StalePending'
  BY DEF StalePending, Pending
<1> QED BY <1>2, <1>3, <1>4 DEF Coherence

LEMMA CrashStep ==
    ASSUME TypeInv, Coherence, Crash
    PROVE  Coherence'
<1> USE StoreAssumption DEF TypeInv, TypeOK, Crash
<1>1. \A u \in Threads : pc'[u] \in {"idle", "done"} /\ (pc'[u] = "idle" => pc[u] = "idle")
  OBVIOUS
<1>2. Locked' /\ TouchedInside' /\ StalePending' /\ ReadsAreExact'
  BY <1>1 DEF Locked, TouchedInside, StalePending, ReadsAreExact, Reading
<1>3. LoadedCurrent' /\ CurrentMay' /\ CachedCurrent'
  BY <1>1 DEF LoadedCurrent, CurrentMay, CachedCurrent, Reading
<1>4. NothingLoaded'
  BY <1>1 DEF Coherence, NothingLoaded
<1> QED BY <1>2, <1>3, <1>4 DEF Coherence

LEMMA ThrowStep ==
    ASSUME TypeInv, Coherence, NEW t \in Threads, ReaddirThrows(t)
    PROVE  Coherence'
<1> USE StoreAssumption DEF TypeInv, TypeOK, disk, cache, Goto, ReaddirThrows
<1>1. \A k \in Labels : (Pending(k)' <=> Pending(k)) /\ Current(k)' = Current(k)
  BY DEF Pending, Current
<1>2. \A u \in Threads : u # t => /\ pc'[u] = pc[u] /\ todo'[u] = todo[u]
                                  /\ items'[u] = items[u] /\ may'[u] = may[u]
                                  /\ blind'[u] = blind[u]
  OBVIOUS
<1>3. pc'[t] = "done" /\ missing' = missing
  OBVIOUS
<1>4. Locked' /\ TouchedInside' /\ StalePending'
  BY <1>1, <1>2, <1>3 DEF Coherence, Locked, TouchedInside, StalePending, Reading
<1>5. LoadedCurrent' /\ CachedCurrent' /\ CurrentMay'
  BY <1>1, <1>2, <1>3 DEF Coherence, LoadedCurrent, CachedCurrent, CurrentMay, Reading
<1>6. NothingLoaded' /\ ReadsAreExact'
  BY <1>2, <1>3 DEF Coherence, NothingLoaded, ReadsAreExact
<1> QED BY <1>4, <1>5, <1>6 DEF Coherence

LEMMA ReadStep ==
    ASSUME TypeInv, Coherence, NEW t \in Threads, Read(t)
    PROVE  Coherence'
<1> USE StoreAssumption DEF TypeInv, TypeOK, disk, cache, locals, history, Goto
<1>1. UNCHANGED <<path, touched, stale>>
  BY DEF Read, ForUid, Scan, CacheHit, CacheMiss, Load, Fill, FillEmpty, Answer
<1>2. \A k \in Labels : (Pending(k)' <=> Pending(k)) /\ Current(k)' = Current(k)
  BY <1>1 DEF Pending, Current
<1>3. StalePending'
  BY <1>1, <1>2 DEF Coherence, StalePending
<1>4. ASSUME ForUid(t) PROVE Coherence'
  <2>1. Locked' /\ TouchedInside' /\ NothingLoaded' /\ CachedCurrent' /\ ReadsAreExact'
    BY <1>2, <1>4 DEF ForUid, Coherence, Locked, TouchedInside, NothingLoaded, CachedCurrent,
                      ReadsAreExact, Reading
  <2>2. LoadedCurrent'
    BY <1>2, <1>4 DEF ForUid, Coherence, LoadedCurrent
  <2>3. \A l \in Labels : may'[t][l] = Current(l)
    BY <1>4 DEF ForUid, Current
  <2>4. CurrentMay'
    BY <1>2, <1>4, <2>3 DEF ForUid, Coherence, CurrentMay, Reading
  <2> QED BY <1>3, <2>1, <2>2, <2>4 DEF Coherence
<1>5. ASSUME Scan(t) PROVE Coherence'
  <2>1. /\ pc[t] = "scan" /\ UNCHANGED <<cached, citems, mu, pc, items, may, blind, missing>>
        /\ \A u \in Threads : u # t => todo'[u] = todo[u]
    BY <1>5 DEF Scan
  <2>2. Locked' /\ TouchedInside' /\ NothingLoaded' /\ CachedCurrent' /\ ReadsAreExact'
    BY <1>1, <1>2, <2>1 DEF Coherence, Locked, TouchedInside, NothingLoaded, CachedCurrent,
                            ReadsAreExact, Reading
  <2>3. LoadedCurrent'
    <3>1. \A u \in Threads : pc'[u] = "load" =>
             pc[u] = "load" /\ todo'[u] = todo[u] /\ items'[u] = items[u] /\ blind'[u] = blind[u]
      BY <2>1
    <3> QED BY <1>2, <3>1 DEF Coherence, LoadedCurrent
  <2>4. CurrentMay'
    BY <1>1, <1>2, <2>1 DEF Coherence, CurrentMay, Reading
  <2> QED BY <1>3, <2>2, <2>3, <2>4 DEF Coherence
<1>10. \A l \in Labels : items[t][l] = NoFile /\ l \notin Present => items[t][l] \in Current(l)
  BY DEF Present, Current, load_enrollment
<1>11. ASSUME Answer(t), pc[t] \in {"scan", "load"},
              \A u \in Threads : u # t => items'[u] = items[u] /\ blind'[u] = blind[u],
              \A l \in Labels : \/ items'[t][l] \in Current(l)
                                \/ items'[t][l] = NoFile /\ l \in blind'[t],
              \/ UNCHANGED <<cached, citems, missing>>
              \/ citems' = items'[t] /\ missing' = blind'[t]
       PROVE  Coherence'
  <2>1. /\ pc' = [pc EXCEPT ![t] = "answered"] /\ mu' = NoOne /\ UNCHANGED may
        /\ \A u \in Threads : u # t => todo'[u] = todo[u]
    BY <1>11 DEF Answer
  <2>2. Locked' /\ TouchedInside' /\ NothingLoaded'
    BY <1>1, <1>11, <2>1 DEF Coherence, Locked, TouchedInside, NothingLoaded, Reading
  <2>3. CurrentMay'
    BY <1>2, <2>1 DEF Coherence, CurrentMay, Reading
  <2>4. LoadedCurrent'
    BY <1>2, <1>11, <2>1 DEF Coherence, LoadedCurrent
  <2>5. CachedCurrent'
    BY <1>2, <1>11 DEF Coherence, CachedCurrent
  <2>6. \A l \in Labels : \/ items'[t][l] \in may'[t][l]
                          \/ items'[t][l] = NoFile /\ l \in blind'[t]
    BY <1>11, <2>1 DEF Coherence, CurrentMay, Reading
  <2>7. ReadsAreExact'
    <3> SUFFICES ASSUME NEW u \in Threads, pc'[u] = "answered", NEW l \in Labels
                 PROVE  \/ items'[u][l] \in may'[u][l]
                        \/ items'[u][l] = NoFile /\ l \in blind'[u]
      BY DEF ReadsAreExact
    <3>1. CASE u = t
      BY <2>6, <3>1
    <3>2. CASE u # t
      BY <1>11, <2>1, <3>2 DEF Coherence, ReadsAreExact
    <3> QED BY <3>1, <3>2
  <2> QED BY <1>3, <2>2, <2>3, <2>4, <2>5, <2>7 DEF Coherence
<1>6. ASSUME CacheHit(t) PROVE Coherence'
  <2>1. Answer(t) /\ pc[t] \in {"scan", "load"} /\ UNCHANGED <<cached, citems, missing>>
    BY <1>6 DEF CacheHit, ScanOver
  <2>2. \A u \in Threads : u # t => items'[u] = items[u] /\ blind'[u] = blind[u]
    BY <1>6 DEF CacheHit
  <2>3. items'[t] = citems /\ blind'[t] = missing /\ cached = "yes"
    BY <1>6 DEF CacheHit
  <2>4. \A l \in Labels : \/ items'[t][l] \in Current(l)
                          \/ items'[t][l] = NoFile /\ l \in blind'[t]
    BY <2>3 DEF Coherence, CachedCurrent
  <2> QED BY <1>11, <2>1, <2>2, <2>4
<1>7. ASSUME CacheMiss(t) PROVE Coherence'
  <2>0. /\ pc[t] = "scan" /\ pc' = [pc EXCEPT ![t] = "load"]
        /\ todo' = [todo EXCEPT ![t] = Present]
        /\ UNCHANGED <<cached, citems, mu, items, may, blind, missing>>
    BY <1>7 DEF CacheMiss, ScanOver
  <2>1. Locked' /\ TouchedInside' /\ NothingLoaded' /\ CachedCurrent' /\ ReadsAreExact'
    BY <1>1, <1>2, <2>0 DEF Coherence, Locked, TouchedInside, NothingLoaded, CachedCurrent,
                            ReadsAreExact, Reading
  <2>2. CurrentMay'
    BY <1>1, <1>2, <2>0 DEF Coherence, CurrentMay, Reading
  <2>3. \A l \in Labels : items[t][l] = NoFile
    BY <2>0 DEF Coherence, NothingLoaded
  <2>4. LoadedCurrent'
    BY <1>1, <1>2, <1>10, <2>0, <2>3 DEF Coherence, LoadedCurrent
  <2> QED BY <1>3, <2>1, <2>2, <2>4 DEF Coherence
<1>8. ASSUME Load(t) PROVE Coherence'
  <2>1. PICK k \in todo[t] :
           /\ \/ items' = [items EXCEPT ![t][k] = load_enrollment(path[k])] /\ UNCHANGED blind
              \/ blind' = [blind EXCEPT ![t] = @ \cup {k}] /\ UNCHANGED items
           /\ todo' = [todo EXCEPT ![t] = @ \ {k}]
    BY <1>8 DEF Load
  <2>2. pc[t] = "load" /\ UNCHANGED <<cached, citems, mu, pc, may, missing>> /\ k \in Labels
    BY <1>8, <2>1 DEF Load
  <2>3. \A u \in Threads : u # t =>
           items'[u] = items[u] /\ blind'[u] = blind[u] /\ todo'[u] = todo[u]
    BY <2>1
  <2>4. Locked' /\ TouchedInside' /\ CachedCurrent'
    BY <1>1, <1>2, <2>2 DEF Coherence, Locked, TouchedInside, CachedCurrent, Reading
  <2>9. \A u \in Threads : pc'[u] # "load" =>
           /\ pc'[u] = pc[u] /\ items'[u] = items[u] /\ blind'[u] = blind[u] /\ may'[u] = may[u]
    BY <2>2, <2>3
  <2>10. NothingLoaded' /\ ReadsAreExact'
    <3>1. NothingLoaded'
      BY <2>9 DEF Coherence, NothingLoaded
    <3>2. ReadsAreExact'
      BY <2>9 DEF Coherence, ReadsAreExact
    <3> QED BY <3>1, <3>2
  <2>5. CurrentMay'
    BY <1>1, <1>2, <2>2 DEF Coherence, CurrentMay, Reading
  <2>6. load_enrollment(path[k]) \in Current(k)
    BY DEF Current
  <2>7. \A l \in Labels : \/ items'[t][l] \in Current(l)
                          \/ items'[t][l] = NoFile /\ l \in todo'[t] \cup blind'[t]
    <3> SUFFICES ASSUME NEW l \in Labels
                 PROVE  \/ items'[t][l] \in Current(l)
                        \/ items'[t][l] = NoFile /\ l \in todo'[t] \cup blind'[t]
      OBVIOUS
    <3>0. \/ items[t][l] \in Current(l)
          \/ items[t][l] = NoFile /\ l \in todo[t] \cup blind[t]
      BY <2>2 DEF Coherence, LoadedCurrent
    <3>1. CASE items' = [items EXCEPT ![t][k] = load_enrollment(path[k])] /\ UNCHANGED blind
      BY <2>1, <2>2, <2>6, <3>0, <3>1
    <3>2. CASE blind' = [blind EXCEPT ![t] = @ \cup {k}] /\ UNCHANGED items
      BY <2>1, <2>2, <3>0, <3>2
    <3> QED BY <2>1, <3>1, <3>2
  <2>8. LoadedCurrent'
    <3>1. ASSUME NEW u \in Threads, pc'[u] = "load", NEW l \in Labels
          PROVE  \/ items'[u][l] \in Current(l)
                 \/ items'[u][l] = NoFile /\ l \in todo'[u] \cup blind'[u]
      <4>1. CASE u = t
        BY <2>7, <4>1
      <4>2. CASE u # t
        BY <2>2, <2>3, <3>1, <4>2 DEF Coherence, LoadedCurrent
      <4> QED BY <4>1, <4>2
    <3> QED BY <1>2, <3>1 DEF LoadedCurrent
  <2> QED BY <1>3, <2>4, <2>5, <2>8, <2>10 DEF Coherence
<1>9. ASSUME Fill(t) PROVE Coherence'
  <2>1. /\ Answer(t) /\ pc[t] \in {"scan", "load"} /\ UNCHANGED <<items, blind>>
        /\ citems' = items[t] /\ missing' = blind[t]
    BY <1>9 DEF Fill
  <2>2. \A l \in Labels : \/ items[t][l] \in Current(l)
                          \/ items[t][l] = NoFile /\ l \in blind[t]
    BY <1>9 DEF Fill, Coherence, LoadedCurrent
  <2> QED BY <1>11, <2>1, <2>2
<1>12. ASSUME FillEmpty(t) PROVE Coherence'
  <2>1. /\ Answer(t) /\ pc[t] = "scan" /\ UNCHANGED items
        /\ citems' = items[t] /\ missing' = Present /\ blind' = [blind EXCEPT ![t] = Present]
    BY <1>12 DEF FillEmpty, ScanOver
  <2>2. \A l \in Labels : items[t][l] = NoFile
    BY <2>1 DEF Coherence, NothingLoaded
  <2>3. \A l \in Labels : \/ items'[t][l] \in Current(l)
                          \/ items'[t][l] = NoFile /\ l \in blind'[t]
    BY <1>10, <2>1, <2>2
  <2>4. /\ \A u \in Threads : u # t => items'[u] = items[u] /\ blind'[u] = blind[u]
        /\ citems' = items'[t] /\ missing' = blind'[t]
    BY <2>1
  <2> QED BY <1>11, <2>1, <2>3, <2>4
<1> QED BY <1>4, <1>5, <1>6, <1>7, <1>8, <1>9, <1>12 DEF Read

LEMMA UnlinkStep ==
    ASSUME TypeInv, Coherence, NEW t \in Threads, NEW l \in Labels, Unlink(t, l),
           UNCHANGED <<cached, citems, mu, items>>,
           pc[t] \in {"idle", "removing"},
           NEW where \in {"removing", "erase", "across"}, pc' = [pc EXCEPT ![t] = where],
           \A u \in Threads : u # t => todo'[u] = todo[u]
    PROVE  Coherence'
<1> USE DEF TypeInv, TypeOK
<1>1. CASE path[l] # NoFile
  <2>1. PathChange(t, l)
    BY <1>1 DEF Unlink, PathChange
  <2> QED BY <2>1, PathChangeStep
<1>2. CASE path[l] = NoFile
  <2>1. path' = path /\ UNCHANGED <<touched, stale, may, blind, missing>>
    BY <1>2 DEF Unlink, history
  <2>2. OffPath
    BY <2>1 DEF OffPath
  <2> QED BY <2>2, OffPathStep
<1> QED BY <1>1, <1>2

\* What a rename does to the entries an iteration still has to come to.
LEMMA RenameEntries ==
    ASSUME TypeInv, NEW t \in Threads, SaveRename(t)
    PROVE  \A u \in Threads : todo[u] \subseteq todo'[u]
<1> USE DEF TypeInv, TypeOK
<1>1. CASE path[label[t]] # NoFile
  BY <1>1 DEF SaveRename, NewEntry
<1>2. CASE path[label[t]] = NoFile
  <2>1. PICK met \in SUBSET Threads :
           todo' = [u \in Threads |-> IF u \in met THEN todo[u] \cup {label[t]} ELSE todo[u]]
    BY <1>2 DEF SaveRename, NewEntry
  <2> QED BY <2>1
<1> QED BY <1>1, <1>2

LEMMA CoherenceStep ==
    ASSUME TypeInv, Exclusive, Coherence, [Next]_vars
    PROVE  Coherence'
<1> USE StoreAssumption DEF TypeInv, TypeOK, disk, cache, locals, history, Goto
<1>1. ASSUME NEW t \in Threads, NEW l \in Labels, SaveOpen(t, l) PROVE Coherence'
  <2>1. OffPath
    BY <1>1 DEF SaveOpen, OffPath, Coherence, TouchedInside
  <2> QED BY <2>1, OffPathStep
<1>2. ASSUME NEW t \in Threads, SaveWrite(t) PROVE Coherence'
  <2>1. pc[t] = "write" /\ touched[t] = {} /\ UNCHANGED <<path, history>>
    BY <1>2 DEF SaveWrite, WritePart, Exclusive, Coherence, TouchedInside
  <2>2. OffPath
    BY <1>2, <2>1 DEF SaveWrite, OffPath
  <2> QED BY <2>2, OffPathStep
<1>3. ASSUME NEW t \in Threads, SaveFlush(t) PROVE Coherence'
  <2>1. pc[t] = "flush" /\ touched[t] = {} /\ UNCHANGED <<path, history>>
    BY <1>3 DEF SaveFlush, WritePart, Exclusive, Coherence, TouchedInside
  <2>2. OffPath
    BY <1>3, <2>1 DEF SaveFlush, OffPath
  <2> QED BY <2>2, OffPathStep
<1>4. ASSUME NEW t \in Threads, SaveRename(t) PROVE Coherence'
  <2>1. /\ label[t] \in Labels /\ pc[t] = "rename" /\ pc' = [pc EXCEPT ![t] = "erase"]
        /\ Changes(t, label[t])
        /\ path' = [path EXCEPT ![label[t]] = tmp[label[t]]]
        /\ UNCHANGED <<cached, citems, mu, items>>
    BY <1>4 DEF SaveRename, OpenFile
  <2>2. PathChange(t, label[t])
    BY <1>4, <2>1, RenameEntries DEF PathChange
  <2> QED BY <2>1, <2>2, PathChangeStep
<1>5. ASSUME NEW t \in Threads, SaveThrow(t) PROVE Coherence'
  <2>1. OffPath
    BY <1>5 DEF SaveThrow, OffPath
  <2> QED BY <2>1, OffPathStep
<1>6. ASSUME NEW t \in Threads, NEW l \in Labels, Remove(t, l) PROVE Coherence'
  <2>1. CASE Unlink(t, l)
    BY <1>6, <2>1, UnlinkStep DEF Remove
  <2>2. CASE UNCHANGED <<path, platter, file, history>>
    <3>1. OffPath
      BY <1>6, <2>2 DEF Remove, OffPath
    <3> QED BY <3>1, OffPathStep
  <2> QED BY <1>6, <2>1, <2>2 DEF Remove
<1>7. ASSUME NEW t \in Threads, RemoveAll(t) PROVE Coherence'
  <2>1. CASE Goto(t, "removing") /\ todo' = [todo EXCEPT ![t] = Present]
    <3>1. OffPath
      BY <1>7, <2>1 DEF RemoveAll, OffPath
    <3> QED BY <3>1, OffPathStep
  <2>2. CASE (Goto(t, "done") \/ Goto(t, "erase")) /\ UNCHANGED todo
    <3>1. OffPath
      BY <1>7, <2>2 DEF RemoveAll, OffPath
    <3> QED BY <3>1, OffPathStep
  <2> QED BY <1>7, <2>1, <2>2 DEF RemoveAll
<1>8. ASSUME NEW t \in Threads, RemoveAllStep(t) PROVE Coherence'
  <2>1. PICK l \in todo[t] : Unlink(t, l) /\ todo' = [todo EXCEPT ![t] = @ \ {l}]
    BY <1>8 DEF RemoveAllStep
  <2>2. l \in Labels /\ pc[t] = "removing" /\ pc' = [pc EXCEPT ![t] = "removing"]
    BY <1>8, <2>1 DEF RemoveAllStep
  <2> QED BY <1>8, <2>1, <2>2, UnlinkStep DEF RemoveAllStep
<1>9. ASSUME NEW t \in Threads, RemoveAllEnd(t) PROVE Coherence'
  <2>1. OffPath
    BY <1>9 DEF RemoveAllEnd, OffPath
  <2> QED BY <2>1, OffPathStep
<1>12. ASSUME NEW t \in Threads, NEW l \in Labels, RemoveAcross(t, l) PROVE Coherence'
  BY <1>12, UnlinkStep DEF RemoveAcross
<1>13. ASSUME NEW t \in Threads, EraseOther(t) PROVE Coherence'
  <2>1. OffPath
    BY <1>13 DEF EraseOther, OffPath
  <2> QED BY <2>1, OffPathStep
<1>10. ASSUME UNCHANGED <<path, cached, citems, mu, items, history, pc, todo>>
       PROVE  Coherence'
  <2>1. \A k \in Labels : (Pending(k)' <=> Pending(k)) /\ Current(k)' = Current(k)
    BY <1>10 DEF Pending, Current
  <2> QED BY <1>10, <2>1 DEF Coherence, Locked, TouchedInside, StalePending, NothingLoaded,
                             LoadedCurrent, CachedCurrent, CurrentMay, ReadsAreExact, Reading
<1>11. ASSUME Tick \/ UNCHANGED vars \/ \E l \in Labels : Writeback(l) PROVE Coherence'
  BY <1>10, <1>11 DEF Tick, vars, Writeback
<1> QED
  BY <1>1, <1>2, <1>3, <1>4, <1>5, <1>6, <1>7, <1>8, <1>9, <1>11, <1>12, <1>13, EraseStep, ReadStep,
     CrashStep, ThrowStep DEF Next, Save, Removal

LEMMA CoherenceAlways ==
    ASSUME SharedLabel = "no"
    PROVE  Spec => []Coherence
<1>1. Init => Coherence
  BY StoreAssumption DEF Init, Coherence, Locked, TouchedInside, StalePending, NothingLoaded,
                         LoadedCurrent, CachedCurrent, CurrentMay, ReadsAreExact, Reading
<1>2. TypeInv /\ Exclusive /\ Coherence /\ [Next]_vars => Coherence'
  BY CoherenceStep
<1> QED BY <1>1, <1>2, ExclusiveAlways, PTL DEF Spec

\* The cache never holds a credential that is not on the disk once the change has dropped
\* it, although the disk is changed without mu_, and even when a flush or a readdir fails;
\* what it lacks could not be read when it was filled.
THEOREM CacheNeverStale ==
    ASSUME SharedLabel = "no"
    PROVE  Spec => []CacheCoherent
<1>1. Coherence => CacheCoherent
  BY DEF Coherence, CachedCurrent, StalePending, Current, CacheCoherent
<1> QED BY <1>1, CoherenceAlways, PTL

\* for_uid returns for every label a content it had during the call, or one that a change
\* still outstanding at its beginning replaced, or nothing if it, or the call that filled
\* the cache, could not read the file: no removed credential is accepted again.
THEOREM ReadsExact ==
    ASSUME SharedLabel = "no"
    PROVE  Spec => []ReadsAreExact
BY CoherenceAlways, PTL DEF Coherence

\* Nothing is overlooked where every read succeeds.
Overlooking == {"read", "opendir"} \cap Faults # {}

Sighted == Overlooking \/ (missing = {} /\ \A t \in Threads : blind[t] = {})

LEMMA SightedAlways == Spec => []Sighted
<1>1. Init => Sighted
  BY DEF Init, Sighted
<1>2. ASSUME TypeInv, Sighted, [Next]_vars PROVE Sighted'
  <2> USE DEF TypeInv, TypeOK, Sighted
  <2>1. ASSUME UNCHANGED <<blind, missing>> PROVE Sighted'
    BY <1>2, <2>1
  <2>2. ASSUME NEW t \in Threads, NEW l \in Labels, Unlink(t, l) PROVE Sighted'
    BY <2>1, <2>2 DEF Unlink, Changes, history
  <2>3. ASSUME NEW t \in Threads, Save(t) PROVE Sighted'
    BY <2>1, <2>3 DEF Save, SaveOpen, SaveWrite, SaveFlush, SaveRename, SaveThrow, WritePart,
                      Changes, history
  <2>4. ASSUME NEW t \in Threads, Removal(t) PROVE Sighted'
    <3>1. CASE \E l \in Labels : Remove(t, l) \/ RemoveAcross(t, l)
      BY <2>1, <2>2, <3>1 DEF Remove, RemoveAcross, history
    <3>2. CASE RemoveAllStep(t)
      <4>1. PICK l \in todo[t] : Unlink(t, l)
        BY <3>2 DEF RemoveAllStep
      <4>2. l \in Labels
        BY <1>2
      <4> QED BY <2>2, <4>1, <4>2
    <3>3. CASE RemoveAll(t) \/ RemoveAllEnd(t) \/ EraseOther(t)
      BY <2>1, <3>3 DEF RemoveAll, RemoveAllEnd, EraseOther, history
    <3> QED BY <2>4, <3>1, <3>2, <3>3 DEF Removal
  <2>5. ASSUME NEW t \in Threads, Read(t) PROVE Sighted'
    BY <1>2, <2>1, <2>5 DEF Read, ForUid, Scan, CacheHit, CacheMiss, Load, Fill, FillEmpty, history,
                            Overlooking
  <2>6. ASSUME NEW t \in Threads, Erase(t) \/ ReaddirThrows(t) PROVE Sighted'
    <3>1. CASE Erase(t)
      BY <1>2, <3>1 DEF Erase, Uncached
    <3>2. CASE ReaddirThrows(t)
      <4>1. missing' = missing /\ (blind' = blind \/ blind' = [blind EXCEPT ![t] = {}])
        BY <3>2 DEF ReaddirThrows
      <4> QED BY <1>2, <4>1
    <3> QED BY <2>6, <3>1, <3>2
  <2>7. ASSUME Tick \/ Crash \/ UNCHANGED vars \/ \E l \in Labels : Writeback(l) PROVE Sighted'
    BY <1>2, <2>7 DEF Tick, Crash, vars, Writeback, history
  <2> QED BY <1>2, <2>3, <2>4, <2>5, <2>6, <2>7 DEF Next
<1> QED BY <1>1, <1>2, TypeAlways, PTL DEF Spec

\* When every read succeeds the cache is complete and a lookup leaves nothing out.
THEOREM ReadsComplete ==
    ASSUME SharedLabel = "no", {"read", "opendir"} \cap Faults = {}
    PROVE  Spec => []CacheComplete
<1>1. CacheCoherent /\ Sighted => CacheComplete
  BY DEF CacheCoherent, CacheComplete, Sighted, Overlooking
<1> QED BY <1>1, CacheNeverStale, SightedAlways, PTL

=============================================================================
