--------------------------- MODULE EnrollmentStore ---------------------------
(***************************************************************************)
(* The enrollment store of chowdyd, for one uid: the .enc files of the     *)
(* user's directory, written by save_enrollment through a .tmp file, and   *)
(* the in-memory cache that for_uid answers from (enrollment_store.cpp and *)
(* the file half of encoding.cpp).                                         *)
(*                                                                         *)
(* Every connection thread calls the store on its own.  for_uid runs with  *)
(* mu_ held from end to end; save, remove and remove_all change the disk   *)
(* WITHOUT mu_ and take it only to drop the cache afterwards.  Each file   *)
(* system call is a step.                                                  *)
(*                                                                         *)
(* Nothing calls fsync: until the kernel has written a change back, a power *)
(* failure may bring back any version of a file since the last write-back. *)
(*                                                                         *)
(* A file is what its writer has put in it so far: the header (which       *)
(* reaches the disk when the stream buffer first overflows) and the body   *)
(* (which reaches it when the stream is closed), each tagged with the      *)
(* thread that wrote it; NoOne = not written.                              *)
(***************************************************************************)
EXTENDS Integers, FiniteSets

CONSTANTS
    Threads,    \* connection threads, each making one call
    Labels,     \* the labels a user may enroll under
    NoOne,      \* not a thread
    NoLabel,    \* not a label
    NoFile,     \* an absent file
    MaxTime,    \* bound on the file system clock
    Faults,     \* what may fail: a subset of AllFaults
    SharedLabel \* may two saves of one label run at the same time?

\* System calls that fail when a file is saved or removed ("open" to "unlink"; nobody
\* notices a lost flush) and when the directory is read: it cannot be opened or statted
\* ("opendir"), listing it fails and throws ("readdir"), an entry cannot be statted
\* ("stat"), a file cannot be opened or read ("read").  "slash": a remove for another uid
\* whose label, which nobody checks, leads into this directory.  "power": the machine
\* goes down with the daemon.
AllFaults == {"open", "write", "flush", "rename", "unlink", "opendir", "readdir", "stat",
              "read", "slash", "power"}

ASSUME StoreAssumption ==
    /\ NoOne \notin Threads
    /\ NoLabel \notin Labels
    /\ NoFile \notin [hdr : Threads \cup {NoOne}, body : Threads \cup {NoOne}]
    /\ MaxTime \in Nat
    /\ Faults \subseteq AllFaults
    /\ SharedLabel \in {"yes", "no"}

VARIABLES
    path,       \* path[l]: the file <label>.enc
    ptime,      \* its mtime
    tmp,        \* tmp[l]: the file <label>.enc.tmp
    ttime,      \* its mtime
    platter,    \* platter[l]: the versions of <label>.enc a power failure may leave
    clock,      \* the file system's coarse clock
    cached,     \* "yes" when cache_ has an entry for the uid
    cmtime,     \* CacheEntry::mtime
    citems,     \* CacheEntry::items, by label; NoFile = not in the list
    mu,         \* mu_
    pc,         \* where each thread is
    label,      \* the label it saves or removes
    file,       \* which name the file a saver has open is reached by
    todo,       \* directory entries its iteration has not come to
    mt,         \* latest_mtime so far
    items,      \* what for_uid has loaded so far, and in the end returned
    \* History, read by no action:
    touched,    \* labels whose file its call has changed and not yet uncached
    stale,      \* what the changes of a label that are not yet uncached have replaced
    may,        \* what a for_uid may answer for each label
    blind,      \* labels a for_uid, or the one that filled the cache it used, could not read
    missing     \* labels the for_uid that filled the cache could not read

vars == <<path, ptime, tmp, ttime, platter, clock, cached, cmtime, citems, mu, pc, label,
          file, todo, mt, items, touched, stale, may, blind, missing>>

history == <<touched, stale, may, blind, missing>>

disk == <<path, ptime, tmp, ttime, platter>>

cache == <<cached, cmtime, citems>>

locals == <<label, file, todo, mt, items>>

Content == [hdr : Threads \cup {NoOne}, body : Threads \cup {NoOne}]

File == Content \cup {NoFile}

\* A file whose data never reached the disk.
Torn == [hdr |-> NoOne, body |-> NoOne]

PCs == {"idle", "write", "flush", "rename", "removing", "erase", "across", "scan",
        "load", "answered", "done"}

TypeOK ==
    /\ path \in [Labels -> File] /\ ptime \in [Labels -> 0 .. MaxTime]
    /\ tmp \in [Labels -> File] /\ ttime \in [Labels -> 0 .. MaxTime]
    /\ platter \in [Labels -> SUBSET File] /\ \A l \in Labels : path[l] \in platter[l]
    /\ clock \in 0 .. MaxTime
    /\ cached \in {"yes", "no"} /\ cmtime \in -1 .. MaxTime /\ citems \in [Labels -> File]
    /\ mu \in Threads \cup {NoOne}
    /\ pc \in [Threads -> PCs]
    /\ label \in [Threads -> Labels \cup {NoLabel}]
    /\ file \in [Threads -> {"tmp", "path", "gone"}]
    /\ todo \in [Threads -> SUBSET Labels]
    /\ touched \in [Threads -> SUBSET Labels]
    /\ mt \in [Threads -> -1 .. MaxTime]
    /\ items \in [Threads -> [Labels -> File]]
    /\ stale \in [Labels -> SUBSET File]
    /\ may \in [Threads -> [Labels -> SUBSET File]]
    /\ blind \in [Threads -> SUBSET Labels] /\ missing \in SUBSET Labels

-----------------------------------------------------------------------------
\* load_enrollment: a short or headerless file is unreadable, and for_uid skips it.
load_enrollment(f) ==
    IF f = NoFile \/ f.hdr = NoOne \/ f.body = NoOne THEN NoFile ELSE f

\* A label some thread has changed on disk and not dropped from the cache.
Pending(l) == \E t \in Threads : l \in touched[t]

Reading(t) == pc[t] \in {"scan", "load"}

Writing(t, l) == pc[t] \in {"write", "flush", "rename"} /\ label[t] = l

Goto(t, where) == pc' = [pc EXCEPT ![t] = where]

\* The labels that have a file.
Present == { l \in Labels : path[l] # NoFile }

\* A directory iteration meets every entry that was there when it began; an entry
\* added since may or may not be met.
NewEntry(l) ==
    IF path[l] # NoFile
    THEN UNCHANGED todo
    ELSE \E met \in SUBSET { t \in Threads : pc[t] \in {"scan", "load", "removing"} } :
            todo' = [t \in Threads |-> IF t \in met THEN todo[t] \cup {l} ELSE todo[t]]

\* Replacing or unlinking path[l]: a saver that has the old file open keeps a file
\* without a name, a saver that has the .tmp open follows it to its new name.
Rebind(l, onTmp) ==
    file' = [t \in Threads |-> IF label[t] # l THEN file[t]
                               ELSE CASE file[t] = "tmp"  -> onTmp
                                      [] file[t] = "path" -> "gone"
                                      [] OTHER            -> file[t]]

\* This step of thread t changes path[l].  The kernel has not written it back: neither the
\* new name nor, behind it, the data.  The rest is history.
Changes(t, l) ==
    /\ platter' = [platter EXCEPT ![l] =
                      @ \cup {path'[l]} \cup (IF path'[l] = NoFile THEN {} ELSE {Torn})]
    /\ touched' = [touched EXCEPT ![t] = @ \cup {l}]
    /\ stale' = [stale EXCEPT ![l] = @ \cup {load_enrollment(path[l])}]
    /\ may' = [u \in Threads |-> IF Reading(u)
                                 THEN [may[u] EXCEPT ![l] = @ \cup {load_enrollment(path'[l])}]
                                 ELSE may[u]]
    /\ UNCHANGED <<blind, missing>>

Init ==
    /\ path = [l \in Labels |-> NoFile] /\ ptime = [l \in Labels |-> 0]
    /\ tmp = [l \in Labels |-> NoFile] /\ ttime = [l \in Labels |-> 0]
    /\ platter = [l \in Labels |-> {NoFile}]
    /\ clock = 0
    /\ cached = "no" /\ cmtime = -1 /\ citems = [l \in Labels |-> NoFile]
    /\ mu = NoOne
    /\ pc = [t \in Threads |-> "idle"]
    /\ label = [t \in Threads |-> NoLabel]
    /\ file = [t \in Threads |-> "gone"]
    /\ todo = [t \in Threads |-> {}]
    /\ mt = [t \in Threads |-> -1]
    /\ items = [t \in Threads |-> [l \in Labels |-> NoFile]]
    /\ touched = [t \in Threads |-> {}]
    /\ stale = [l \in Labels |-> {}]
    /\ may = [t \in Threads |-> [l \in Labels |-> {}]]
    /\ blind = [t \in Threads |-> {}]
    /\ missing = {}

-----------------------------------------------------------------------------
(* save: open the .tmp with O_TRUNC (the same file, if another save has it open),
   write, close, rename.  What a thread writes goes to the file it opened, under
   whatever name that file has by then. *)

\* Mutant of SaveOpen: without O_TRUNC, over a .tmp that a dead daemon has left.
SaveOpen_NoTrunc(t, l) ==
    /\ pc[t] = "idle"
    /\ SharedLabel = "no" => \A u \in Threads : ~Writing(u, l)
    /\ label' = [label EXCEPT ![t] = l]
    /\ tmp' = [tmp EXCEPT ![l] = IF @ = NoFile THEN Torn ELSE @]
    /\ ttime' = [ttime EXCEPT ![l] = clock]
    /\ file' = [file EXCEPT ![t] = "tmp"]
    /\ Goto(t, "write")
    /\ UNCHANGED <<path, ptime, platter, clock, cache, mu, todo, mt, items, history>>

SaveOpen(t, l) ==
    /\ pc[t] = "idle"
    /\ SharedLabel = "no" => \A u \in Threads : ~Writing(u, l)
    /\ label' = [label EXCEPT ![t] = l]
    /\ tmp' = [tmp EXCEPT ![l] = Torn]
    /\ ttime' = [ttime EXCEPT ![l] = clock]
    /\ file' = [file EXCEPT ![t] = "tmp"]
    /\ Goto(t, "write")
    /\ UNCHANGED <<path, ptime, platter, clock, cache, mu, todo, mt, items, history>>

Put(f, part, t) == IF part = "hdr" THEN [f EXCEPT !.hdr = t] ELSE [f EXCEPT !.body = t]

\* Write one part of the open file, wherever it is now.
WritePart(t, l, part) ==
    \/ /\ file[t] = "tmp"
       /\ tmp' = [tmp EXCEPT ![l] = Put(@, part, t)]
       /\ ttime' = [ttime EXCEPT ![l] = clock]
       /\ UNCHANGED <<path, ptime, platter, history>>
    \/ /\ file[t] = "path"
       /\ path' = [path EXCEPT ![l] = Put(@, part, t)]
       /\ ptime' = [ptime EXCEPT ![l] = clock]
       /\ Changes(t, l)
       /\ UNCHANGED <<tmp, ttime>>
    \/ file[t] = "gone" /\ UNCHANGED <<disk, history>>

\* The first full stream buffer: the header and a part of the embeddings.
SaveWrite(t) ==
    /\ pc[t] = "write"
    /\ WritePart(t, label[t], "hdr")
    /\ Goto(t, "flush")
    /\ UNCHANGED <<clock, cache, mu, locals>>

\* ~ofstream writes what is left and closes.  Nobody looks at the stream's state
\* again, so a failure here goes unnoticed.
SaveFlush(t) ==
    /\ pc[t] = "flush"
    /\ \/ WritePart(t, label[t], "body")
       \/ "flush" \in Faults /\ UNCHANGED <<disk, history>>
    /\ file' = [file EXCEPT ![t] = "gone"]
    /\ Goto(t, "rename")
    /\ UNCHANGED <<clock, cache, mu, label, todo, mt, items>>

SaveRename(t) ==
    LET l == label[t] IN
    /\ pc[t] = "rename" /\ tmp[l] # NoFile
    /\ path' = [path EXCEPT ![l] = tmp[l]]
    /\ ptime' = [ptime EXCEPT ![l] = ttime[l]]
    /\ tmp' = [tmp EXCEPT ![l] = NoFile]
    /\ Rebind(l, "path")
    /\ NewEntry(l)
    /\ Changes(t, l)
    /\ Goto(t, "erase")
    /\ UNCHANGED <<ttime, clock, cache, mu, label, mt, items>>

\* Mutant of SaveThrow: the cleanup of a failed save also unlinks the file it was to replace.
SaveThrow_UnlinksOld(t) ==
    /\ pc[t] = "rename" /\ "rename" \in Faults
    /\ path' = [path EXCEPT ![label[t]] = NoFile]
    /\ file' = [file EXCEPT ![t] = "gone"]
    /\ Goto(t, "done")
    /\ UNCHANGED <<ptime, tmp, ttime, platter, clock, cache, mu, label, todo, mt, items, history>>

\* save throws: the .tmp cannot be opened, a write fails, or rename fails (also
\* when another save has already renamed the shared .tmp).  The cache is left alone.
SaveThrow(t) ==
    /\ \/ pc[t] = "idle" /\ "open" \in Faults
       \/ pc[t] \in {"write", "flush"} /\ "write" \in Faults
       \/ pc[t] = "rename" /\ ("rename" \in Faults \/ tmp[label[t]] = NoFile)
    /\ file' = [file EXCEPT ![t] = "gone"]
    /\ Goto(t, "done")
    /\ UNCHANGED <<disk, clock, cache, mu, label, todo, mt, items, history>>

-----------------------------------------------------------------------------
Unlink(t, l) ==
    /\ path' = [path EXCEPT ![l] = NoFile]
    /\ Rebind(l, "tmp")
    /\ IF path[l] # NoFile THEN Changes(t, l) ELSE UNCHANGED <<platter, history>>

(* remove: unlink, then drop the cache whether or not there was a file. *)
Remove(t, l) ==
    /\ pc[t] = "idle"
    /\ \/ Unlink(t, l)
       \/ "unlink" \in Faults /\ UNCHANGED <<path, platter, file, history>>
    /\ Goto(t, "erase")
    /\ UNCHANGED <<ptime, tmp, ttime, clock, cache, mu, label, todo, mt, items>>

(* remove for another uid, with a label such as ../<this uid>/l: the file of l is
   unlinked, and the cache entry that is dropped is the other uid's. *)
RemoveAcross(t, l) ==
    /\ pc[t] = "idle" /\ "slash" \in Faults
    /\ Unlink(t, l)
    /\ Goto(t, "across")
    /\ UNCHANGED <<ptime, tmp, ttime, clock, cache, mu, label, todo, mt, items>>

EraseOther(t) ==
    /\ pc[t] = "across" /\ mu = NoOne
    /\ Goto(t, "done")
    /\ UNCHANGED <<disk, clock, cache, mu, locals, history>>

(* remove_all: iterate over the directory, unlinking as it goes.  It returns at once
   when there is no directory, or none that it can stat, and removes nothing from one
   that it cannot open. *)
RemoveAll(t) ==
    /\ pc[t] = "idle"
    /\ \/ todo' = [todo EXCEPT ![t] = Present] /\ Goto(t, "removing")
       \/ (Present = {} \/ "opendir" \in Faults) /\ Goto(t, "done") /\ UNCHANGED todo
       \/ "opendir" \in Faults /\ Goto(t, "erase") /\ UNCHANGED todo
    /\ UNCHANGED <<disk, clock, cache, mu, label, file, mt, items, history>>

RemoveAllStep(t) ==
    /\ pc[t] = "removing"
    /\ \E l \in todo[t] : Unlink(t, l) /\ todo' = [todo EXCEPT ![t] = @ \ {l}]
    /\ UNCHANGED <<ptime, tmp, ttime, clock, cache, mu, pc, label, mt, items>>

\* The iteration is over, or an unlink failed and the next turn of the loop breaks.
RemoveAllEnd(t) ==
    /\ pc[t] = "removing" /\ (todo[t] = {} \/ "unlink" \in Faults)
    /\ todo' = [todo EXCEPT ![t] = {}]
    /\ Goto(t, "erase")
    /\ UNCHANGED <<disk, clock, cache, mu, label, file, mt, items, history>>

\* History: t has dropped the cache, and with it what failed calls had left in it.
Uncached(t) ==
    /\ touched' = [u \in Threads |-> IF u = t \/ pc[u] = "done" THEN {} ELSE touched[u]]
    /\ stale' = [l \in Labels |-> IF \E u \in Threads : l \in touched'[u] THEN stale[l] ELSE {}]
    /\ UNCHANGED <<may, blind>>

\* Mutant of Erase: the mtime key is trusted to notice the change.
Erase_TrustMtime(t) ==
    /\ pc[t] = "erase" /\ mu = NoOne
    /\ Uncached(t) /\ UNCHANGED missing
    /\ Goto(t, "done")
    /\ UNCHANGED <<disk, clock, cache, mu, locals>>

\* The last lines of save, remove and remove_all: lock, cache_.erase, unlock.
Erase(t) ==
    /\ pc[t] = "erase" /\ mu = NoOne
    /\ cached' = "no"
    /\ Uncached(t) /\ missing' = {}
    /\ Goto(t, "done")
    /\ UNCHANGED <<disk, clock, cmtime, citems, mu, locals>>

-----------------------------------------------------------------------------
(* for_uid, with mu_ held throughout. *)

ForUid(t) ==
    /\ pc[t] = "idle" /\ mu = NoOne
    /\ mu' = t
    /\ todo' = [todo EXCEPT ![t] = Present]
    /\ may' = [may EXCEPT ![t] = [l \in Labels |-> stale[l] \cup {load_enrollment(path[l])}]]
    /\ Goto(t, "scan")
    /\ UNCHANGED <<disk, clock, cache, label, file, mt, items, touched, stale, blind, missing>>

\* Mutant of Scan: the key is one past the latest mtime.
Scan_OffByOne(t) ==
    /\ pc[t] = "scan"
    /\ \E l \in todo[t] :
          /\ mt' = [mt EXCEPT ![t] = IF path[l] # NoFile /\ ptime[l] >= @ THEN ptime[l] + 1 ELSE @]
          /\ todo' = [todo EXCEPT ![t] = @ \ {l}]
    /\ UNCHANGED <<disk, clock, cache, mu, pc, label, file, items, history>>

\* latest_mtime, one entry; it may be gone before it is listed.
Scan(t) ==
    /\ pc[t] = "scan"
    /\ \E l \in todo[t] :
          /\ mt' = [mt EXCEPT ![t] = IF path[l] # NoFile /\ ptime[l] > @ THEN ptime[l] ELSE @]
          /\ todo' = [todo EXCEPT ![t] = @ \ {l}]
    /\ UNCHANGED <<disk, clock, cache, mu, pc, label, file, items, history>>

\* latest_mtime returns what it has when it has seen every entry; when an entry that was
\* listed is gone, or cannot be statted, which leaves ec set and breaks the loop; or at
\* once when the directory cannot be opened.
ScanOver(t) ==
    /\ pc[t] = "scan"
    /\ \/ todo[t] = {}
       \/ \E l \in todo[t] : path[l] = NoFile
       \/ "stat" \in Faults
       \/ "opendir" \in Faults /\ mt[t] = -1

\* The last lines of for_uid, on every path: unlock and return.
Answer(t) ==
    /\ todo' = [todo EXCEPT ![t] = {}]
    /\ mt' = [mt EXCEPT ![t] = -1]
    /\ mu' = NoOne
    /\ Goto(t, "answered")
    /\ UNCHANGED <<disk, clock, label, file, touched, stale, may>>

\* Mutant of CacheHit: an erased entry still answers.
CacheHit_Erased(t) ==
    /\ ScanOver(t)
    /\ cmtime = mt[t]
    /\ items' = [items EXCEPT ![t] = citems]
    /\ blind' = [blind EXCEPT ![t] = missing]
    /\ Answer(t)
    /\ UNCHANGED <<cache, missing>>

\* The cached entry answers when its key is the mtime just computed ...
CacheHit(t) ==
    /\ ScanOver(t)
    /\ cached = "yes" /\ cmtime = mt[t]
    /\ items' = [items EXCEPT ![t] = citems]
    /\ blind' = [blind EXCEPT ![t] = missing]
    /\ Answer(t)
    /\ UNCHANGED <<cache, missing>>

\* ... otherwise the directory is read again, ...
CacheMiss(t) ==
    /\ ScanOver(t)
    /\ ~(cached = "yes" /\ cmtime = mt[t])
    /\ todo' = [todo EXCEPT ![t] = Present]
    /\ Goto(t, "load")
    /\ UNCHANGED <<disk, clock, cache, mu, label, file, mt, items, history>>

\* ... one file at a time, leaving out what cannot be read, ...
Load(t) ==
    /\ pc[t] = "load"
    /\ \E l \in todo[t] :
          /\ \/ items' = [items EXCEPT ![t][l] = load_enrollment(path[l])] /\ UNCHANGED blind
             \/ /\ "read" \in Faults
                /\ blind' = [blind EXCEPT ![t] = @ \cup {l}] /\ UNCHANGED items
          /\ todo' = [todo EXCEPT ![t] = @ \ {l}]
    /\ UNCHANGED <<disk, clock, cache, mu, pc, label, file, mt, touched, stale, may, missing>>

\* ... and cached under the mtime of the first pass.
Fill(t) ==
    /\ pc[t] = "load" /\ todo[t] = {}
    /\ cached' = "yes" /\ cmtime' = mt[t] /\ citems' = items[t]
    /\ missing' = blind[t]
    /\ Answer(t)
    /\ UNCHANGED <<items, blind>>

\* A directory that cannot be opened for the second pass is cached as an empty one.
FillEmpty(t) ==
    /\ ScanOver(t) /\ "opendir" \in Faults
    /\ ~(cached = "yes" /\ cmtime = mt[t])
    /\ cached' = "yes" /\ cmtime' = mt[t] /\ citems' = items[t]
    /\ missing' = Present
    /\ blind' = [blind EXCEPT ![t] = Present]
    /\ Answer(t)
    /\ UNCHANGED items

-----------------------------------------------------------------------------
Tick ==
    /\ clock < MaxTime
    /\ clock' = clock + 1
    /\ UNCHANGED <<disk, cache, mu, pc, locals, history>>

\* readdir fails and the increment of the iterator throws.  for_uid unlocks and caches
\* nothing; remove_all leaves without its last lines, which would drop the cache.
ReaddirThrows(t) ==
    /\ "readdir" \in Faults /\ pc[t] \in {"scan", "load", "removing"}
    /\ todo' = [todo EXCEPT ![t] = {}]
    /\ IF Reading(t)
       THEN /\ mu' = NoOne
            /\ mt' = [mt EXCEPT ![t] = -1]
            /\ items' = [items EXCEPT ![t] = [l \in Labels |-> NoFile]]
            /\ may' = [may EXCEPT ![t] = [l \in Labels |-> {}]]
            /\ blind' = [blind EXCEPT ![t] = {}]
       ELSE UNCHANGED <<mu, mt, items, may, blind>>
    /\ Goto(t, "done")
    /\ UNCHANGED <<disk, clock, cache, label, file, touched, stale, missing>>

\* The kernel writes back what it holds of a file and its name.
Writeback(l) ==
    /\ platter' = [platter EXCEPT ![l] = {path[l]}]
    /\ UNCHANGED <<path, ptime, tmp, ttime, clock, cache, mu, pc, locals, history>>

\* The machine goes down: every file comes back in one of the versions since its last
\* write-back, so a rename or an unlink may be undone and a renamed file be empty.  (What
\* comes back of the .tmp files does not matter: a save truncates what it finds.)
PowerLoss ==
    /\ "power" \in Faults
    /\ path' \in [Labels -> UNION { platter[l] : l \in Labels }]
    /\ ptime' \in [Labels -> 0 .. clock]
    /\ \A l \in Labels : /\ path'[l] \in platter[l]
                         /\ path'[l] = path[l] => ptime'[l] = ptime[l]
    /\ platter' = [l \in Labels |-> {path'[l]}]

(* The daemon dies, alone or with the machine, and is restarted: the files stay,
   everything else is gone. *)
Crash ==
    /\ PowerLoss \/ UNCHANGED <<path, ptime, platter>>
    /\ cached' = "no"
    /\ mu' = NoOne
    /\ pc' = [t \in Threads |-> IF pc[t] = "idle" THEN "idle" ELSE "done"]
    /\ file' = [t \in Threads |-> "gone"]
    /\ todo' = [t \in Threads |-> {}]
    /\ mt' = [t \in Threads |-> -1]
    /\ touched' = [t \in Threads |-> {}]
    /\ stale' = [l \in Labels |-> {}]
    /\ may' = [t \in Threads |-> [l \in Labels |-> {}]]
    /\ blind' = [t \in Threads |-> {}]
    /\ missing' = {}
    /\ UNCHANGED <<tmp, ttime, clock, cmtime, citems, label, items>>

Save(t) ==
    \/ \E l \in Labels : SaveOpen(t, l)
    \/ SaveWrite(t) \/ SaveFlush(t) \/ SaveRename(t) \/ SaveThrow(t)

Removal(t) ==
    \/ \E l \in Labels : Remove(t, l) \/ RemoveAcross(t, l)
    \/ RemoveAll(t) \/ RemoveAllStep(t) \/ RemoveAllEnd(t) \/ EraseOther(t)

Read(t) ==
    \/ ForUid(t) \/ Scan(t) \/ CacheHit(t) \/ CacheMiss(t) \/ Load(t) \/ Fill(t)
    \/ FillEmpty(t)

Next ==
    \/ \E t \in Threads : Save(t) \/ Removal(t) \/ Erase(t) \/ Read(t) \/ ReaddirThrows(t)
    \/ \E l \in Labels : Writeback(l)
    \/ Tick
    \/ Crash

Spec == Init /\ [][Next]_vars

-----------------------------------------------------------------------------
(* Safety. *)

\* save_enrollment is atomic for its readers: whatever crashes, fails or is
\* interleaved, an .enc file is one complete save, never a mixture or a fragment.
FilesAreComplete ==
    \A l \in Labels : path[l] # NoFile => path[l].hdr # NoOne /\ path[l].hdr = path[l].body

\* A lost flush or a power failure can leave a fragment under the final name.  What
\* load_enrollment accepts is one complete save all the same: never a file whose parts
\* come from two saves, such as the .tmp of a dead daemon and that of its successor.
NeverMixed ==
    \A l \in Labels : LET f == load_enrollment(path[l])
                      IN  f # NoFile => f.hdr = f.body

\* The cache never holds a credential that is not on the disk, except for labels whose
\* change has not dropped the cache (it has not returned to its caller, has failed half
\* way, or came in by another uid's name), although save, remove and remove_all change the
\* disk without mu_ and the mtime key may miss it.  And it lacks a credential of the disk
\* only if the for_uid that filled it could not read the file.
CacheCoherent ==
    cached = "yes" =>
       \A l \in Labels : \/ Pending(l)
                         \/ citems[l] = load_enrollment(path[l])
                         \/ citems[l] = NoFile /\ l \in missing

\* for_uid answers, for every label, with what the file held at some moment of the call,
\* or with what a change replaced that had not dropped the cache when the call began: a
\* credential whose removal has returned is not accepted.  It leaves out a credential that
\* was there all the time only if it, or the for_uid that filled the cache it answers
\* from, could not read the file.
ReadsAreExact ==
    \A t \in Threads : pc[t] = "answered" =>
       \A l \in Labels : \/ items[t][l] \in may[t][l]
                         \/ items[t][l] = NoFile /\ l \in blind[t]

\* enrollment_store.hpp:32 has for_uid "Return every <label>.enc file for the given uid"
\* and refresh the cache "as needed": a cached list lacks no credential that is on the
\* disk and that nobody is changing.  It does, from one failed read to the next change.
CacheComplete ==
    cached = "yes" =>
       \A l \in Labels : Pending(l) \/ citems[l] = load_enrollment(path[l])

-----------------------------------------------------------------------------
(* The abstract store: files, cache, time stamps and mu_ are details. *)
PhaseOf(where) ==
    CASE where = "idle" -> "idle"
      [] where \in {"write", "flush", "rename", "removing", "erase", "across"} -> "changing"
      [] where \in {"scan", "load"} -> "reading"
      [] OTHER -> where

cred == [l \in Labels |-> load_enrollment(path[l])]

durable == [l \in Labels |-> { load_enrollment(f) : f \in platter[l] }]

phase == [t \in Threads |-> PhaseOf(pc[t])]

answer == [t \in Threads |-> IF pc[t] = "answered" THEN items[t] ELSE [l \in Labels |-> NoFile]]

Own == [t \in Threads |-> [hdr |-> t, body |-> t]]

Overlooks == {"read", "opendir"} \cap Faults # {}

LosesPower == "power" \in Faults

Abs == INSTANCE CredentialStore WITH open <- touched

\* The files, the cache and the lock implement the abstract store, whatever fails: every
\* save and removal takes effect in one step, every lookup is one of an atomic store
\* (which may overlook a credential where reads fail), and a power failure undoes at most
\* what was not written back.
ImplementsCredentialStore == Abs!Spec
=============================================================================
