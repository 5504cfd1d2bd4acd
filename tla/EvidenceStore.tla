---------------------------- MODULE EvidenceStore ----------------------------
(***************************************************************************)
(* Evidence files beside the database (backend/investigation/evidence.py), *)
(* the three transactions that store them - enqueue and finish of jobs.py  *)
(* and the start-up migration initialize_evidence - and the backup that    *)
(* copies database and files while they run (backup.py).                   *)
(*                                                                         *)
(* The database has transactions and the directory has none.  A handler    *)
(* writes its files first, then commits the rows that refer to them; when  *)
(* it fails it rolls the rows back and then, no longer alone, deletes the  *)
(* files it wrote (rollback_files); when it is killed nobody deletes them. *)
(* Each of these is a step here, and so is each half of a put: the file    *)
(* exists before its bytes are on disk.                                    *)
(*                                                                         *)
(* A sha256 is modelled by the content it is the digest of.                *)
(***************************************************************************)
EXTENDS Naturals

CONSTANTS
  Analyses,     \* analysis ids
  Positions,    \* positions of the attachments of a message
  Keys,         \* evidence keys (uuid4 values)
  Contents,     \* contents of originals and attachments
  MaxCrashes,   \* bound: how often a process is killed with files to its name
  NoKey, NoBytes, NoFile, Broken, NoTx, Original

ASSUME OriginalAssumption == Original \notin Positions
ASSUME CrashesAssumption == MaxCrashes \in Nat
ASSUME ContentsAssumption == {NoBytes, NoFile, Broken} \cap Contents = {}
ASSUME KeysAssumption == NoKey \notin Keys

VARIABLES
  files,    \* the evidence directory: what each key names
  db,       \* the committed rows
  tx,       \* the open write transaction, or NoTx
  undos,    \* what handlers that failed are still deleting: a list of each
  started,  \* the first initialize() of this release has succeeded
  left,     \* history: files no handler is left to delete
  backup,   \* the backup that is running: its snapshot and its copies
  crashes   \* bound on Crash

vars == <<files, db, tx, undos, started, left, backup, crashes>>

\* A place that refers to a file: the original of an analysis
\* (analyses.source_ref) or an attachment (evidence_attachments).
Slots == Analyses \X ({Original} \cup Positions)

(* The rows.  ref, sha: the key a slot refers to and the digest beside it   *)
(* (an analysis exists when its original has one); blob: bytes an older     *)
(* release kept in the database itself, analyses.source or "raw" inside     *)
(* analyses.result; done: analyses.result is there.                         *)
Rows ==
  [ref : [Slots -> Keys \cup {NoKey}],
   sha : [Slots -> Contents \cup {NoBytes}],
   blob : [Slots -> Contents \cup {NoBytes}],
   done : SUBSET Analyses]

Exists(rows, a) == rows.sha[<<a, Original>>] # NoBytes

\* An item a transaction still has to store.
Items == [slot : Slots, bytes : Contents]

\* An open transaction.  keys is the list rollback_files keeps; made is every
\* file of the transaction (history, for the properties).
Transactions ==
  [kind : {"enqueue", "finish", "migration"},
   rows : Rows, todo : SUBSET Items, writing : Keys \cup {NoKey},
   keys : SUBSET Keys, made : SUBSET Keys, failing : BOOLEAN]

ASSUME NoTxAssumption == NoTx \notin Transactions \cup Rows

\* A backup copies into a directory of its own.
Backups == [rows : Rows, copied : SUBSET [key : Keys, sha : Contents \cup {NoBytes}]]

NoBackup == [rows |-> NoTx, copied |-> {}]

----------------------------------------------------------------------------
\* Analyses of an older release: original c and attachments in the database.
\* Their digests need not fit: nothing checked them when they were stored.
Init ==
  /\ files = [k \in Keys |-> NoFile]
  /\ \E old \in SUBSET Analyses, c, d \in Contents : \E withResult \in SUBSET old :
       db = [ref |-> [s \in Slots |-> NoKey],
             sha |-> [s \in Slots |->
                        IF s[1] \in old /\ s[2] = Original THEN d ELSE NoBytes],
             blob |-> [s \in Slots |->
                         IF s[1] \in (IF s[2] = Original THEN old ELSE withResult)
                         THEN c ELSE NoBytes],
             done |-> withResult]
  /\ tx = NoTx
  /\ undos = {}
  /\ started = FALSE
  /\ backup = NoBackup
  /\ left = {}
  /\ crashes = 0

\* BEGIN IMMEDIATE: one writer at a time.
Open(kind, rows, todo) ==
  /\ tx = NoTx
  /\ tx' = [kind |-> kind, rows |-> rows, todo |-> todo, writing |-> NoKey,
            keys |-> {}, made |-> {}, failing |-> FALSE]

\* enqueue(): a new analysis with its original.
BeginEnqueue(a, c) ==
  /\ started
  /\ ~Exists(db, a)
  /\ Open("enqueue", [db EXCEPT !.sha[<<a, Original>>] = c],
          {[slot |-> <<a, Original>>, bytes |-> c]})
  /\ UNCHANGED <<files, db, undos, started, left, backup, crashes>>

\* finish(job, document): the attachments of the document, then its result.
BeginFinish(a, found) ==
  /\ started
  /\ Exists(db, a)
  /\ a \notin db.done
  /\ Open("finish", [db EXCEPT !.done = db.done \cup {a}],
          {[slot |-> <<a, p>>, bytes |-> found[p]] : p \in DOMAIN found})
  /\ UNCHANGED <<files, db, undos, started, left, backup, crashes>>

\* initialize_evidence(): everything an older release kept in the database.
BeginMigration ==
  /\ ~started
  /\ Open("migration", db,
          {i \in Items : db.blob[i.slot] = i.bytes /\ db.ref[i.slot] = NoKey})
  /\ UNCHANGED <<files, db, undos, started, left, backup, crashes>>

----------------------------------------------------------------------------
(* FileEvidenceStorage.                                                    *)

\* O_CREAT | O_EXCL under a fresh name: no file is ever opened twice.
AnyKeys == Keys

FreeKeys == {k \in Keys : files[k] = NoFile}

\* put(): the file is created.  Its bytes are not on disk yet.
PutCreates(k) ==
  /\ tx # NoTx
  /\ ~tx.failing
  /\ tx.writing = NoKey
  /\ tx.todo # {}
  /\ k \in FreeKeys
  /\ files' = [files EXCEPT ![k] = Broken]
  /\ tx' = [tx EXCEPT !.writing = k, !.made = tx.made \cup {k}]
  /\ UNCHANGED <<db, undos, started, left, backup, crashes>>

\* new_files.append(key): enqueue and finish remember what to delete when they
\* fail; the migration does not.
RememberLast(k) == IF tx.kind = "migration" THEN {} ELSE {k}

Remember(k) == IF tx.kind = "migration" THEN {} ELSE tx.keys \cup {k}

DropBlobOnly(rows, s, k, c) == [rows EXCEPT !.blob[s] = NoBytes]

\* The row that refers to the new file; a blob it replaces is cleared.
Refer(rows, s, k, c) ==
  [ref |-> [rows.ref EXCEPT ![s] = k], sha |-> [rows.sha EXCEPT ![s] = c],
   blob |-> [rows.blob EXCEPT ![s] = NoBytes], done |-> rows.done]

\* The migration compares the digest an older release recorded, if any.
Verified(i) ==
  tx.kind = "migration" => tx.rows.sha[i.slot] \in {NoBytes, i.bytes}

\* put() returns after fsync.
PutReturns(i) ==
  /\ tx # NoTx
  /\ tx.writing # NoKey
  /\ i \in tx.todo
  /\ files' = [files EXCEPT ![tx.writing] = i.bytes]
  /\ UNCHANGED <<db, undos, started, left, backup, crashes>>

\* The handler goes on: the statement that uses the key runs.
PutAccepted(i) ==
  /\ PutReturns(i)
  /\ Verified(i)
  /\ tx' = [tx EXCEPT !.rows = Refer(tx.rows, i.slot, tx.writing, i.bytes),
                      !.todo = tx.todo \ {i},
                      !.keys = Remember(tx.writing),
                      !.writing = NoKey]

\* "Legacy evidence hash mismatch; migration stopped"
PutRefused(i) ==
  /\ PutReturns(i)
  /\ ~Verified(i)
  /\ tx' = [tx EXCEPT !.writing = NoKey, !.failing = TRUE]

\* put() fails half way: it unlinks its file, and the handler fails too.
PutFails ==
  /\ tx # NoTx
  /\ tx.writing # NoKey
  /\ files' = [files EXCEPT ![tx.writing] = NoFile]
  /\ tx' = [tx EXCEPT !.writing = NoKey, !.failing = TRUE]
  /\ UNCHANGED <<db, undos, started, left, backup, crashes>>

\* The files of the transaction that are still there.
Written == {k \in tx.made : files[k] # NoFile}

\* That exception, or any other up to and including the commit: the rows roll
\* back and the next writer may begin.  rollback_files has the list of files to
\* delete; the migration has none.
HandlerFails ==
  /\ tx # NoTx
  /\ tx.writing = NoKey
  /\ tx' = NoTx
  /\ undos' = (undos \cup {tx.keys}) \ {{}}
  /\ left' = IF tx.kind = "migration" THEN left \cup Written ELSE left
  /\ UNCHANGED <<files, db, started, backup, crashes>>

\* rollback_files: storage().delete(key) for one key of the list.
UndoPut(u, k) ==
  /\ files' = [files EXCEPT ![k] = NoFile]
  /\ undos' = ((undos \ {u}) \cup {u \ {k}}) \ {{}}
  /\ UNCHANGED <<db, tx, started, left, backup, crashes>>

\* The process is killed, or a delete fails, before the list is done.
UndoStops(u) ==
  /\ crashes < MaxCrashes
  /\ crashes' = crashes + 1
  /\ undos' = undos \ {u}
  /\ left' = left \cup u
  /\ UNCHANGED <<files, db, tx, started, backup>>

\* Everything is stored: commit.
Commit ==
  /\ tx # NoTx
  /\ ~tx.failing
  /\ tx.todo = {}
  /\ db' = tx.rows
  /\ started' = (started \/ tx.kind = "migration")
  /\ tx' = NoTx
  /\ UNCHANGED <<files, undos, left, backup, crashes>>

\* The process is killed: SQLite rolls the rows back, the files stay.
Crash ==
  /\ tx # NoTx
  /\ crashes < MaxCrashes
  /\ crashes' = crashes + 1
  /\ tx' = NoTx
  /\ left' = left \cup Written
  /\ UNCHANGED <<files, db, undos, started, backup>>

----------------------------------------------------------------------------
(* community_backup().                                                     *)

\* The files a set of rows refers to.
References(rows) ==
  {[key |-> rows.ref[s], sha |-> rows.sha[s]] :
     s \in {t \in Slots : rows.ref[t] # NoKey}}

\* source.backup(snapshot): the committed rows, while writers go on.
UncommittedRows == IF tx # NoTx THEN tx.rows ELSE db

SnapshotRows == db

BackupSnapshot ==
  /\ backup = NoBackup
  /\ started
  /\ backup' = [rows |-> SnapshotRows, copied |-> {}]
  /\ UNCHANGED <<files, db, tx, undos, started, left, crashes>>

\* store.read(key, expected) checks the digest; the copy joins the archive.
BackupCopies(r) ==
  /\ backup # NoBackup
  /\ r \notin backup.copied
  /\ files[r.key] = r.sha
  /\ backup' = [backup EXCEPT !.copied = backup.copied \cup {r}]
  /\ UNCHANGED <<files, db, tx, undos, started, left, crashes>>

\* The backup is given up, or everything is copied, packed and encrypted.
BackupEnds ==
  /\ backup # NoBackup
  /\ backup' = NoBackup
  /\ UNCHANGED <<files, db, tx, undos, started, left, crashes>>

Writer ==
  \/ \E a \in Analyses, c \in Contents : BeginEnqueue(a, c)
  \/ \E a \in Analyses, P \in SUBSET Positions :
       \E found \in [P -> Contents] : BeginFinish(a, found)
  \/ BeginMigration
  \/ \E k \in Keys : PutCreates(k)
  \/ \E i \in Items : PutAccepted(i) \/ PutRefused(i)
  \/ PutFails \/ HandlerFails \/ Commit \/ Crash
  \/ \E u \in undos : UndoStops(u) \/ \E k \in u : UndoPut(u, k)

Backup ==
  \/ BackupSnapshot
  \/ /\ backup # NoBackup
     /\ \E r \in References(backup.rows) : BackupCopies(r)
  \/ BackupEnds

Next == Writer \/ Backup

Spec == Init /\ [][Next]_vars

----------------------------------------------------------------------------
(* Properties.                                                             *)

\* What the directory, the rows and an open transaction can hold.
TypeOK ==
  /\ files \in [Keys -> Contents \cup {Broken, NoFile}]
  /\ db \in Rows
  /\ tx \in Transactions \cup {NoTx}
  /\ undos \subseteq SUBSET Keys
  /\ started \in BOOLEAN
  /\ left \subseteq Keys
  /\ backup \in Backups \cup {NoBackup}
  /\ crashes \in 0..MaxCrashes

\* Every file a committed row refers to is there, with the bytes the row
\* gives the digest of, whatever handler failed or was killed between its
\* files and its commit.
ReferencedIsStored == \A r \in References(db) : files[r.key] = r.sha

\* A failing handler leaves no file: whatever no row refers to belongs to the
\* open transaction, or is being deleted, or was left by a process that was
\* killed or a migration that stopped; and such a file is never referred to
\* ("A rollback can only leave an unreferenced immutable file", evidence.py).
FilesAccounted ==
  LET used == {r.key : r \in References(db)}
      open == IF tx = NoTx THEN {} ELSE tx.made
  IN  /\ {k \in Keys : files[k] # NoFile}
             \subseteq used \cup open \cup (UNION undos) \cup left
      /\ used \cap left = {}

\* The bytes original() or an attachment download returns for these rows.
BytesIn(rows, s) == IF rows.ref[s] # NoKey THEN files[rows.ref[s]] ELSE rows.blob[s]

Bytes(s) == BytesIn(db, s)

\* Everything that can be read through these rows.
Reading(rows) ==
  [evidence |-> [s \in Slots |-> BytesIn(rows, s)], finished |-> rows.done]

\* Evidence is immutable: bytes that can be read once are read for ever,
\* also across the migration that moves them out of the database.
BytesKept ==
  [][\A s \in Slots : Bytes(s) \in Contents => Bytes(s)' = Bytes(s)]_vars

Shown == Reading(db).evidence

Bundle == IF backup = NoBackup THEN {} ELSE {Reading(backup.rows)}

Promise == INSTANCE ImmutableEvidence WITH
  evidence <- Shown, finished <- db.done, bundle <- Bundle

\* The store keeps its promise: whatever is written, undone, migrated, killed
\* or copied meanwhile, readers see an upload with its original and a result
\* with all its attachments or not at all, then for ever the same bytes, and
\* a backup reads like the one moment its snapshot was taken.
RefinesEvidence == Promise!EvidenceSpec

\* A backup never fails for what is written or undone while it runs: every
\* file its snapshot refers to keeps passing the check of store.read.
SnapshotReadable ==
  backup # NoBackup => \A r \in References(backup.rows) : files[r.key] = r.sha
=============================================================================
