------------------------- MODULE EvidenceStoreProofs -------------------------
(***************************************************************************)
(* Theorems about EvidenceStore, for any analyses, attachments, contents   *)
(* and keys, and any number of kills.                                      *)
(*                                                                         *)
(* The invariant follows a file through the owners it can have: the open   *)
(* transaction that made it, a list of rollback_files, the committed rows  *)
(* that refer to it, or nobody.  The files of an open transaction or of a  *)
(* list are referred to by no committed row and no snapshot, so deleting   *)
(* them harms neither, whoever writes by then; and a transaction's         *)
(* rows agree with the committed ones wherever those refer to a file, so   *)
(* committing them loses none.  For the refinement it is also said what    *)
(* each open transaction is for: a row is only ever given a file that was  *)
(* not there, or moved to one with the same bytes.                         *)
(***************************************************************************)
EXTENDS EvidenceStore, TLAPS

\* What the rows refer to is there, with the bytes they give the digest of.
Readable(rows) ==
  \A s \in Slots :
    rows.ref[s] # NoKey => /\ rows.sha[s] \in Contents
                           /\ files[rows.ref[s]] = rows.sha[s]

\* Bytes in the database belong to an analysis; attachments to a finished one.
Shaped(rows) ==
  /\ \A s \in Slots : rows.blob[s] # NoBytes => Exists(rows, s[1])
  /\ \A s \in Slots : s[2] # Original
                        /\ (rows.ref[s] # NoKey \/ rows.blob[s] # NoBytes)
                      => s[1] \in rows.done

Unreferred(k, rows) == \A s \in Slots : rows.ref[s] # k

\* Files nobody deletes any more stay, and nothing ever refers to them.
LeftAlone == \A k \in left : files[k] # NoFile /\ Unreferred(k, db)

\* The files of an open transaction are its own.
MadeApart ==
  tx # NoTx =>
    /\ tx.keys \subseteq tx.made
    /\ \A k \in tx.keys : files[k] # NoFile /\ k # tx.writing
    /\ \A k \in tx.made :
         /\ k \notin left
         /\ \A u \in undos : k \notin u
         /\ Unreferred(k, db)
         /\ backup # NoBackup => Unreferred(k, backup.rows)

\* So are those that a handler that failed has still to delete.
UndosApart ==
  /\ \A u \in undos : \A k \in u :
       /\ files[k] # NoFile
       /\ k \notin left
       /\ Unreferred(k, db)
       /\ backup # NoBackup => Unreferred(k, backup.rows)
  /\ \A u, v \in undos : u # v => u \cap v = {}

\* The rows of a transaction that goes on could be committed.
RowsReady ==
  /\ Readable(tx.rows)
  /\ Shaped(tx.rows)
  /\ \A s \in Slots : db.ref[s] # NoKey => tx.rows.ref[s] = db.ref[s]
  /\ \A s \in Slots : tx.rows.ref[s] # NoKey =>
                        tx.rows.ref[s] = db.ref[s] \/ tx.rows.ref[s] \in tx.made
  /\ \A s \in Slots : db.ref[s] = NoKey /\ db.blob[s] \in Contents =>
                        IF tx.rows.ref[s] = NoKey
                        THEN tx.rows.blob[s] = db.blob[s]
                        ELSE tx.rows.sha[s] = db.blob[s]

\* What it still has to store goes to slots that refer to nothing.
TodoFits ==
  /\ \A i \in tx.todo :
       /\ tx.rows.ref[i.slot] = NoKey
       /\ tx.rows.blob[i.slot] \in {NoBytes, i.bytes}
       /\ i.slot[2] # Original => i.slot[1] \in tx.rows.done
  /\ \A i, j \in tx.todo : i.slot = j.slot => i = j

\* Every file it made is the one being written, or referred to; and the list
\* of rollback_files holds it, except in the migration.
MadeKnown ==
  /\ tx.writing # NoKey => /\ tx.writing \in tx.made /\ tx.todo # {}
                           /\ Unreferred(tx.writing, tx.rows)
  /\ \A k \in tx.made : files[k] # NoFile =>
       /\ k = tx.writing \/ ~Unreferred(k, tx.rows)
       /\ tx.kind # "migration" => k = tx.writing \/ k \in tx.keys

GoingOn == tx # NoTx /\ ~tx.failing => RowsReady /\ TodoFits /\ MadeKnown

\* What is left of a transaction that fails is on its list.
GoingBack ==
  tx # NoTx /\ tx.failing =>
    /\ tx.writing = NoKey
    /\ \A k \in tx.made :
         files[k] # NoFile /\ tx.kind # "migration" => k \in tx.keys

\* The migration has no list to delete from.
MigrationKeepsNoList == tx # NoTx /\ tx.kind = "migration" => tx.keys = {}

\* Every file has an owner, or is left.
Owned ==
  \A k \in Keys :
    files[k] # NoFile => \/ k \in left
                         \/ ~Unreferred(k, db)
                         \/ tx # NoTx /\ k \in tx.made
                         \/ \E u \in undos : k \in u

IInv ==
  /\ TypeOK
  /\ Readable(db) /\ Shaped(db)
  /\ backup # NoBackup => Readable(backup.rows)
  /\ LeftAlone /\ MadeApart /\ UndosApart /\ GoingOn /\ GoingBack /\ Owned
  /\ MigrationKeepsNoList

----------------------------------------------------------------------------
\* The fields of the three kinds of updated rows.
LEMMA ReferFields ==
  ASSUME NEW rows \in Rows, NEW s \in Slots, NEW k \in Keys, NEW c \in Contents
  PROVE  /\ Refer(rows, s, k, c) \in Rows
         /\ Refer(rows, s, k, c).done = rows.done
         /\ Refer(rows, s, k, c).ref[s] = k
         /\ Refer(rows, s, k, c).sha[s] = c
         /\ Refer(rows, s, k, c).blob[s] = NoBytes
         /\ \A t \in Slots : t # s =>
              /\ Refer(rows, s, k, c).ref[t] = rows.ref[t]
              /\ Refer(rows, s, k, c).sha[t] = rows.sha[t]
              /\ Refer(rows, s, k, c).blob[t] = rows.blob[t]
BY DEF Refer, Rows

\* Nothing is stored in files, and old rows keep their bytes themselves.
LEMMA InitIInv == Init => IInv
<1> SUFFICES ASSUME Init PROVE IInv
  OBVIOUS
<1>1. PICK old \in SUBSET Analyses, c \in Contents, d \in Contents :
        \E withResult \in SUBSET old :
          db = [ref |-> [s \in Slots |-> NoKey],
             sha |-> [s \in Slots |->
                        IF s[1] \in old /\ s[2] = Original THEN d ELSE NoBytes],
             blob |-> [s \in Slots |->
                         IF s[1] \in (IF s[2] = Original THEN old ELSE withResult)
                         THEN c ELSE NoBytes],
             done |-> withResult]
  BY DEF Init
<1>2. PICK withResult \in SUBSET old :
          db = [ref |-> [s \in Slots |-> NoKey],
             sha |-> [s \in Slots |->
                        IF s[1] \in old /\ s[2] = Original THEN d ELSE NoBytes],
             blob |-> [s \in Slots |->
                         IF s[1] \in (IF s[2] = Original THEN old ELSE withResult)
                         THEN c ELSE NoBytes],
             done |-> withResult]
  BY <1>1
<1>3. \A s \in Slots :
        /\ db.ref[s] = NoKey
        /\ db.sha[s] = IF s[1] \in old /\ s[2] = Original THEN d ELSE NoBytes
        /\ db.blob[s] = IF s[1] \in (IF s[2] = Original THEN old ELSE withResult)
                        THEN c ELSE NoBytes
  BY <1>2
<1>4. db \in Rows /\ db.done = withResult
  BY <1>2 DEF Rows
<1>5. TypeOK
  <2>1. /\ files = [k \in Keys |-> NoFile] /\ tx = NoTx /\ started = FALSE
        /\ undos = {} /\ backup = NoBackup /\ left = {} /\ crashes = 0
    BY DEF Init
  <2>3. files \in [Keys -> Contents \cup {Broken, NoFile}]
    BY <2>1
  <2>4. left \subseteq Keys /\ crashes \in 0..MaxCrashes
    BY <2>1, CrashesAssumption
  <2> QED
    BY <1>4, <2>1, <2>3, <2>4 DEF TypeOK
<1>6. Readable(db) /\ \A k \in Keys : Unreferred(k, db)
  BY <1>3, KeysAssumption DEF Readable, Unreferred
<1>7. Shaped(db)
  <2>1. \A s \in Slots : /\ s[1] \in Analyses /\ <<s[1], Original>> \in Slots
                         /\ <<s[1], Original>>[1] = s[1] /\ <<s[1], Original>>[2] = Original
    BY DEF Slots
  <2>2. d # NoBytes
    BY ContentsAssumption
  <2>3. ASSUME NEW s \in Slots, db.blob[s] # NoBytes
        PROVE  db.sha[<<s[1], Original>>] # NoBytes
    <3>1. s[1] \in old
      BY <2>3, <1>2, <1>3
    <3>2. db.sha[<<s[1], Original>>] = d
      BY <3>1, <2>1, <1>3
    <3> QED
      BY <3>2, <2>2
  <2>4. ASSUME NEW s \in Slots, s[2] # Original, db.ref[s] # NoKey \/ db.blob[s] # NoBytes
        PROVE  s[1] \in db.done
    BY <2>4, <1>3, <1>4
  <2> QED
    BY <2>3, <2>4 DEF Shaped, Exists
<1>8. /\ LeftAlone /\ MadeApart /\ UndosApart /\ GoingOn /\ GoingBack /\ Owned
      /\ MigrationKeepsNoList
  BY DEF Init, LeftAlone, MadeApart, UndosApart, GoingOn, GoingBack, Owned,
         MigrationKeepsNoList
<1> QED
  BY <1>5, <1>6, <1>7, <1>8 DEF IInv, Init

----------------------------------------------------------------------------
\* A file that no committed row and no snapshot refers to may change.
LEMMA ReadableKept ==
  ASSUME IInv, NEW k \in Keys, Unreferred(k, db),
         backup # NoBackup => Unreferred(k, backup.rows),
         \A x \in Keys : x # k => files'[x] = files[x],
         UNCHANGED <<db, backup>>
  PROVE  /\ Readable(db)' /\ Shaped(db)'
         /\ (backup # NoBackup => Readable(backup.rows))'
<1>1. db \in Rows /\ (backup # NoBackup => backup.rows \in Rows)
  BY DEF IInv, TypeOK, Backups
<1>2. Readable(db)'
  BY <1>1 DEF IInv, Readable, Unreferred, Rows
<1>3. Shaped(db)'
  BY DEF IInv, Shaped, Exists
<1>4. (backup # NoBackup => Readable(backup.rows))'
  BY <1>1 DEF IInv, Readable, Unreferred, Rows
<1> QED
  BY <1>2, <1>3, <1>4

\* What concerns only the rows of a step that changes no file, no committed
\* row and no backup.
LEMMA StillReadable ==
  ASSUME IInv, UNCHANGED <<files, db, backup>>
  PROVE  /\ Readable(db)' /\ Shaped(db)'
         /\ (backup # NoBackup => Readable(backup.rows))'
BY DEF IInv, Readable, Shaped, Exists

\* A list of rollback_files does not mind what becomes of other files.
LEMMA UndosStay ==
  ASSUME IInv, UNCHANGED <<undos, left, db, backup>>,
         \A u \in undos : \A k \in u : files'[k] = files[k]
  PROVE  UndosApart'
BY DEF IInv, UndosApart, Unreferred

\* A transaction is opened with rows that could be committed as they are.
LEMMA OpenKeepsIInv ==
  ASSUME IInv, NEW kind \in {"enqueue", "finish", "migration"},
         NEW rows \in Rows, NEW todo \in SUBSET Items,
         Open(kind, rows, todo),
         rows.ref = db.ref,
         Readable(rows), Shaped(rows),
         \A s \in Slots : db.ref[s] = NoKey /\ db.blob[s] \in Contents =>
                             rows.blob[s] = db.blob[s],
         \A i \in todo :
           /\ rows.ref[i.slot] = NoKey
           /\ rows.blob[i.slot] \in {NoBytes, i.bytes}
           /\ i.slot[2] # Original => i.slot[1] \in rows.done,
         \A i, j \in todo : i.slot = j.slot => i = j,
         UNCHANGED <<files, db, undos, started, left, backup, crashes>>
  PROVE  IInv'
<1> DEFINE new == [kind |-> kind, rows |-> rows, todo |-> todo, writing |-> NoKey,
                   keys |-> {}, made |-> {}, failing |-> FALSE]
<1>1. tx' = new
  BY DEF Open
<1>2. /\ new \in Transactions /\ new.rows = rows /\ new.todo = todo
      /\ new.writing = NoKey /\ new.keys = {} /\ new.made = {} /\ ~new.failing
  BY DEF Transactions
<1> HIDE DEF new
<1>3. TypeOK'
  BY <1>1, <1>2 DEF IInv, TypeOK
<1>4. RowsReady'
  BY <1>1, <1>2 DEF RowsReady, Readable, Shaped, Exists
<1>5. TodoFits'
  BY <1>1, <1>2 DEF TodoFits
<1>6. MadeKnown'
  BY <1>1, <1>2 DEF MadeKnown
<1>7. MadeApart' /\ GoingBack' /\ GoingOn' /\ MigrationKeepsNoList'
  BY <1>1, <1>2, <1>4, <1>5, <1>6
  DEF MadeApart, GoingBack, GoingOn, MigrationKeepsNoList
<1>8. LeftAlone' /\ Owned'
  BY DEF IInv, LeftAlone, Owned, Unreferred, Open
<1> QED
  BY <1>3, <1>7, <1>8, StillReadable, UndosStay DEF IInv

\* enqueue() opens with a digest for a slot without file and bytes.
LEMMA EnqueueKeepsIInv ==
  ASSUME IInv, NEW a \in Analyses, NEW c \in Contents, BeginEnqueue(a, c)
  PROVE  IInv'
<1> DEFINE o == <<a, Original>>
           rows == [db EXCEPT !.sha[o] = c]
           todo == {[slot |-> o, bytes |-> c]}
<1>1. /\ Open("enqueue", rows, todo) /\ db.sha[o] = NoBytes
      /\ UNCHANGED <<files, db, undos, started, left, backup, crashes>>
  BY DEF BeginEnqueue, Exists
<1>2. db \in Rows /\ o \in Slots /\ o[1] = a /\ o[2] = Original
  BY DEF IInv, TypeOK, Slots
<1>3. /\ rows \in Rows /\ rows.ref = db.ref /\ rows.blob = db.blob
      /\ rows.done = db.done /\ rows.sha[o] = c
      /\ \A s \in Slots : s # o => rows.sha[s] = db.sha[s]
  BY <1>2 DEF Rows
<1> HIDE DEF rows, o
<1>4. c # NoBytes /\ NoBytes \notin Contents
  BY ContentsAssumption
<1>5. db.ref[o] = NoKey
  BY <1>1, <1>2, <1>4 DEF IInv, Readable
<1>6. Readable(rows)
  BY <1>3, <1>5 DEF IInv, Readable
<1>7. \A b : Exists(db, b) /\ <<b, Original>> \in Slots => Exists(rows, b)
  BY <1>3, <1>4 DEF Exists
<1>8. Shaped(rows)
  <2>1. \A s \in Slots : <<s[1], Original>> \in Slots
    BY DEF Slots
  <2> QED
    BY <1>3, <1>7, <2>1 DEF IInv, Shaped
<1>9. db.blob[o] = NoBytes
  BY <1>1, <1>2 DEF IInv, Shaped, Exists, o
<1>10. todo \in SUBSET Items
  BY <1>2 DEF Items
<1>11. \A i \in todo : i.slot = o /\ i.bytes = c
  OBVIOUS
<1>12. \A i, j \in todo : i.slot = j.slot => i = j
  OBVIOUS
<1> HIDE DEF todo
<1> QED
  BY <1>1, <1>2, <1>3, <1>5, <1>6, <1>8, <1>9, <1>10, <1>11, <1>12, OpenKeepsIInv

\* finish() opens for an analysis whose attachments have no rows yet.
LEMMA FinishKeepsIInv ==
  ASSUME IInv, NEW a \in Analyses, NEW P \in SUBSET Positions,
         NEW found \in [P -> Contents], BeginFinish(a, found)
  PROVE  IInv'
<1> DEFINE rows == [db EXCEPT !.done = db.done \cup {a}]
           todo == {[slot |-> <<a, p>>, bytes |-> found[p]] : p \in P}
<1>1. DOMAIN found = P
  OBVIOUS
<1>2. /\ Open("finish", rows, todo) /\ a \notin db.done
      /\ UNCHANGED <<files, db, undos, started, left, backup, crashes>>
  BY <1>1 DEF BeginFinish
<1>3. /\ db \in Rows /\ rows \in Rows /\ rows.ref = db.ref /\ rows.sha = db.sha
      /\ rows.blob = db.blob /\ rows.done = db.done \cup {a}
  BY DEF IInv, TypeOK, Rows
<1>4. ASSUME NEW p \in P
      PROVE  /\ <<a, p>> \in Slots /\ <<a, p>>[1] = a /\ <<a, p>>[2] = p
             /\ p # Original /\ db.ref[<<a, p>>] = NoKey
             /\ db.blob[<<a, p>>] = NoBytes
  <2>1. p # Original /\ <<a, p>> \in Slots
    BY OriginalAssumption DEF Slots
  <2> QED
    BY <2>1, <1>2 DEF IInv, Shaped
<1> HIDE DEF rows
<1>5. Readable(rows)
  BY <1>3 DEF IInv, Readable
<1>6. Shaped(rows)
  BY <1>3 DEF IInv, Shaped, Exists
<1>7. todo \in SUBSET Items
  BY <1>4 DEF Items
<1>8. \A i \in todo : /\ rows.ref[i.slot] = NoKey
                      /\ rows.blob[i.slot] \in {NoBytes, i.bytes}
                      /\ i.slot[2] # Original => i.slot[1] \in rows.done
  BY <1>3, <1>4
<1>9. \A i, j \in todo : i.slot = j.slot => i = j
  OBVIOUS
<1> HIDE DEF todo
<1> QED
  BY <1>2, <1>3, <1>5, <1>6, <1>7, <1>8, <1>9, OpenKeepsIInv

\* The migration opens with the committed rows themselves.
LEMMA MigrationKeepsIInv ==
  ASSUME IInv, BeginMigration
  PROVE  IInv'
<1> DEFINE todo == {i \in Items : db.blob[i.slot] = i.bytes /\ db.ref[i.slot] = NoKey}
<1>1. /\ Open("migration", db, todo)
      /\ UNCHANGED <<files, db, undos, started, left, backup, crashes>>
  BY DEF BeginMigration
<1>2. db \in Rows /\ Readable(db) /\ Shaped(db)
  BY DEF IInv, TypeOK
<1>3. \A i \in todo : i \in Items /\ i.slot \in Slots /\ i.bytes \in Contents
  BY DEF Items
<1>4. \A i \in todo : i.slot[2] # Original => i.slot[1] \in db.done
  BY <1>2, <1>3, ContentsAssumption DEF Shaped
<1>5. \A i, j \in todo : i.slot = j.slot => i = j
  BY <1>3 DEF Items
<1>6. \A i \in todo : db.ref[i.slot] = NoKey /\ db.blob[i.slot] \in {NoBytes, i.bytes}
  OBVIOUS
<1>7. todo \in SUBSET Items
  OBVIOUS
<1> HIDE DEF todo
<1> QED
  BY <1>1, <1>2, <1>4, <1>5, <1>6, <1>7, OpenKeepsIInv

----------------------------------------------------------------------------
\* The types of an open transaction.
LEMMA TxTyped ==
  ASSUME IInv, tx # NoTx
  PROVE  /\ tx \in Transactions /\ tx.rows \in Rows
         /\ tx.todo \subseteq Items /\ tx.writing \in Keys \cup {NoKey}
         /\ tx.made \subseteq Keys /\ tx.keys \subseteq Keys
         /\ tx.failing \in BOOLEAN
         /\ tx.kind \in {"enqueue", "finish", "migration"}
BY DEF IInv, TypeOK, Transactions

\* put() creates its file: nothing refers to the name yet.
LEMMA CreateKeepsIInv ==
  ASSUME IInv, NEW k \in Keys, PutCreates(k)
  PROVE  IInv'
<1> DEFINE new == [tx EXCEPT !.writing = k, !.made = tx.made \cup {k}]
<1>1. /\ tx # NoTx /\ ~tx.failing /\ tx.writing = NoKey /\ tx.todo # {}
      /\ files[k] = NoFile
      /\ files' = [files EXCEPT ![k] = Broken] /\ tx' = new
      /\ UNCHANGED <<db, undos, started, left, backup, crashes>>
  BY DEF PutCreates, FreeKeys
<1>2. /\ new \in Transactions /\ new.rows = tx.rows /\ new.todo = tx.todo
      /\ new.writing = k /\ new.made = tx.made \cup {k} /\ new.keys = tx.keys
      /\ new.kind = tx.kind /\ ~new.failing
  BY <1>1, TxTyped DEF Transactions
<1>3. new # NoTx
  BY <1>2, NoTxAssumption
<1> HIDE DEF new
<1>4. files' \in [Keys -> Contents \cup {Broken, NoFile}]
      /\ \A x \in Keys : x # k => files'[x] = files[x]
  BY <1>1 DEF IInv, TypeOK
<1>5. RowsReady /\ TodoFits /\ MadeKnown
  BY <1>1 DEF IInv, GoingOn
<1>6. /\ Unreferred(k, db) /\ Unreferred(k, tx.rows) /\ k \notin left
      /\ backup # NoBackup => Unreferred(k, backup.rows)
      /\ \A u \in undos : k \notin u
  <2>1. NoFile \notin Contents /\ k # NoKey
    BY ContentsAssumption, KeysAssumption
  <2> QED
    BY <1>1, <1>5, <2>1
    DEF IInv, RowsReady, Readable, Unreferred, LeftAlone, UndosApart
<1>7. TypeOK'
  BY <1>1, <1>2, <1>4 DEF IInv, TypeOK
<1>8. LeftAlone'
  BY <1>1, <1>4, <1>6 DEF IInv, TypeOK, LeftAlone, Unreferred
<1>9. MadeApart'
  <2>1. tx.keys \subseteq Keys /\ \A x \in tx.keys : x # k /\ files'[x] = files[x]
    BY <1>1, <1>4, TxTyped DEF IInv, MadeApart
  <2> QED
    BY <1>1, <1>2, <1>6, <2>1 DEF IInv, MadeApart, Unreferred
<1>10. RowsReady'
  <2>1. Readable(tx.rows)'
    BY <1>1, <1>2, <1>4, <1>5, <1>6, TxTyped DEF RowsReady, Readable, Unreferred, Rows
  <2> QED
    BY <1>1, <1>2, <1>5, <2>1 DEF RowsReady, Shaped, Exists
<1>11. TodoFits'
  BY <1>1, <1>2, <1>5 DEF TodoFits
<1>12. MadeKnown'
  <2>1. Unreferred(tx.writing, tx.rows)'
    BY <1>1, <1>2, <1>6 DEF Unreferred
  <2>2. ASSUME NEW x \in tx.made, x # k, files'[x] # NoFile
        PROVE  /\ ~Unreferred(x, tx.rows)
               /\ tx.kind # "migration" => x \in tx.keys
    <3>1. x \in Keys /\ x # NoKey
      BY <1>1, TxTyped, KeysAssumption
    <3>2. files[x] # NoFile
      BY <3>1, <2>2, <1>4
    <3> QED
      BY <3>1, <3>2, <1>1, <1>5 DEF MadeKnown
  <2>3. \A x : Unreferred(x, tx.rows)' = Unreferred(x, tx.rows)
    BY <1>1, <1>2 DEF Unreferred
  <2> QED
    BY <1>1, <1>2, <2>1, <2>2, <2>3 DEF MadeKnown
<1>13. GoingOn' /\ GoingBack' /\ MigrationKeepsNoList'
  BY <1>1, <1>2, <1>10, <1>11, <1>12
  DEF IInv, GoingOn, GoingBack, MigrationKeepsNoList
<1>14. Owned'
  BY <1>1, <1>2, <1>3, <1>4 DEF IInv, Owned, Unreferred
<1>15. UndosApart'
  BY <1>1, <1>4, <1>6, UndosStay DEF IInv, TypeOK
<1> QED
  BY <1>1, <1>4, <1>6, <1>7, <1>8, <1>9, <1>13, <1>14, <1>15, ReadableKept DEF IInv

\* put() returns and the row refers to the file.
LEMMA AcceptKeepsIInv ==
  ASSUME IInv, NEW i \in Items, PutAccepted(i)
  PROVE  IInv'
<1> DEFINE w == tx.writing
           rows == Refer(tx.rows, i.slot, w, i.bytes)
           new == [tx EXCEPT !.rows = rows, !.todo = tx.todo \ {i},
                             !.keys = Remember(w), !.writing = NoKey]
<1>1. /\ tx # NoTx /\ w # NoKey /\ i \in tx.todo
      /\ files' = [files EXCEPT ![w] = i.bytes] /\ tx' = new
      /\ UNCHANGED <<db, undos, started, left, backup, crashes>>
  BY DEF PutAccepted, PutReturns
<1>2. /\ w \in Keys /\ i.slot \in Slots /\ i.bytes \in Contents
      /\ tx.rows \in Rows
  BY <1>1, TxTyped DEF Items
<1>3. ~tx.failing
  BY <1>1, TxTyped DEF IInv, GoingBack
<1>4. RowsReady /\ TodoFits /\ MadeKnown
  BY <1>1, <1>3 DEF IInv, GoingOn
<1>5. /\ w \in tx.made /\ Unreferred(w, tx.rows) /\ Unreferred(w, db)
      /\ w \notin left /\ (backup # NoBackup => Unreferred(w, backup.rows))
      /\ \A u \in undos : w \notin u
  BY <1>1, <1>4 DEF IInv, MadeKnown, MadeApart
<1>6. /\ rows \in Rows /\ rows.done = tx.rows.done
      /\ rows.ref[i.slot] = w /\ rows.sha[i.slot] = i.bytes
      /\ rows.blob[i.slot] = NoBytes
      /\ \A t \in Slots : t # i.slot => /\ rows.ref[t] = tx.rows.ref[t]
                                       /\ rows.sha[t] = tx.rows.sha[t]
                                       /\ rows.blob[t] = tx.rows.blob[t]
  BY <1>2, ReferFields
<1>7. /\ Remember(w) \subseteq tx.made
      /\ tx.keys \subseteq Remember(w) \/ tx.kind = "migration"
      /\ w \in Remember(w) \/ tx.kind = "migration"
  BY <1>1, <1>5 DEF IInv, MadeApart, Remember
<1> HIDE DEF rows
<1>8. /\ new \in Transactions /\ new.rows = rows /\ new.todo = tx.todo \ {i}
      /\ new.writing = NoKey /\ new.made = tx.made /\ new.keys = Remember(w)
      /\ new.kind = tx.kind /\ ~new.failing
  BY <1>1, <1>3, <1>6, <1>7, TxTyped DEF Transactions
<1>9. new # NoTx
  BY <1>8, NoTxAssumption
<1> HIDE DEF new, w
<1>10. /\ files' \in [Keys -> Contents \cup {Broken, NoFile}] /\ files'[w] = i.bytes
       /\ \A x \in Keys : x # w => files'[x] = files[x]
  BY <1>1, <1>2 DEF IInv, TypeOK
<1>11. TypeOK'
  BY <1>1, <1>8, <1>10 DEF IInv, TypeOK
<1>12. i.bytes # NoFile /\ i.bytes # NoBytes
  BY <1>2, ContentsAssumption
<1>13. LeftAlone'
  BY <1>1, <1>5, <1>10 DEF IInv, TypeOK, LeftAlone, Unreferred
<1>14. MadeApart'
  <2>1. \A x \in Remember(w) : files'[x] # NoFile /\ x # NoKey
    <3>1. \A x \in Remember(w) : x = w \/ (x \in tx.keys /\ x # w)
      BY <1>1 DEF Remember, IInv, MadeApart, w
    <3>2. \A x \in tx.keys : x \in Keys /\ x # NoKey /\ files[x] # NoFile
      BY <1>1, TxTyped, KeysAssumption DEF IInv, MadeApart
    <3> QED
      BY <3>1, <3>2, <1>1, <1>10, <1>12
  <2> QED
    BY <1>1, <1>7, <1>8, <2>1 DEF IInv, MadeApart, Unreferred
<1>15. \A s \in Slots : rows.ref[s] # NoKey => /\ rows.sha[s] \in Contents
                                               /\ files'[rows.ref[s]] = rows.sha[s]
  BY <1>2, <1>4, <1>5, <1>6, <1>10 DEF RowsReady, Readable, Unreferred, Rows
<1>16. Shaped(rows)
  <2>1. \A a : <<a, Original>> \in Slots /\ Exists(tx.rows, a) => Exists(rows, a)
    BY <1>6, <1>12 DEF Exists
  <2>2. \A s \in Slots : <<s[1], Original>> \in Slots
    BY DEF Slots
  <2>3. \A s \in Slots : rows.blob[s] # NoBytes => Exists(rows, s[1])
    BY <1>4, <1>6, <2>1, <2>2 DEF RowsReady, Shaped
  <2>4. ASSUME NEW s \in Slots, s[2] # Original,
               rows.ref[s] # NoKey \/ rows.blob[s] # NoBytes
        PROVE  s[1] \in rows.done
    BY <2>4, <1>1, <1>4, <1>6 DEF RowsReady, Shaped, TodoFits
  <2> QED
    BY <2>3, <2>4 DEF Shaped
<1>17. db.ref[i.slot] = NoKey /\ tx.rows.ref[i.slot] = NoKey
  BY <1>1, <1>2, <1>4 DEF RowsReady, TodoFits
<1>18. \A s \in Slots : db.ref[s] = NoKey /\ db.blob[s] \in Contents =>
                           IF rows.ref[s] = NoKey THEN rows.blob[s] = db.blob[s]
                                                  ELSE rows.sha[s] = db.blob[s]
  <2>1. ASSUME db.blob[i.slot] \in Contents PROVE i.bytes = db.blob[i.slot]
    <3>1. tx.rows.blob[i.slot] = db.blob[i.slot]
      BY <2>1, <1>2, <1>4, <1>17 DEF RowsReady
    <3> QED
      BY <2>1, <3>1, <1>1, <1>4, ContentsAssumption DEF TodoFits
  <2>2. w # NoKey
    BY <1>2, KeysAssumption
  <2> QED
    BY <2>1, <2>2, <1>4, <1>6 DEF RowsReady
<1>19. RowsReady'
  <2>1. Readable(tx.rows)'
    BY <1>1, <1>8, <1>15 DEF Readable
  <2>2. Shaped(tx.rows)'
    BY <1>1, <1>8, <1>16 DEF Shaped, Exists
  <2>3. \A s \in Slots : db.ref[s] # NoKey => rows.ref[s] = db.ref[s]
    BY <1>4, <1>6, <1>17 DEF RowsReady
  <2>4. \A s \in Slots : rows.ref[s] # NoKey =>
                            rows.ref[s] = db.ref[s] \/ rows.ref[s] \in tx.made
    BY <1>4, <1>5, <1>6 DEF RowsReady
  <2> QED
    BY <1>1, <1>8, <1>18, <2>1, <2>2, <2>3, <2>4 DEF RowsReady
<1>20. TodoFits'
  <2>1. \A j \in tx.todo \ {i} : j.slot # i.slot /\ j.slot \in Slots
    BY <1>1, <1>4, TxTyped DEF TodoFits, Items
  <2> QED
    BY <1>1, <1>4, <1>6, <1>8, <2>1 DEF TodoFits
<1>21. MadeKnown'
  <2>1. \A k : ~Unreferred(k, tx.rows) /\ k # NoKey => ~Unreferred(k, rows)
    BY <1>6, <1>17 DEF Unreferred
  <2>2. ~Unreferred(w, rows)
    BY <1>2, <1>6 DEF Unreferred
  <2>3. \A k \in tx.made : files'[k] # NoFile =>
          /\ ~Unreferred(k, rows)
          /\ tx.kind # "migration" => k \in Remember(w)
    <3> SUFFICES ASSUME NEW k \in tx.made, files'[k] # NoFile
                 PROVE  /\ ~Unreferred(k, rows)
                        /\ tx.kind # "migration" => k \in Remember(w)
      OBVIOUS
    <3>1. k \in Keys /\ k # NoKey
      BY <1>1, TxTyped, KeysAssumption
    <3>2. CASE k = w
      BY <3>2, <2>2, <1>7
    <3>3. CASE k # w
      <4>1. files[k] # NoFile
        BY <3>1, <3>3, <1>10
      <4>2. /\ ~Unreferred(k, tx.rows)
            /\ tx.kind # "migration" => k \in tx.keys
        BY <3>3, <4>1, <1>4 DEF MadeKnown, w
      <4> QED
        BY <3>1, <4>2, <2>1, <1>7
    <3> QED
      BY <3>2, <3>3
  <2>4. tx'.rows = rows /\ tx'.made = tx.made /\ tx'.kind = tx.kind
        /\ tx'.keys = Remember(w) /\ tx'.writing = NoKey
    BY <1>1, <1>8
  <2>5. \A k : Unreferred(k, tx'.rows) = Unreferred(k, rows)
    BY <2>4
  <2> QED
    BY <2>3, <2>4 DEF MadeKnown, Unreferred
<1>22. GoingOn' /\ GoingBack' /\ MigrationKeepsNoList'
  BY <1>1, <1>8, <1>19, <1>20, <1>21
  DEF IInv, GoingOn, GoingBack, MigrationKeepsNoList, Remember
<1>23. Owned'
  BY <1>1, <1>5, <1>8, <1>9, <1>10 DEF IInv, Owned, Unreferred
<1>24. UndosApart'
  BY <1>1, <1>5, <1>10, UndosStay DEF IInv, TypeOK
<1> QED
  BY <1>1, <1>2, <1>5, <1>10, <1>11, <1>13, <1>14, <1>22, <1>23, <1>24, ReadableKept
  DEF IInv

----------------------------------------------------------------------------
\* A transaction turns back: a file changes at most, the one being written.
LEMMA TurnBackKeepsIInv ==
  ASSUME IInv, tx # NoTx, ~tx.failing,
         tx' = [tx EXCEPT !.writing = NoKey, !.failing = TRUE],
         files' \in [Keys -> Contents \cup {Broken, NoFile}],
         \A x \in Keys : x # tx.writing => files'[x] = files[x],
         tx.writing # NoKey =>
           files'[tx.writing] = NoFile \/ tx.kind = "migration",
         UNCHANGED <<db, undos, started, left, backup, crashes>>
  PROVE  IInv'
<1> DEFINE new == [tx EXCEPT !.writing = NoKey, !.failing = TRUE]
<1>1. tx' = new
  OBVIOUS
<1>2. /\ new \in Transactions /\ new.writing = NoKey /\ new.failing
      /\ new.made = tx.made /\ new.keys = tx.keys /\ new.kind = tx.kind
  BY TxTyped DEF Transactions
<1>3. new # NoTx
  BY <1>2, NoTxAssumption
<1> HIDE DEF new
<1>4. MadeKnown
  BY DEF IInv, GoingOn
<1>5. \A x \in Keys : x \notin tx.made => files'[x] = files[x]
  BY <1>4, KeysAssumption DEF MadeKnown
<1>6. TypeOK'
  BY <1>1, <1>2 DEF IInv, TypeOK
<1>7. Readable(db)' /\ Shaped(db)' /\ (backup # NoBackup => Readable(backup.rows))'
  <2>1. CASE tx.writing = NoKey
    <3>1. files' = files
      BY <2>1, KeysAssumption DEF IInv, TypeOK
    <3> QED
      BY <3>1, StillReadable
  <2>2. CASE tx.writing # NoKey
    <3>1. /\ tx.writing \in Keys /\ Unreferred(tx.writing, db)
          /\ backup # NoBackup => Unreferred(tx.writing, backup.rows)
      BY <2>2, <1>4, TxTyped DEF IInv, MadeApart, MadeKnown
    <3> QED
      BY <3>1, ReadableKept
  <2> QED
    BY <2>1, <2>2
<1>8. LeftAlone'
  BY <1>5 DEF IInv, TypeOK, LeftAlone, MadeApart, Unreferred
<1>9. MadeApart'
  <2>1. \A k \in tx.keys : files'[k] # NoFile /\ k # NoKey
    BY TxTyped, KeysAssumption DEF IInv, MadeApart
  <2> QED
    BY <1>1, <1>2, <2>1 DEF IInv, MadeApart, Unreferred
<1>10. GoingBack'
  <2> SUFFICES ASSUME NEW k \in tx.made, files'[k] # NoFile, tx.kind # "migration"
               PROVE  k \in tx.keys
    BY <1>1, <1>2 DEF GoingBack
  <2>1. k \in Keys /\ k # NoKey
    BY TxTyped, KeysAssumption
  <2>2. k # tx.writing
    BY <2>1
  <2>3. files[k] # NoFile
    BY <2>1, <2>2
  <2> QED
    BY <2>2, <2>3, <1>4 DEF MadeKnown
<1>11. GoingOn' /\ MigrationKeepsNoList'
  BY <1>1, <1>2 DEF IInv, GoingOn, MigrationKeepsNoList
<1>12. Owned'
  BY <1>1, <1>2, <1>3, <1>5 DEF IInv, Owned, Unreferred
<1>13. UndosApart'
  BY <1>5, UndosStay DEF IInv, TypeOK, MadeApart
<1> QED
  BY <1>6, <1>7, <1>8, <1>9, <1>10, <1>11, <1>12, <1>13 DEF IInv

\* The migration meets a digest that does not fit.
LEMMA RefuseKeepsIInv ==
  ASSUME IInv, NEW i \in Items, PutRefused(i)
  PROVE  IInv'
<1>1. /\ tx # NoTx /\ tx.writing # NoKey /\ tx.kind = "migration"
      /\ files' = [files EXCEPT ![tx.writing] = i.bytes]
      /\ tx' = [tx EXCEPT !.writing = NoKey, !.failing = TRUE]
      /\ UNCHANGED <<db, undos, started, left, backup, crashes>>
  BY DEF PutRefused, PutReturns, Verified
<1>2. i.bytes \in Contents /\ ~tx.failing
  BY <1>1, TxTyped DEF Items, IInv, GoingBack
<1>3. /\ files' \in [Keys -> Contents \cup {Broken, NoFile}]
      /\ \A x \in Keys : x # tx.writing => files'[x] = files[x]
  BY <1>1, <1>2 DEF IInv, TypeOK
<1> QED
  BY <1>1, <1>2, <1>3, TurnBackKeepsIInv

\* put() fails and unlinks its file.
LEMMA PutFailsKeepsIInv ==
  ASSUME IInv, PutFails
  PROVE  IInv'
<1>1. /\ tx # NoTx /\ tx.writing # NoKey /\ tx.writing \in Keys
      /\ files' = [files EXCEPT ![tx.writing] = NoFile]
      /\ tx' = [tx EXCEPT !.writing = NoKey, !.failing = TRUE]
      /\ UNCHANGED <<db, undos, started, left, backup, crashes>>
  BY TxTyped DEF PutFails
<1>2. ~tx.failing
  BY <1>1, TxTyped DEF IInv, GoingBack
<1>3. /\ files' \in [Keys -> Contents \cup {Broken, NoFile}]
      /\ files'[tx.writing] = NoFile
      /\ \A x \in Keys : x # tx.writing => files'[x] = files[x]
  BY <1>1 DEF IInv, TypeOK
<1> QED
  BY <1>1, <1>2, <1>3, TurnBackKeepsIInv

\* The handler fails: its files go to a list of their own, or nobody deletes
\* them.
LEMMA FailKeepsIInv ==
  ASSUME IInv, HandlerFails
  PROVE  IInv'
<1>1. /\ tx # NoTx /\ tx.writing = NoKey /\ tx' = NoTx
      /\ undos' = (undos \cup {tx.keys}) \ {{}}
      /\ left' = (IF tx.kind = "migration" THEN left \cup Written ELSE left)
      /\ UNCHANGED <<files, db, started, backup, crashes>>
  BY DEF HandlerFails
<1>2. /\ tx.keys \subseteq tx.made /\ tx.made \subseteq Keys
      /\ Written \subseteq tx.made /\ \A k \in Written : files[k] # NoFile
  BY <1>1, TxTyped DEF IInv, MadeApart, Written
<1>3. tx.kind = "migration" => tx.keys = {}
  BY <1>1 DEF IInv, MigrationKeepsNoList
<1>4. tx.kind # "migration" => Written \subseteq tx.keys
  <2> SUFFICES ASSUME tx.kind # "migration", NEW k \in Written
               PROVE  k \in tx.keys
    OBVIOUS
  <2>1. k \in tx.made /\ files[k] # NoFile /\ k # tx.writing
    BY <1>1, <1>2, KeysAssumption DEF Written
  <2> QED
    BY <1>1, <2>1, TxTyped DEF IInv, GoingOn, GoingBack, MadeKnown
<1>5. TypeOK'
  BY <1>1, <1>2 DEF IInv, TypeOK
<1>6. LeftAlone'
  BY <1>1, <1>2 DEF IInv, LeftAlone, MadeApart, Unreferred
<1>7. MadeApart' /\ GoingOn' /\ GoingBack' /\ MigrationKeepsNoList'
  BY <1>1 DEF MadeApart, GoingOn, GoingBack, MigrationKeepsNoList
<1>8. UndosApart'
  <2>1. \A k \in tx.keys : /\ files[k] # NoFile /\ k \notin left /\ Unreferred(k, db)
                           /\ backup # NoBackup => Unreferred(k, backup.rows)
                           /\ \A u \in undos : k \notin u
    BY <1>1, <1>2 DEF IInv, MadeApart
  <2>2. \A u \in undos' : \A k \in u :
          /\ files[k] # NoFile /\ k \notin left /\ Unreferred(k, db)
          /\ backup # NoBackup => Unreferred(k, backup.rows)
    BY <1>1, <2>1 DEF IInv, UndosApart
  <2>3. tx.kind = "migration" => \A u \in undos' : \A k \in u : k \notin Written
    BY <1>1, <1>2, <1>3 DEF IInv, MadeApart
  <2>4. \A u, v \in undos' : u # v => u \cap v = {}
    BY <1>1, <2>1 DEF IInv, UndosApart
  <2> QED
    BY <1>1, <2>2, <2>3, <2>4 DEF UndosApart, Unreferred
<1>9. Owned'
  <2> SUFFICES ASSUME NEW k \in Keys, files[k] # NoFile, k \notin left',
                      ~\E s \in Slots : db.ref[s] = k
               PROVE  \E u \in undos' : k \in u
    BY <1>1 DEF Owned, Unreferred
  <2>1. CASE k \in tx.made
    <3>1. k \in tx.keys
      BY <2>1, <1>1, <1>4 DEF Written
    <3> QED
      BY <3>1, <1>1
  <2>2. CASE k \notin tx.made
    <3>1. PICK u \in undos : k \in u
      BY <2>2, <1>1 DEF IInv, Owned, Unreferred
    <3> QED
      BY <3>1, <1>1
  <2> QED
    BY <2>1, <2>2
<1> QED
  BY <1>1, <1>5, <1>6, <1>7, <1>8, <1>9, StillReadable DEF IInv

\* rollback_files deletes one file of its list.
LEMMA UndoKeepsIInv ==
  ASSUME IInv, NEW u \in undos, NEW k \in u, UndoPut(u, k)
  PROVE  IInv'
<1>1. /\ files' = [files EXCEPT ![k] = NoFile]
      /\ undos' = ((undos \ {u}) \cup {u \ {k}}) \ {{}}
      /\ UNCHANGED <<db, tx, started, left, backup, crashes>>
  BY DEF UndoPut
<1>2. /\ u \subseteq Keys /\ k \in Keys /\ k \notin left /\ Unreferred(k, db)
      /\ backup # NoBackup => Unreferred(k, backup.rows)
      /\ tx # NoTx => k \notin tx.made
      /\ \A v \in undos : v # u => k \notin v
  BY DEF IInv, TypeOK, UndosApart, MadeApart
<1>3. /\ files' \in [Keys -> Contents \cup {Broken, NoFile}] /\ files'[k] = NoFile
      /\ \A x \in Keys : x # k => files'[x] = files[x]
  BY <1>1, <1>2 DEF IInv, TypeOK
<1>4. TypeOK'
  BY <1>1, <1>2, <1>3 DEF IInv, TypeOK
<1>5. LeftAlone'
  BY <1>1, <1>2, <1>3 DEF IInv, TypeOK, LeftAlone, Unreferred
<1>6. \A v \in undos' : k \notin v /\ \E w \in undos : v \subseteq w
  BY <1>1, <1>2
<1>7. UndosApart'
  <2>1. \A v \in undos' : \A x \in v :
          /\ files'[x] # NoFile /\ x \notin left' /\ Unreferred(x, db)'
          /\ (backup # NoBackup => Unreferred(x, backup.rows))'
    BY <1>1, <1>3, <1>6 DEF IInv, TypeOK, UndosApart, Unreferred
  <2>2. \A v, w \in undos' : v # w => v \cap w = {}
    BY <1>1 DEF IInv, UndosApart
  <2> QED
    BY <2>1, <2>2 DEF UndosApart
<1>8. MadeApart'
  <2>1. ASSUME tx # NoTx
        PROVE  /\ \A x \in tx.keys : files'[x] # NoFile
               /\ \A x \in tx.made : \A v \in undos' : x \notin v
    BY <2>1, <1>2, <1>3, <1>6, TxTyped DEF IInv, MadeApart
  <2> QED
    BY <1>1, <2>1 DEF IInv, MadeApart, Unreferred
<1>9. GoingOn' /\ GoingBack' /\ MigrationKeepsNoList'
  <2>1. ASSUME tx # NoTx
        PROVE  \A x \in tx.made : x \in Keys /\ files'[x] = files[x]
    BY <2>1, <1>2, <1>3, TxTyped
  <2>2. GoingBack' /\ MigrationKeepsNoList'
    BY <1>1, <2>1 DEF IInv, GoingBack, MigrationKeepsNoList
  <2>3. ASSUME tx # NoTx, ~tx.failing
        PROVE  (RowsReady /\ TodoFits /\ MadeKnown)'
    <3>1. RowsReady /\ TodoFits /\ MadeKnown
      BY <2>3 DEF IInv, GoingOn
    <3>2. Unreferred(k, tx.rows)
      <4>1. k # NoKey
        BY <1>2, KeysAssumption
      <4> QED
        BY <4>1, <3>1, <1>2, <2>3 DEF RowsReady, Unreferred
    <3>3. Readable(tx.rows)'
      BY <1>1, <1>3, <2>3, <3>1, <3>2, TxTyped
      DEF RowsReady, Readable, Unreferred, Rows
    <3>4. RowsReady'
      BY <1>1, <3>1, <3>3 DEF RowsReady, Shaped, Exists
    <3>5. TodoFits'
      BY <1>1, <3>1 DEF TodoFits
    <3>6. MadeKnown'
      BY <1>1, <2>1, <2>3, <3>1 DEF MadeKnown, Unreferred
    <3> QED
      BY <3>4, <3>5, <3>6
  <2> QED
    BY <1>1, <2>2, <2>3 DEF GoingOn
<1>10. Owned'
  <2> SUFFICES ASSUME NEW x \in Keys, files'[x] # NoFile, x \notin left,
                      Unreferred(x, db), ~(tx # NoTx /\ x \in tx.made)
               PROVE  \E v \in undos' : x \in v
    BY <1>1 DEF Owned, Unreferred
  <2>1. x # k /\ files[x] # NoFile
    BY <1>3
  <2>2. PICK v \in undos : x \in v
    BY <2>1 DEF IInv, Owned
  <2>3. CASE v = u
    <3>1. u \ {k} \in undos' /\ x \in u \ {k}
      BY <1>1, <2>1, <2>2, <2>3
    <3> QED
      BY <3>1
  <2>4. CASE v # u
    BY <1>1, <2>2, <2>4
  <2> QED
    BY <2>3, <2>4
<1> QED
  BY <1>1, <1>2, <1>3, <1>4, <1>5, <1>7, <1>8, <1>9, <1>10, ReadableKept DEF IInv

\* A list nobody goes on with: its files stay.
LEMMA StopKeepsIInv ==
  ASSUME IInv, NEW u \in undos, UndoStops(u)
  PROVE  IInv'
<1>1. /\ undos' = undos \ {u} /\ left' = left \cup u /\ crashes' \in 0..MaxCrashes
      /\ UNCHANGED <<files, db, tx, started, backup>>
  BY CrashesAssumption DEF UndoStops, IInv, TypeOK
<1>2. /\ u \subseteq Keys
      /\ \A k \in u : files[k] # NoFile /\ Unreferred(k, db)
      /\ tx # NoTx => \A k \in tx.made : k \notin u
      /\ \A v \in undos' : u \cap v = {}
  BY <1>1 DEF IInv, TypeOK, UndosApart, MadeApart
<1>3. TypeOK'
  BY <1>1, <1>2 DEF IInv, TypeOK
<1>4. LeftAlone'
  BY <1>1, <1>2 DEF IInv, LeftAlone, Unreferred
<1>5. UndosApart'
  BY <1>1, <1>2 DEF IInv, UndosApart, Unreferred
<1>6. MadeApart'
  BY <1>1, <1>2 DEF IInv, MadeApart, Unreferred
<1>7. GoingOn' /\ GoingBack' /\ MigrationKeepsNoList'
  BY <1>1 DEF IInv, GoingOn, GoingBack, RowsReady, Readable, Shaped, Exists,
              TodoFits, MadeKnown, Unreferred, MigrationKeepsNoList
<1>8. Owned'
  BY <1>1 DEF IInv, Owned, Unreferred
<1> QED
  BY <1>1, <1>3, <1>4, <1>5, <1>6, <1>7, <1>8, StillReadable DEF IInv

\* The process is killed: its files stay.
LEMMA CrashKeepsIInv ==
  ASSUME IInv, Crash
  PROVE  IInv'
<1>1. /\ tx # NoTx /\ tx' = NoTx /\ left' = left \cup Written
      /\ crashes' \in 0..MaxCrashes
      /\ UNCHANGED <<files, db, undos, started, backup>>
  BY CrashesAssumption DEF Crash, IInv, TypeOK
<1>2. Written \subseteq tx.made /\ tx.made \subseteq Keys
      /\ \A k \in Written : files[k] # NoFile
  BY <1>1, TxTyped DEF Written
<1>3. TypeOK'
  BY <1>1, <1>2 DEF IInv, TypeOK
<1>4. LeftAlone'
  BY <1>1, <1>2 DEF IInv, LeftAlone, MadeApart, Unreferred
<1>5. UndosApart'
  BY <1>1, <1>2 DEF IInv, UndosApart, MadeApart, Unreferred
<1>6. MadeApart' /\ GoingOn' /\ GoingBack' /\ MigrationKeepsNoList'
  BY <1>1 DEF MadeApart, GoingOn, GoingBack, MigrationKeepsNoList
<1>7. Owned'
  BY <1>1 DEF IInv, Owned, Unreferred, Written
<1> QED
  BY <1>1, <1>3, <1>4, <1>5, <1>6, <1>7, StillReadable DEF IInv

\* The rows of the transaction become the committed ones.
LEMMA CommitKeepsIInv ==
  ASSUME IInv, Commit
  PROVE  IInv'
<1>1. /\ tx # NoTx /\ ~tx.failing /\ tx.todo = {} /\ db' = tx.rows
      /\ started' = (started \/ tx.kind = "migration") /\ tx' = NoTx
      /\ UNCHANGED <<files, undos, left, backup, crashes>>
  BY DEF Commit
<1>2. RowsReady /\ MadeKnown /\ tx.writing = NoKey
  BY <1>1 DEF IInv, GoingOn, MadeKnown
<1>3. TypeOK'
  BY <1>1, TxTyped DEF IInv, TypeOK
<1>4. Readable(db)' /\ Shaped(db)' /\ (backup # NoBackup => Readable(backup.rows))'
  BY <1>1, <1>2 DEF IInv, RowsReady, Readable, Shaped, Exists
<1>5. LeftAlone'
  <2> SUFFICES ASSUME NEW k \in left, NEW s \in Slots, tx.rows.ref[s] = k
               PROVE  FALSE
    BY <1>1 DEF IInv, LeftAlone, Unreferred
  <2>1. k # NoKey
    BY KeysAssumption DEF IInv, TypeOK
  <2>2. db.ref[s] # k /\ k \notin tx.made
    BY <1>1 DEF IInv, LeftAlone, MadeApart, Unreferred
  <2> QED
    BY <2>1, <2>2, <1>2 DEF RowsReady
<1>6. MadeApart' /\ GoingOn' /\ GoingBack' /\ MigrationKeepsNoList'
  BY <1>1 DEF MadeApart, GoingOn, GoingBack, MigrationKeepsNoList
<1>7. Owned'
  <2> SUFFICES ASSUME NEW k \in Keys, files[k] # NoFile, k \notin left,
                      ~\E u \in undos : k \in u
               PROVE  \E s \in Slots : tx.rows.ref[s] = k
    BY <1>1 DEF Owned, Unreferred
  <2>1. k # NoKey
    BY KeysAssumption
  <2>2. CASE ~Unreferred(k, db)
    BY <2>1, <2>2, <1>2 DEF RowsReady, Unreferred
  <2>3. CASE k \in tx.made
    BY <2>1, <2>3, <1>2 DEF MadeKnown, Unreferred
  <2> QED
    BY <2>2, <2>3 DEF IInv, Owned
<1>8. UndosApart'
  <2>1. ASSUME NEW u \in undos, NEW k \in u, NEW s \in Slots, tx.rows.ref[s] = k
        PROVE  FALSE
    <3>1. k # NoKey /\ db.ref[s] # k /\ k \notin tx.made
      BY <1>1, KeysAssumption DEF IInv, TypeOK, UndosApart, MadeApart, Unreferred
    <3> QED
      BY <2>1, <3>1, <1>2 DEF RowsReady
  <2> QED
    BY <1>1, <2>1 DEF IInv, UndosApart, Unreferred
<1> QED
  BY <1>3, <1>4, <1>5, <1>6, <1>7, <1>8 DEF IInv

----------------------------------------------------------------------------
(* Backups change no file, no row and no transaction.                      *)

LEMMA BackupTyped ==
  ASSUME IInv, backup # NoBackup
  PROVE  backup \in Backups /\ backup.rows \in Rows
BY DEF IInv, TypeOK, Backups

\* The writers' part of the invariant, for a step that only works on a backup
\* whose rows, if it still has any, it does not change.
LEMMA WritersUntouched ==
  ASSUME IInv, UNCHANGED <<files, db, tx, undos, started, left>>,
         backup' # NoBackup => backup # NoBackup /\ backup'.rows = backup.rows
  PROVE  /\ Readable(db)' /\ Shaped(db)'
         /\ (backup # NoBackup => Readable(backup.rows))'
         /\ LeftAlone' /\ MadeApart' /\ UndosApart' /\ GoingOn' /\ GoingBack' /\ Owned'
         /\ MigrationKeepsNoList'
<1>1. Readable(db)' /\ Shaped(db)'
  BY DEF IInv, Readable, Shaped, Exists
<1>2. (backup # NoBackup => Readable(backup.rows))'
  BY DEF IInv, Readable
<1>3. LeftAlone' /\ GoingBack' /\ Owned' /\ MigrationKeepsNoList'
  BY DEF IInv, LeftAlone, GoingBack, Owned, Unreferred, MigrationKeepsNoList
<1>4. MadeApart' /\ UndosApart'
  BY DEF IInv, MadeApart, UndosApart, Unreferred
<1>5. GoingOn'
  BY DEF IInv, GoingOn, RowsReady, Readable, Shaped, Exists, TodoFits, MadeKnown, Unreferred
<1> QED
  BY <1>1, <1>2, <1>3, <1>4, <1>5

\* The snapshot is the committed rows, which no open transaction's file is in.
LEMMA SnapshotKeepsIInv ==
  ASSUME IInv, BackupSnapshot
  PROVE  IInv'
<1> DEFINE new == [rows |-> db, copied |-> {}]
<1>1. /\ backup' = new
      /\ UNCHANGED <<files, db, tx, undos, started, left, crashes>>
  BY DEF BackupSnapshot, SnapshotRows
<1>2. new \in Backups /\ new.rows = db
  BY DEF IInv, TypeOK, Backups
<1> HIDE DEF new
<1>3. TypeOK'
  BY <1>1, <1>2 DEF IInv, TypeOK
<1>4. Readable(db)' /\ Shaped(db)'
  BY <1>1 DEF IInv, Readable, Shaped, Exists
<1>5. (backup # NoBackup => Readable(backup.rows))'
  BY <1>1, <1>2 DEF IInv, Readable
<1>6. LeftAlone' /\ GoingBack' /\ Owned' /\ MigrationKeepsNoList'
  BY <1>1 DEF IInv, LeftAlone, GoingBack, Owned, Unreferred, MigrationKeepsNoList
<1>7. MadeApart' /\ UndosApart'
  BY <1>1, <1>2 DEF IInv, MadeApart, UndosApart, Unreferred
<1>8. GoingOn'
  BY <1>1 DEF IInv, GoingOn, RowsReady, Readable, Shaped, Exists, TodoFits, MadeKnown,
              Unreferred
<1> QED
  BY <1>3, <1>4, <1>5, <1>6, <1>7, <1>8 DEF IInv

\* A copy joins the backup.
LEMMA CopyKeepsIInv ==
  ASSUME IInv, backup # NoBackup, NEW r \in References(backup.rows), BackupCopies(r)
  PROVE  IInv'
<1>1. UNCHANGED <<files, db, tx, undos, started, left, crashes>>
  BY DEF BackupCopies
<1>2. backup' \in Backups /\ backup'.rows = backup.rows
  <2>1. r \in [key : Keys, sha : Contents \cup {NoBytes}]
    BY BackupTyped DEF References, Rows
  <2> QED
    BY <2>1, BackupTyped DEF BackupCopies, Backups
<1>3. TypeOK'
  BY <1>1, <1>2 DEF IInv, TypeOK
<1> QED
  BY <1>1, <1>2, <1>3, WritersUntouched DEF IInv

\* The backup ends.
LEMMA EndKeepsIInv ==
  ASSUME IInv, BackupEnds
  PROVE  IInv'
<1>1. /\ backup' = NoBackup
      /\ UNCHANGED <<files, db, tx, undos, started, left, crashes>>
  BY DEF BackupEnds
<1>2. TypeOK'
  BY <1>1 DEF IInv, TypeOK
<1> QED
  BY <1>1, <1>2, WritersUntouched DEF IInv

----------------------------------------------------------------------------
\* The invariant is inductive.
LEMMA NextIInv == IInv /\ [Next]_vars => IInv'
<1> SUFFICES ASSUME IInv, [Next]_vars PROVE IInv'
  OBVIOUS
<1>1. CASE \E a \in Analyses, c \in Contents : BeginEnqueue(a, c)
  BY <1>1, EnqueueKeepsIInv
<1>2. CASE \E a \in Analyses, P \in SUBSET Positions :
             \E found \in [P -> Contents] : BeginFinish(a, found)
  BY <1>2, FinishKeepsIInv
<1>3. CASE BeginMigration
  BY <1>3, MigrationKeepsIInv
<1>4. CASE \/ \E k \in Keys : PutCreates(k)
           \/ \E u \in undos : UndoStops(u) \/ \E k \in u : UndoPut(u, k)
  BY <1>4, CreateKeepsIInv, UndoKeepsIInv, StopKeepsIInv
<1>5. CASE \E i \in Items : PutAccepted(i) \/ PutRefused(i)
  BY <1>5, AcceptKeepsIInv, RefuseKeepsIInv
<1>6. CASE PutFails \/ HandlerFails \/ Commit \/ Crash
  BY <1>6, PutFailsKeepsIInv, FailKeepsIInv, CommitKeepsIInv, CrashKeepsIInv
<1>7. CASE Backup
  BY <1>7, SnapshotKeepsIInv, CopyKeepsIInv, EndKeepsIInv DEF Backup
<1>8. CASE UNCHANGED vars
  <2>1. TypeOK'
    BY <1>8 DEF vars, IInv, TypeOK
  <2> QED
    BY <1>8, <2>1, WritersUntouched DEF vars, IInv
<1> QED
  BY <1>1, <1>2, <1>3, <1>4, <1>5, <1>6, <1>7, <1>8 DEF Next, Writer

\* The invariant of the specification: every file has one owner, and an open
\* transaction can always be committed or undone.
THEOREM Inductive == Spec => []IInv
<1>1. Init => IInv
  BY InitIInv
<1>2. IInv /\ [Next]_vars => IInv'
  BY NextIInv
<1> QED
  BY <1>1, <1>2, PTL DEF Spec

\* Directory, rows, transaction, lists and backup keep their types.
THEOREM TypesAreKept == Spec => []TypeOK
<1>1. IInv => TypeOK
  BY DEF IInv
<1> QED
  BY <1>1, Inductive, PTL

\* Committed rows only refer to complete files.
THEOREM RowsFindTheirFiles == Spec => []ReferencedIsStored
<1>1. IInv => ReferencedIsStored
  BY DEF IInv, Readable, ReferencedIsStored, References
<1> QED
  BY <1>1, Inductive, PTL

\* Whatever no row refers to belongs to the open transaction, is being deleted
\* or was left by a kill or a stopped migration, and is never referred to again.
THEOREM FilesHaveOwners == Spec => []FilesAccounted
<1>1. IInv => FilesAccounted
  <2> SUFFICES ASSUME IInv PROVE FilesAccounted
    OBVIOUS
  <2> DEFINE used == {r.key : r \in References(db)}
  <2>1. \A k : k \in used => ~Unreferred(k, db)
    BY DEF References, Unreferred
  <2>2. ASSUME NEW k, k # NoKey, ~Unreferred(k, db)
        PROVE  k \in used
    <3>1. PICK s \in Slots : db.ref[s] = k
      BY <2>2 DEF Unreferred
    <3> DEFINE r == [key |-> db.ref[s], sha |-> db.sha[s]]
    <3>2. r \in References(db)
      BY <2>2, <3>1 DEF References
    <3>3. r.key = k
      BY <3>1
    <3> QED
      BY <3>2, <3>3
  <2> HIDE DEF used
  <2>3. used \cap left = {}
    BY <2>1 DEF IInv, LeftAlone
  <2> DEFINE open == IF tx = NoTx THEN {} ELSE tx.made
             lists == UNION undos
  <2>4. ASSUME NEW k \in Keys, files[k] # NoFile
        PROVE  k \in used \/ k \in open \/ k \in lists \/ k \in left
    BY <2>2, <2>4, KeysAssumption DEF IInv, Owned
  <2> HIDE DEF open, lists
  <2>5. {k \in Keys : files[k] # NoFile} \subseteq used \cup open \cup lists \cup left
    BY <2>4
  <2> QED
    BY <2>3, <2>5, Zenon DEF FilesAccounted, used, open, lists
<1> QED
  BY <1>1, Inductive, PTL

\* A backup never fails for what is written or undone while it runs.
THEOREM SnapshotsStayReadable == Spec => []SnapshotReadable
<1>1. IInv => SnapshotReadable
  BY DEF IInv, Readable, SnapshotReadable, References
<1> QED
  BY <1>1, Inductive, PTL

\* Bytes that can be read once are read for ever.
THEOREM EvidenceIsImmutable == Spec => BytesKept
<1>1. IInv /\ [Next]_vars =>
        (\A s \in Slots : Bytes(s) \in Contents => Bytes(s)' = Bytes(s))
  <2> SUFFICES ASSUME IInv, [Next]_vars, NEW s \in Slots, Bytes(s) \in Contents
               PROVE  Bytes(s)' = Bytes(s)
    OBVIOUS
  <2>1. CASE Commit
    <3>1. /\ tx # NoTx /\ ~tx.failing /\ db' = tx.rows /\ files' = files
      BY <2>1 DEF Commit
    <3>2. RowsReady
      BY <3>1 DEF IInv, GoingOn
    <3>3. CASE db.ref[s] # NoKey
      BY <3>1, <3>2, <3>3 DEF Bytes, BytesIn, RowsReady
    <3>4. CASE db.ref[s] = NoKey
      <4>1. Bytes(s) = db.blob[s] /\ db.blob[s] \in Contents
        BY <3>4 DEF Bytes, BytesIn
      <4>2. IF tx.rows.ref[s] = NoKey THEN tx.rows.blob[s] = db.blob[s]
                                      ELSE tx.rows.sha[s] = db.blob[s]
        BY <3>2, <3>4, <4>1 DEF RowsReady
      <4>3. tx.rows.ref[s] # NoKey => files[tx.rows.ref[s]] = tx.rows.sha[s]
        BY <3>2 DEF RowsReady, Readable
      <4> QED
        BY <3>1, <4>1, <4>2, <4>3 DEF Bytes, BytesIn
    <3> QED
      BY <3>3, <3>4
  <2>2. ASSUME db' = db, NEW k \in Keys, Unreferred(k, db),
               \A x \in Keys : x # k => files'[x] = files[x]
        PROVE  Bytes(s)' = Bytes(s)
    <3>1. db.ref[s] # NoKey => db.ref[s] \in Keys /\ db.ref[s] # k
      BY <2>2 DEF IInv, TypeOK, Rows, Unreferred
    <3> QED
      BY <2>2, <3>1 DEF Bytes, BytesIn
  <2>3. ASSUME db' = db, files' = files
        PROVE  Bytes(s)' = Bytes(s)
    BY <2>3 DEF Bytes, BytesIn
  <2>4. ASSUME NEW k \in Keys, PutCreates(k)
        PROVE  Bytes(s)' = Bytes(s)
    <3>1. Unreferred(k, db)
      BY <2>4, ContentsAssumption, KeysAssumption
      DEF PutCreates, FreeKeys, IInv, Readable, Unreferred
    <3> QED
      BY <2>2, <2>4, <3>1 DEF PutCreates, IInv, TypeOK
  <2>5. ASSUME NEW u \in undos, NEW k \in u, UndoPut(u, k)
        PROVE  Bytes(s)' = Bytes(s)
    <3>1. k \in Keys /\ Unreferred(k, db)
      BY DEF IInv, TypeOK, UndosApart
    <3> QED
      BY <2>2, <2>5, <3>1 DEF UndoPut, IInv, TypeOK
  <2>6. CASE PutFails \/ \E i \in Items : PutAccepted(i) \/ PutRefused(i)
    <3>1. /\ tx # NoTx /\ tx.writing # NoKey /\ db' = db
      BY <2>6 DEF PutFails, PutAccepted, PutRefused, PutReturns
    <3>2. tx.writing \in Keys
      BY <3>1, TxTyped
    <3>3. \A x \in Keys : x # tx.writing => files'[x] = files[x]
      BY <2>6 DEF PutFails, PutAccepted, PutRefused, PutReturns, IInv, TypeOK
    <3>4. Unreferred(tx.writing, db)
      BY <3>1, TxTyped DEF IInv, GoingOn, GoingBack, MadeKnown, MadeApart
    <3> QED
      BY <2>2, <3>1, <3>2, <3>3, <3>4
  <2>7. CASE Backup
    BY <2>3, <2>7 DEF Backup, BackupSnapshot, BackupCopies, BackupEnds
  <2>8. CASE \/ BeginMigration \/ HandlerFails \/ Crash \/ UNCHANGED vars
             \/ \E u \in undos : UndoStops(u)
    BY <2>3, <2>8 DEF BeginMigration, HandlerFails, Crash, UndoStops, vars
  <2>9. CASE \E a \in Analyses, c \in Contents : BeginEnqueue(a, c)
    BY <2>3, <2>9 DEF BeginEnqueue
  <2>10. CASE \E a \in Analyses, P \in SUBSET Positions :
                \E found \in [P -> Contents] : BeginFinish(a, found)
    BY <2>3, <2>10 DEF BeginFinish
  <2> QED
    BY <2>1, <2>4, <2>5, <2>6, <2>7, <2>8, <2>9, <2>10 DEF Next, Writer
<1> QED
  BY <1>1, Inductive, PTL DEF Spec, BytesKept

----------------------------------------------------------------------------
(* The promise of ImmutableEvidence.  IInv says that what a transaction     *)
(* stores can be read; what is shown as one step besides needs to know what *)
(* a transaction is for: it adds an original, or a result with attachments, *)
(* or nothing at all to what the committed rows show.                      *)

Empty(rows, s) == rows.ref[s] = NoKey /\ rows.blob[s] = NoBytes

\* A digest of an original is only recorded with its bytes.
Known(rows) ==
  \A a \in Analyses : Exists(rows, a) => ~Empty(rows, <<a, Original>>)

\* Beyond these slots and results the transaction shows nothing new.
AddsOnly(slots, results) ==
  /\ tx.rows.done = db.done \cup results
  /\ \A s \in Slots \ slots :
       /\ Empty(db, s) => Empty(tx.rows, s)
       /\ tx.rows.sha[s] # db.sha[s] => tx.rows.ref[s] # NoKey
  /\ \A i \in tx.todo : i.slot \in slots \/ db.blob[i.slot] # NoBytes

AddsOriginal(a) ==
  /\ Empty(db, <<a, Original>>)
  /\ AddsOnly({<<a, Original>>}, {})
  /\ \/ tx.rows.ref[<<a, Original>>] # NoKey
     \/ \E i \in tx.todo : i.slot = <<a, Original>>

AddsResult(a) ==
  /\ a \notin db.done
  /\ Exists(db, a)
  /\ AddsOnly({a} \X Positions, {a})

AddsNothing == AddsOnly({}, {})

HasPurpose == (\E a \in Analyses : AddsOriginal(a) \/ AddsResult(a)) \/ AddsNothing

Purposeful == Known(db) /\ (tx # NoTx /\ ~tx.failing => HasPurpose)

\* No transaction is open when the store starts.
LEMMA InitPurposeful == Init => Purposeful
<1> SUFFICES ASSUME Init PROVE Purposeful
  OBVIOUS
<1>1. PICK old \in SUBSET Analyses, c \in Contents, d \in Contents :
        \E withResult \in SUBSET old :
          db = [ref |-> [s \in Slots |-> NoKey],
             sha |-> [s \in Slots |->
                        IF s[1] \in old /\ s[2] = Original THEN d ELSE NoBytes],
             blob |-> [s \in Slots |->
                         IF s[1] \in (IF s[2] = Original THEN old ELSE withResult)
                         THEN c ELSE NoBytes],
             done |-> withResult]
  BY DEF Init
<1>2. \A s \in Slots :
        /\ db.sha[s] = IF s[1] \in old /\ s[2] = Original THEN d ELSE NoBytes
        /\ s[2] = Original => db.blob[s] = IF s[1] \in old THEN c ELSE NoBytes
  BY <1>1
<1>3. \A a \in Analyses : /\ <<a, Original>> \in Slots
                          /\ <<a, Original>>[1] = a /\ <<a, Original>>[2] = Original
  BY DEF Slots
<1>4. Known(db)
  BY <1>2, <1>3, ContentsAssumption DEF Known, Exists, Empty
<1> QED
  BY <1>4 DEF Purposeful, Init

\* A transaction that goes on with the same rows has the same purpose.
LEMMA SamePurpose ==
  ASSUME Purposeful, db' = db,
         tx' = NoTx \/ (tx' # NoTx /\ tx'.failing)
           \/ (/\ tx # NoTx /\ ~tx.failing
               /\ tx'.rows = tx.rows /\ tx'.todo = tx.todo)
  PROVE  Purposeful'
<1>1. CASE tx' = NoTx \/ (tx' # NoTx /\ tx'.failing)
  BY <1>1 DEF Purposeful, Known, Exists, Empty
<1>2. CASE /\ tx # NoTx /\ ~tx.failing
           /\ tx'.rows = tx.rows /\ tx'.todo = tx.todo
  <2>1. HasPurpose
    BY <1>2 DEF Purposeful
  <2>2. ASSUME NEW slots, NEW results, AddsOnly(slots, results)
        PROVE  AddsOnly(slots, results)'
    BY <1>2, <2>2 DEF AddsOnly, Empty
  <2>3. ASSUME NEW a \in Analyses, AddsOriginal(a)
        PROVE  AddsOriginal(a)'
    BY <1>2, <2>2, <2>3 DEF AddsOriginal, Empty
  <2>4. ASSUME NEW a \in Analyses, AddsResult(a)
        PROVE  AddsResult(a)'
    BY <2>2, <2>4 DEF AddsResult, Exists
  <2>5. HasPurpose'
    BY <2>1, <2>2, <2>3, <2>4 DEF HasPurpose, AddsNothing
  <2> QED
    BY <2>5 DEF Purposeful, Known, Exists, Empty
<1> QED
  BY <1>1, <1>2

\* Each of the three transactions begins with a purpose.
LEMMA BeginsWithPurpose ==
  ASSUME IInv, Purposeful,
         \/ \E a \in Analyses, c \in Contents : BeginEnqueue(a, c)
         \/ \E a \in Analyses, P \in SUBSET Positions :
              \E found \in [P -> Contents] : BeginFinish(a, found)
         \/ BeginMigration
  PROVE  Purposeful'
<1>1. db' = db /\ db \in Rows /\ Readable(db) /\ Shaped(db)
  BY DEF IInv, TypeOK, BeginEnqueue, BeginFinish, BeginMigration
<1>2. Known(db)'
  BY <1>1 DEF Purposeful, Known, Exists, Empty
<1>3. ASSUME NEW a \in Analyses, NEW c \in Contents, BeginEnqueue(a, c)
      PROVE  AddsOriginal(a)'
  <2> DEFINE o == <<a, Original>>
  <2>1. /\ tx'.rows = [db EXCEPT !.sha[o] = c]
        /\ tx'.todo = {[slot |-> o, bytes |-> c]}
        /\ db.sha[o] = NoBytes
    BY <1>3 DEF BeginEnqueue, Open, Exists
  <2>2. o \in Slots /\ o[1] = a /\ o[2] = Original
    BY DEF Slots
  <2>3. /\ tx'.rows.ref = db.ref /\ tx'.rows.blob = db.blob
        /\ tx'.rows.done = db.done
        /\ \A s \in Slots : s # o => tx'.rows.sha[s] = db.sha[s]
    BY <1>1, <2>1, <2>2 DEF Rows
  <2>4. \A i \in tx'.todo : i.slot = o
    BY <2>1
  <2>5. \E i \in tx'.todo : i.slot = o
    BY <2>1
  <2>6. Empty(db, o)
    BY <1>1, <2>1, <2>2, ContentsAssumption DEF Empty, Readable, Shaped, Exists
  <2> HIDE DEF o
  <2>7. AddsOnly({o}, {})'
    BY <1>1, <2>3, <2>4 DEF AddsOnly, Empty
  <2> QED
    BY <1>1, <2>5, <2>6, <2>7 DEF AddsOriginal, Empty, o
<1>4. ASSUME NEW a \in Analyses, NEW P \in SUBSET Positions,
             NEW found \in [P -> Contents], BeginFinish(a, found)
      PROVE  AddsResult(a)'
  <2>1. /\ tx'.rows = [db EXCEPT !.done = db.done \cup {a}]
        /\ tx'.todo = {[slot |-> <<a, p>>, bytes |-> found[p]] : p \in P}
        /\ Exists(db, a) /\ a \notin db.done
    BY <1>4 DEF BeginFinish, Open
  <2>2. /\ tx'.rows.ref = db.ref /\ tx'.rows.blob = db.blob
        /\ tx'.rows.sha = db.sha /\ tx'.rows.done = db.done \cup {a}
    BY <1>1, <2>1 DEF Rows
  <2>3. \A i \in tx'.todo : i.slot \in {a} \X Positions
    BY <2>1
  <2>4. AddsOnly({a} \X Positions, {a})'
    BY <1>1, <2>2, <2>3 DEF AddsOnly, Empty
  <2> QED
    BY <1>1, <2>1, <2>4 DEF AddsResult, Exists
<1>5. ASSUME BeginMigration
      PROVE  AddsNothing'
  <2>1. /\ tx'.rows = db
        /\ tx'.todo = {i \in Items : db.blob[i.slot] = i.bytes /\ db.ref[i.slot] = NoKey}
    BY <1>5 DEF BeginMigration, Open
  <2>2. \A i \in tx'.todo : db.blob[i.slot] # NoBytes
    BY <2>1, ContentsAssumption DEF Items
  <2> QED
    BY <1>1, <2>1, <2>2 DEF AddsNothing, AddsOnly, Empty
<1>6. HasPurpose'
  BY <1>3, <1>4, <1>5 DEF HasPurpose
<1> QED
  BY <1>2, <1>6 DEF Purposeful

\* A stored file goes where the transaction was opened to put it.
LEMMA AcceptKeepsPurpose ==
  ASSUME IInv, Purposeful, NEW i \in Items, PutAccepted(i)
  PROVE  Purposeful'
<1> DEFINE w == tx.writing
           rows == Refer(tx.rows, i.slot, w, i.bytes)
<1>1. /\ tx # NoTx /\ w # NoKey /\ i \in tx.todo /\ db' = db
      /\ tx' = [tx EXCEPT !.rows = rows, !.todo = tx.todo \ {i},
                          !.keys = Remember(w), !.writing = NoKey]
  BY DEF PutAccepted, PutReturns
<1>2. /\ w \in Keys /\ i.slot \in Slots /\ i.bytes \in Contents
      /\ tx.rows \in Rows /\ ~tx.failing
  BY <1>1, TxTyped DEF Items, IInv, GoingBack
<1>3. /\ rows.done = tx.rows.done /\ rows.ref[i.slot] = w
      /\ \A t \in Slots : t # i.slot => /\ rows.ref[t] = tx.rows.ref[t]
                                       /\ rows.sha[t] = tx.rows.sha[t]
                                       /\ rows.blob[t] = tx.rows.blob[t]
  BY <1>2, ReferFields
<1> HIDE DEF rows
<1>4. tx'.rows = rows /\ tx'.todo = tx.todo \ {i}
  BY <1>1, TxTyped DEF Transactions
<1> HIDE DEF w
<1>5. ASSUME NEW slots, NEW results, AddsOnly(slots, results)
      PROVE  AddsOnly(slots, results)'
  <2>1. i.slot \in slots \/ ~Empty(db, i.slot)
    BY <1>1, <1>5 DEF AddsOnly, Empty
  <2>2. tx'.rows.done = db'.done \cup results
    BY <1>1, <1>3, <1>4, <1>5 DEF AddsOnly
  <2>3. ASSUME NEW s \in Slots \ slots
        PROVE  /\ Empty(db, s) => Empty(rows, s)
               /\ rows.sha[s] # db.sha[s] => rows.ref[s] # NoKey
    BY <1>1, <1>3, <1>5, <2>1, <2>3 DEF AddsOnly, Empty
  <2>4. \A j \in tx'.todo : j.slot \in slots \/ db.blob[j.slot] # NoBytes
    BY <1>4, <1>5 DEF AddsOnly
  <2> QED
    BY <1>1, <1>4, <2>2, <2>3, <2>4 DEF AddsOnly, Empty
<1>6. ASSUME NEW a \in Analyses, AddsOriginal(a)
      PROVE  AddsOriginal(a)'
  <2> DEFINE o == <<a, Original>>
  <2>1. o \in Slots
    BY DEF Slots
  <2>2. CASE i.slot = o
    BY <1>1, <1>3, <1>4, <1>5, <1>6, <2>2 DEF AddsOriginal, Empty
  <2>3. CASE i.slot # o
    <3>1. tx'.rows.ref[o] # NoKey \/ \E j \in tx'.todo : j.slot = o
      BY <1>3, <1>4, <1>6, <2>1, <2>3 DEF AddsOriginal
    <3> QED
      BY <1>1, <1>5, <1>6, <3>1 DEF AddsOriginal, Empty
  <2> QED
    BY <2>2, <2>3
<1>7. ASSUME NEW a \in Analyses, AddsResult(a)
      PROVE  AddsResult(a)'
  BY <1>1, <1>5, <1>7 DEF AddsResult, Exists
<1>8. HasPurpose'
  BY <1>1, <1>2, <1>5, <1>6, <1>7 DEF Purposeful, HasPurpose, AddsNothing
<1> QED
  BY <1>1, <1>8 DEF Purposeful, Known, Exists, Empty

\* What is committed records no digest without bytes.
LEMMA CommitKeepsPurpose ==
  ASSUME IInv, Purposeful, Commit
  PROVE  Purposeful'
<1>1. /\ tx # NoTx /\ ~tx.failing /\ tx.todo = {} /\ db' = tx.rows /\ tx' = NoTx
  BY DEF Commit
<1>2. RowsReady /\ HasPurpose /\ Known(db) /\ db \in Rows /\ tx.rows \in Rows
  BY <1>1, TxTyped DEF IInv, GoingOn, Purposeful, TypeOK
<1>3. ASSUME NEW a \in Analyses, Exists(tx.rows, a)
      PROVE  ~Empty(tx.rows, <<a, Original>>)
  <2> DEFINE o == <<a, Original>>
  <2>1. o \in Slots
    BY DEF Slots
  <2>2. \A b \in Analyses : o \notin {b} \X Positions
    BY OriginalAssumption
  <2>3. ASSUME NEW slots, NEW results, AddsOnly(slots, results), o \notin slots
        PROVE  ~Empty(tx.rows, o)
    <3>1. CASE tx.rows.sha[o] # db.sha[o]
      BY <2>1, <2>3, <3>1 DEF AddsOnly, Empty
    <3>2. CASE tx.rows.sha[o] = db.sha[o]
      <4>1. ~Empty(db, o)
        BY <1>2, <1>3, <3>2 DEF Known, Exists
      <4>2. CASE db.ref[o] # NoKey
        BY <1>2, <2>1, <4>2 DEF RowsReady, Empty
      <4>3. CASE db.ref[o] = NoKey
        <5>1. db.blob[o] \in Contents
          BY <1>2, <2>1, <4>1, <4>3 DEF Rows, Empty
        <5>2. tx.rows.ref[o] = NoKey => tx.rows.blob[o] # NoBytes
          BY <1>2, <2>1, <4>3, <5>1, ContentsAssumption DEF RowsReady
        <5> QED
          BY <5>2 DEF Empty
      <4> QED
        BY <4>2, <4>3
    <3> QED
      BY <3>1, <3>2
  <2>4. ASSUME NEW b \in Analyses, AddsOriginal(b)
        PROVE  ~Empty(tx.rows, o)
    <3>1. CASE b = a
      BY <1>1, <2>4, <3>1 DEF AddsOriginal, Empty
    <3>2. CASE b # a
      <4>1. o \notin {<<b, Original>>}
        BY <3>2
      <4> QED
        BY <2>3, <2>4, <4>1 DEF AddsOriginal
    <3> QED
      BY <3>1, <3>2
  <2> QED
    BY <1>2, <2>2, <2>3, <2>4 DEF HasPurpose, AddsResult, AddsNothing
<1> QED
  BY <1>1, <1>3 DEF Purposeful, Known, Exists, Empty

\* Every open transaction keeps its purpose until it ends.
LEMMA NextPurposeful == IInv /\ Purposeful /\ [Next]_vars => Purposeful'
<1> SUFFICES ASSUME IInv, Purposeful, [Next]_vars PROVE Purposeful'
  OBVIOUS
<1>1. CASE \/ \E a \in Analyses, c \in Contents : BeginEnqueue(a, c)
           \/ \E a \in Analyses, P \in SUBSET Positions :
                \E found \in [P -> Contents] : BeginFinish(a, found)
           \/ BeginMigration
  BY <1>1, BeginsWithPurpose
<1>2. ASSUME NEW i \in Items, PutAccepted(i)
      PROVE  Purposeful'
  BY <1>2, AcceptKeepsPurpose
<1>3. CASE Commit
  BY <1>3, CommitKeepsPurpose
<1>4. ASSUME NEW k \in Keys, PutCreates(k)
      PROVE  Purposeful'
  <2>1. /\ tx # NoTx /\ ~tx.failing /\ db' = db
        /\ tx' = [tx EXCEPT !.writing = k, !.made = tx.made \cup {k}]
    BY <1>4 DEF PutCreates
  <2>2. tx'.rows = tx.rows /\ tx'.todo = tx.todo
    BY <2>1, TxTyped DEF Transactions
  <2> QED
    BY <2>1, <2>2, SamePurpose
<1>5. CASE PutFails \/ \E i \in Items : PutRefused(i)
  <2>1. /\ tx # NoTx /\ db' = db
        /\ tx' = [tx EXCEPT !.writing = NoKey, !.failing = TRUE]
    BY <1>5 DEF PutRefused, PutReturns, PutFails
  <2>2. tx' \in Transactions /\ tx'.failing
    BY <2>1, TxTyped DEF Transactions
  <2>3. tx' # NoTx
    BY <2>2, NoTxAssumption
  <2> QED
    BY <2>1, <2>2, <2>3, SamePurpose
<1>6. CASE HandlerFails \/ Crash
  BY <1>6, SamePurpose DEF HandlerFails, Crash
<1>7. CASE \/ Backup \/ UNCHANGED vars
           \/ \E u \in undos : UndoStops(u) \/ \E k \in u : UndoPut(u, k)
  <2>1. tx' = tx /\ db' = db
    BY <1>7 DEF Backup, BackupSnapshot, BackupCopies, BackupEnds, UndoStops,
                UndoPut, vars
  <2>2. CASE tx = NoTx \/ (tx # NoTx /\ tx.failing)
    BY <2>1, <2>2, SamePurpose
  <2>3. CASE tx # NoTx /\ ~tx.failing
    BY <2>1, <2>3, SamePurpose
  <2> QED
    BY <2>2, <2>3, TxTyped
<1> QED
  BY <1>1, <1>2, <1>3, <1>4, <1>5, <1>6, <1>7 DEF Next, Writer

----------------------------------------------------------------------------
(* The refinement.                                                         *)

\* What is shown of the committed rows, slot by slot.
LEMMA ShownBytes ==
  ASSUME IInv
  PROVE  /\ Shown = [s \in Slots |-> Bytes(s)]
         /\ Shown \in Promise!Readings
         /\ \A s \in Slots : Shown[s] = NoBytes <=> Empty(db, s)
<1>1. db \in Rows /\ Readable(db)
  BY DEF IInv, TypeOK
<1>2. Shown = [s \in Slots |-> Bytes(s)]
  BY DEF Shown, Reading, Bytes
<1>3. ASSUME NEW s \in Slots
      PROVE  /\ Bytes(s) \in Contents \cup {NoBytes}
             /\ Bytes(s) = NoBytes <=> Empty(db, s)
  <2>1. db.ref[s] # NoKey => Bytes(s) \in Contents
    BY <1>1 DEF Readable, Bytes, BytesIn
  <2>2. db.ref[s] = NoKey => Bytes(s) = db.blob[s]
    BY DEF Bytes, BytesIn
  <2>3. db.blob[s] \in Contents \cup {NoBytes} /\ NoBytes \notin Contents
    BY <1>1, ContentsAssumption DEF Rows
  <2> QED
    BY <2>1, <2>2, <2>3 DEF Empty
<1> QED
  BY <1>2, <1>3 DEF Promise!Readings, Promise!Slots, Slots

\* Except for a commit, a step changes at most one file, which no committed
\* row and no row of a snapshot refers to.
LEMMA FilesChangeApart ==
  ASSUME IInv, [Next]_vars, ~Commit
  PROVE  /\ db' = db
         /\ \/ files' = files
            \/ \E k \in Keys :
                 /\ Unreferred(k, db)
                 /\ backup # NoBackup => Unreferred(k, backup.rows)
                 /\ backup' = backup
                 /\ \A x \in Keys : x # k => files'[x] = files[x]
<1>1. ASSUME NEW k \in Keys, PutCreates(k)
      PROVE  /\ db' = db /\ backup' = backup /\ Unreferred(k, db)
             /\ backup # NoBackup => Unreferred(k, backup.rows)
             /\ \A x \in Keys : x # k => files'[x] = files[x]
  <2>1. files[k] = NoFile /\ k # NoKey
    BY <1>1, KeysAssumption DEF PutCreates, FreeKeys
  <2>2. Unreferred(k, db) /\ (backup # NoBackup => Unreferred(k, backup.rows))
    BY <2>1, ContentsAssumption DEF IInv, Readable, Unreferred
  <2> QED
    BY <1>1, <2>2 DEF PutCreates, IInv, TypeOK
<1>2. ASSUME NEW u \in undos, NEW k \in u, UndoPut(u, k)
      PROVE  /\ k \in Keys /\ db' = db /\ backup' = backup /\ Unreferred(k, db)
             /\ backup # NoBackup => Unreferred(k, backup.rows)
             /\ \A x \in Keys : x # k => files'[x] = files[x]
  BY <1>2 DEF UndoPut, IInv, UndosApart, TypeOK
<1>3. CASE PutFails \/ \E i \in Items : PutAccepted(i) \/ PutRefused(i)
  <2>1. /\ tx # NoTx /\ tx.writing # NoKey /\ db' = db /\ backup' = backup
    BY <1>3 DEF PutFails, PutAccepted, PutRefused, PutReturns
  <2>2. tx.writing \in Keys
    BY <2>1, TxTyped
  <2>3. \A x \in Keys : x # tx.writing => files'[x] = files[x]
    BY <1>3 DEF PutFails, PutAccepted, PutRefused, PutReturns, IInv, TypeOK
  <2>4. /\ Unreferred(tx.writing, db)
        /\ backup # NoBackup => Unreferred(tx.writing, backup.rows)
    BY <2>1, TxTyped DEF IInv, GoingOn, GoingBack, MadeKnown, MadeApart
  <2> QED
    BY <2>1, <2>2, <2>3, <2>4
<1>4. CASE Backup
  BY <1>4 DEF Backup, BackupSnapshot, BackupCopies, BackupEnds
<1>5. CASE \/ BeginMigration \/ HandlerFails \/ Crash \/ UNCHANGED vars
           \/ \E u \in undos : UndoStops(u)
  BY <1>5 DEF BeginMigration, HandlerFails, Crash, UndoStops, vars
<1>6. CASE \E a \in Analyses, c \in Contents : BeginEnqueue(a, c)
  BY <1>6 DEF BeginEnqueue
<1>7. CASE \E a \in Analyses, P \in SUBSET Positions :
             \E found \in [P -> Contents] : BeginFinish(a, found)
  BY <1>7 DEF BeginFinish
<1> QED
  BY <1>1, <1>2, <1>3, <1>4, <1>5, <1>6, <1>7 DEF Next, Writer

\* Hence what can be read through committed rows or a snapshot stays.
LEMMA ReadingsStay ==
  ASSUME IInv, [Next]_vars, ~Commit
  PROVE  /\ Reading(db)' = Reading(db)
         /\ backup # NoBackup /\ backup'.rows = backup.rows =>
              Reading(backup.rows)' = Reading(backup.rows)
<1>1. db' = db /\ db \in Rows /\ (backup # NoBackup => backup.rows \in Rows)
  BY FilesChangeApart DEF IInv, TypeOK, Backups
<1>2. CASE files' = files
  BY <1>1, <1>2 DEF Reading, BytesIn
<1>3. ASSUME NEW k \in Keys, Unreferred(k, db),
             backup # NoBackup => Unreferred(k, backup.rows),
             \A x \in Keys : x # k => files'[x] = files[x]
      PROVE  /\ Reading(db)' = Reading(db)
             /\ backup # NoBackup /\ backup'.rows = backup.rows =>
                  Reading(backup.rows)' = Reading(backup.rows)
  <2>1. \A s \in Slots : BytesIn(db, s)' = BytesIn(db, s)
    BY <1>1, <1>3 DEF BytesIn, Unreferred, Rows
  <2>2. Reading(db)' = Reading(db)
    BY <1>1, <2>1 DEF Reading
  <2>3. ASSUME backup # NoBackup, backup'.rows = backup.rows
        PROVE  Reading(backup.rows)' = Reading(backup.rows)
    <3>1. \A s \in Slots : BytesIn(backup.rows, s)' = BytesIn(backup.rows, s)
      BY <1>1, <1>3, <2>3 DEF BytesIn, Unreferred, Rows
    <3> QED
      BY <2>3, <3>1 DEF Reading
  <2> QED
    BY <2>2, <2>3
<1> QED
  BY <1>2, <1>3, FilesChangeApart

\* A commit shows what its transaction was for, and all of it at once.
LEMMA CommitIsPromised ==
  ASSUME IInv, Purposeful, Commit
  PROVE  [Promise!EvidenceNext]_(Promise!evidenceVars)
<1>1. /\ tx # NoTx /\ ~tx.failing /\ tx.todo = {} /\ db' = tx.rows
      /\ UNCHANGED <<files, backup>>
  BY DEF Commit
<1>2. RowsReady /\ HasPurpose /\ Known(db) /\ db \in Rows /\ tx.rows \in Rows
  BY <1>1, TxTyped DEF IInv, GoingOn, Purposeful, TypeOK
<1>3. /\ IInv' /\ Bundle' = Bundle
      /\ Shown' \in Promise!Readings
      /\ \A s \in Slots : Shown'[s] = NoBytes <=> Empty(tx.rows, s)
  <2>1. IInv'
    BY CommitKeepsIInv
  <2>2. Bundle' = Bundle
    BY <1>1 DEF Bundle, Reading, BytesIn
  <2>3. (IInv => /\ Shown \in Promise!Readings
                 /\ \A s \in Slots : Shown[s] = NoBytes <=> Empty(db, s))'
    BY ShownBytes, PTL
  <2> QED
    BY <1>1, <2>1, <2>2, <2>3 DEF Empty, Promise!Readings
<1>4. \A s \in Slots : Shown[s] = Bytes(s) /\ Shown'[s] = Bytes(s)'
  BY DEF Shown, Reading, Bytes
<1>5. ASSUME NEW s \in Slots, ~Empty(db, s)
      PROVE  Shown'[s] = Shown[s]
  <2>1. CASE db.ref[s] # NoKey
    <3>1. tx.rows.ref[s] = db.ref[s]
      BY <1>2, <2>1 DEF RowsReady
    <3> QED
      BY <1>1, <1>4, <2>1, <3>1 DEF Bytes, BytesIn
  <2>2. CASE db.ref[s] = NoKey
    <3>1. db.blob[s] \in Contents /\ Bytes(s) = db.blob[s]
      BY <1>2, <1>5, <2>2 DEF Rows, Empty, Bytes, BytesIn
    <3>2. IF tx.rows.ref[s] = NoKey THEN tx.rows.blob[s] = db.blob[s]
                                    ELSE tx.rows.sha[s] = db.blob[s]
      BY <1>2, <2>2, <3>1 DEF RowsReady
    <3>3. tx.rows.ref[s] # NoKey => files[tx.rows.ref[s]] = tx.rows.sha[s]
      BY <1>2 DEF RowsReady, Readable
    <3>4. Bytes(s)' = db.blob[s]
      BY <1>1, <3>2, <3>3 DEF Bytes, BytesIn
    <3> QED
      BY <1>4, <3>1, <3>4
  <2> QED
    BY <2>1, <2>2
<1>6. ASSUME NEW slots, NEW results, AddsOnly(slots, results)
      PROVE  /\ \A s \in Slots \ slots : Shown'[s] = Shown[s]
             /\ db'.done = db.done \cup results
  <2>1. ASSUME NEW s \in Slots \ slots
        PROVE  Shown'[s] = Shown[s]
    <3>1. CASE Empty(db, s)
      <4>1. Empty(tx.rows, s)
        BY <1>6, <3>1 DEF AddsOnly
      <4> QED
        BY <1>3, <3>1, <4>1, ShownBytes
    <3> QED
      BY <1>5, <3>1
  <2> QED
    BY <1>1, <1>6, <2>1 DEF AddsOnly
<1>7. ASSUME NEW a \in Analyses, AddsOriginal(a)
      PROVE  Promise!Upload(a)
  <2> DEFINE o == <<a, Original>>
  <2>1. o \in Slots
    BY DEF Slots
  <2>2. Shown[o] = NoBytes
    BY <1>7, <2>1, ShownBytes DEF AddsOriginal
  <2>3. Shown'[o] \in Contents
    <3>1. ~Empty(tx.rows, o)
      BY <1>1, <1>7 DEF AddsOriginal, Empty
    <3> QED
      BY <1>3, <2>1, <3>1 DEF Promise!Readings, Promise!Slots, Slots
  <2>4. /\ \A s \in Slots \ {o} : Shown'[s] = Shown[s]
        /\ db'.done = db.done
    <3>1. AddsOnly({o}, {})
      BY <1>7 DEF AddsOriginal
    <3>2. /\ \A s \in Slots \ {o} : Shown'[s] = Shown[s]
          /\ db'.done = db.done \cup {}
      BY <1>6, <3>1
    <3> QED
      BY <3>2
  <2>5. Promise!OnlyChanges({o})
    BY <2>4 DEF Promise!OnlyChanges, Promise!Slots, Slots
  <2> QED
    BY <1>3, <2>2, <2>3, <2>4, <2>5 DEF Promise!Upload
<1>8. ASSUME NEW a \in Analyses, AddsResult(a)
      PROVE  Promise!Finish(a)
  <2>1. /\ \A s \in Slots \ ({a} \X Positions) : Shown'[s] = Shown[s]
        /\ db'.done = db.done \cup {a}
    BY <1>6, <1>8 DEF AddsResult
  <2>2. Shown[<<a, Original>>] # NoBytes
    <3>1. ~Empty(db, <<a, Original>>)
      BY <1>2, <1>8 DEF AddsResult, Known
    <3>2. <<a, Original>> \in Slots
      BY DEF Slots
    <3> QED
      BY <3>1, <3>2, ShownBytes
  <2>3. ASSUME NEW p \in Positions
        PROVE  Shown[<<a, p>>] = NoBytes
    <3>1. <<a, p>> \in Slots /\ p # Original
      BY OriginalAssumption DEF Slots
    <3>2. Empty(db, <<a, p>>)
      BY <1>8, <3>1 DEF AddsResult, IInv, Shaped, Empty
    <3> QED
      BY <3>1, <3>2, ShownBytes
  <2>4. Promise!OnlyChanges({a} \X Positions)
    BY <2>1 DEF Promise!OnlyChanges, Promise!Slots, Slots
  <2> QED
    BY <1>3, <1>8, <2>1, <2>2, <2>3, <2>4 DEF Promise!Finish, AddsResult
<1>9. ASSUME AddsNothing
      PROVE  UNCHANGED Promise!evidenceVars
  <2>1. /\ \A s \in Slots : Shown'[s] = Shown[s]
        /\ db'.done = db.done
    BY <1>6, <1>9 DEF AddsNothing
  <2>2. Shown' = Shown
    BY <2>1 DEF Shown, Reading
  <2> QED
    BY <1>3, <2>1, <2>2 DEF Promise!evidenceVars
<1> QED
  BY <1>2, <1>7, <1>8, <1>9 DEF HasPurpose, Promise!EvidenceNext

\* Every other step shows nothing, but that a backup begins or ends.
LEMMA OtherStepsArePromised ==
  ASSUME IInv, [Next]_vars, ~Commit
  PROVE  [Promise!EvidenceNext]_(Promise!evidenceVars)
<1>1. db' = db /\ Shown' = Shown
  BY FilesChangeApart, ReadingsStay DEF Shown
<1>2. CASE BackupSnapshot
  <2>1. /\ backup = NoBackup
        /\ backup' = [rows |-> db, copied |-> {}]
    BY <1>2 DEF BackupSnapshot, SnapshotRows
  <2>2. backup' # NoBackup /\ backup'.rows = db
    <3>1. backup'.rows \in Rows
      BY <2>1 DEF IInv, TypeOK
    <3>2. backup'.rows # NoTx
      BY <3>1, NoTxAssumption
    <3> QED
      BY <2>1, <3>2 DEF NoBackup
  <2>3. Bundle = {} /\ Bundle' = {Reading(db)}
    BY <1>2, <2>1, <2>2 DEF Bundle, Reading, BytesIn, BackupSnapshot
  <2>4. Reading(db) = Promise!Now
    BY DEF Promise!Now, Shown, Reading
  <2> QED
    BY <1>1, <2>3, <2>4 DEF Promise!BackUp, Promise!EvidenceNext
<1>3. CASE BackupEnds
  BY <1>1, <1>3 DEF BackupEnds, Bundle, Promise!Discard, Promise!EvidenceNext
<1>4. CASE ~BackupSnapshot /\ ~BackupEnds
  <2>1. /\ backup = NoBackup <=> backup' = NoBackup
        /\ backup # NoBackup => backup'.rows = backup.rows
    <3>1. CASE backup' = backup
      BY <3>1
    <3>2. ASSUME backup # NoBackup, NEW r \in References(backup.rows), BackupCopies(r)
          PROVE  backup' # NoBackup /\ backup'.rows = backup.rows
      <4>1. backup \in Backups /\ backup.rows \in Rows
        BY <3>2, BackupTyped
      <4>2. backup'.rows = backup.rows
        BY <3>2, <4>1 DEF BackupCopies, Backups
      <4>3. backup'.rows # NoTx
        BY <4>1, <4>2, NoTxAssumption
      <4> QED
        BY <4>2, <4>3 DEF NoBackup
    <3>3. \/ backup' = backup
          \/ backup # NoBackup /\ \E r \in References(backup.rows) : BackupCopies(r)
      <4>1. CASE Backup
        BY <1>4, <4>1 DEF Backup
      <4>2. CASE Writer
        BY <4>2 DEF Writer, BeginEnqueue, BeginFinish, BeginMigration, PutCreates,
          UndoPut, UndoStops, PutAccepted, PutRefused, PutReturns, PutFails,
          HandlerFails, Commit, Crash
      <4> QED
        BY <4>1, <4>2 DEF Next, vars
    <3> QED
      BY <3>1, <3>2, <3>3
  <2>2. Bundle' = Bundle
    BY <2>1, ReadingsStay DEF Bundle
  <2> QED
    BY <1>1, <2>2 DEF Promise!evidenceVars
<1> QED
  BY <1>2, <1>3, <1>4

\* An older release shows its evidence from the start.
LEMMA InitIsPromised == Init => Promise!EvidenceInit
<1> SUFFICES ASSUME Init PROVE Promise!EvidenceInit
  OBVIOUS
<1>1. IInv /\ Purposeful
  BY InitIInv, InitPurposeful
<1>2. Shown \in Promise!Readings
  BY <1>1, ShownBytes
<1>3. Bundle = {}
  BY DEF Init, Bundle
<1>4. ASSUME NEW s \in Slots, Shown[s] # NoBytes
      PROVE  s[2] = Original \/ s[1] \in db.done
  BY <1>1, <1>4, ShownBytes DEF IInv, Shaped, Empty
<1>5. db.done \subseteq {a \in Analyses : Shown[<<a, Original>>] # NoBytes}
  <2>1. PICK old \in SUBSET Analyses, c \in Contents, d \in Contents :
          \E withResult \in SUBSET old :
            db = [ref |-> [s \in Slots |-> NoKey],
               sha |-> [s \in Slots |->
                          IF s[1] \in old /\ s[2] = Original THEN d ELSE NoBytes],
               blob |-> [s \in Slots |->
                           IF s[1] \in (IF s[2] = Original THEN old ELSE withResult)
                           THEN c ELSE NoBytes],
               done |-> withResult]
    BY DEF Init
  <2>2. /\ db.done \subseteq old
        /\ \A s \in Slots : s[2] = Original /\ s[1] \in old => db.blob[s] = c
    BY <2>1
  <2>3. ASSUME NEW a \in db.done
        PROVE  a \in Analyses /\ Shown[<<a, Original>>] # NoBytes
    <3>1. <<a, Original>> \in Slots /\ <<a, Original>>[1] = a
          /\ <<a, Original>>[2] = Original
      BY <2>2 DEF Slots
    <3>2. ~Empty(db, <<a, Original>>)
      BY <2>2, <3>1, ContentsAssumption DEF Empty
    <3> QED
      BY <1>1, <2>2, <3>1, <3>2, ShownBytes
  <2> QED
    BY <2>3
<1> QED
  BY <1>2, <1>3, <1>4, <1>5 DEF Promise!EvidenceInit, Promise!Slots, Slots

\* For any analyses, attachments and contents, and whatever fails, is killed,
\* migrated or copied: readers of the store see evidence appear whole, stay as
\* it appeared, and a backup read like one moment.
THEOREM StoreKeepsPromise == Spec => RefinesEvidence
<1>1. Init => IInv /\ Purposeful
  BY InitIInv, InitPurposeful
<1>2. IInv /\ Purposeful /\ [Next]_vars => (IInv /\ Purposeful)'
  BY NextIInv, NextPurposeful
<1>3. IInv /\ Purposeful /\ [Next]_vars
        => [Promise!EvidenceNext]_(Promise!evidenceVars)
  BY CommitIsPromised, OtherStepsArePromised
<1> QED
  BY <1>1, <1>2, <1>3, InitIsPromised, PTL
  DEF Spec, RefinesEvidence, Promise!EvidenceSpec
=============================================================================
