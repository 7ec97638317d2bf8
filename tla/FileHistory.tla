---------------------------- MODULE FileHistory ----------------------------
(***************************************************************************)
(* The version chains of a session's files: every change a tool makes, and *)
(* every undo, rollback, save and keep of the pages, is a version with a   *)
(* snapshot; the meta file of a chain and the session's index are written  *)
(* one after the other, and the file on the disk before both.              *)
(*                                                                         *)
(* The operations hold the session's lock.  Tools and other programs write *)
(* the files without it, a tool's change is recorded some time after it    *)
(* was made, and the process of an operation may die between two steps.    *)
(***************************************************************************)
EXTENDS Naturals, Sequences, FiniteSets

CONSTANTS
    Keys,         \* files of the session
    Regions,      \* places of a file where its texts may differ, in order
    Lines,        \* what a region may hold; 0 is nothing
    MaxVersions,  \* _FILE_HISTORY_MAX_VERSIONS
    MaxChain,     \* bound: versions of a chain the pages' operations reach
    Inputs,       \* bound: what tools and other programs write into a file
    MaxPending,   \* bound: tool changes on their way to the chain
    Faults        \* subset of {"backend", "worker", "quota", "rmtree"}

Texts == [Regions -> Lines]

Blank == [r \in Regions |-> 0]

Files == [text : Texts, exists : {TRUE}] \union {[text |-> Blank, exists |-> FALSE]}

ASSUME FileAssumption ==
    /\ Regions \subseteq Nat /\ IsFiniteSet(Regions)
    /\ 0 \in Lines /\ Keys # {} /\ Inputs \subseteq Files
    /\ MaxVersions \in Nat /\ MaxChain \in Nat /\ MaxPending \in Nat
    /\ Faults \subseteq {"backend", "worker", "quota", "rmtree"}

VARIABLES
    disk,     \* the files: their text, and whether they exist
    pending,  \* changes of tools that are not recorded yet
    chain,    \* meta.json of each file
    snap,     \* the snapshots of each file: from names to texts
    index,    \* what index.json says of each file
    indexed,  \* index.json exists
    op,       \* the operation that holds the session's lock
    torn      \* files whose history a removal has left without its snapshots

vars == <<disk, pending, chain, snap, index, indexed, op, torn>>

-----------------------------------------------------------------------------
(* Files, versions and chains.                                             *)

\* A snapshot is named after the generation and the number of the version.
Names == Nat \X Nat

Version == [text : Texts, exists : BOOLEAN, gen : Nat, file : Names]

Chain == [versions : Seq(Version), gen : Nat, locked : SUBSET Nat]

NoChain == [versions |-> <<>>, gen |-> 0, locked |-> {}]

Latest(c) == c.versions[Len(c.versions)]

\* The place of the baseline: the first version of the latest generation.
BaseAt(c) ==
    CHOOSE i \in 1..Len(c.versions) :
        /\ c.versions[i].gen = Latest(c).gen
        /\ \A j \in 1..(i - 1) : c.versions[j].gen # Latest(c).gen

Base(c) == c.versions[BaseAt(c)]

AsFile(v) == [text |-> v.text, exists |-> v.exists]

\* The versions of a chain that have this text.
WithText(c, text) == {i \in 1..Len(c.versions) : c.versions[i].text = text}

\* Mutant: a snapshot is named after the versions of its generation.
NameByGen(c, text) ==
    IF WithText(c, text) = {}
    THEN <<0, Cardinality({i \in 1..Len(c.versions) : c.versions[i].gen = c.gen})>>
    ELSE c.versions[CHOOSE i \in WithText(c, text) : TRUE].file

\* A text the chain has is not stored again: a version with it lends its
\* snapshot, which all of them share (ChainOK).
Name(c, text) ==
    IF WithText(c, text) = {}
    THEN <<c.gen, Len(c.versions)>>
    ELSE c.versions[CHOOSE i \in WithText(c, text) : TRUE].file

Appended(c, text, exists) ==
    [c EXCEPT !.versions =
        Append(@, [text |-> text, exists |-> exists, gen |-> c.gen,
                   file |-> Name(c, text)])]

\* A new generation begins with the latest content as its baseline.
Opened(c) == Appended([c EXCEPT !.gen = @ + 1], Latest(c).text, Latest(c).exists)

\* The cached total says that there is something to decide about.
Changed(c) == c.versions # <<>> /\ AsFile(Base(c)) # AsFile(Latest(c))

Differing(c) == {r \in Regions : Base(c).text[r] # Latest(c).text[r]}

\* One hunk, or it and those after it.
Chosen(c, r, until) == {h \in Differing(c) : h = r \/ (until /\ h > r)}

Mixed(t, u, regions) == [r \in Regions |-> IF r \in regions THEN t[r] ELSE u[r]]

\* Reading a version checks its snapshot.
Readable(k, v) == v.file \in DOMAIN snap[k] /\ snap[k][v.file] = v.text

Status(c) == IF Changed(c) THEN "changed" ELSE "clean"

-----------------------------------------------------------------------------
(* The operation under the lock.                                           *)

Pcs == {"idle", "next", "read", "append", "check", "replace", "save", "index",
        "remove", "rest", "drop"}

Calls == {"none", "one", "record", "keep_all", "keep_clean", "kept_clean",
          "revert_all", "cleanup"}

NoFile == [text |-> Blank, exists |-> FALSE]

\* chain is what the operation is going to save, at the version it appends
\* next, goal what it writes to the file (writes: whether it does), stale
\* whether somebody wrote the file since its identity was taken or last
\* compared, left the files a batch has still to do.
Operation ==
    [pc : Pcs, call : Calls, key : Keys, chain : Chain, at : Nat, goal : Files,
     writes : BOOLEAN, stale : BOOLEAN, left : SUBSET Keys]

Idle ==
    [pc |-> "idle", call |-> "none", key |-> CHOOSE k \in Keys : TRUE,
     chain |-> NoChain, at |-> 0, goal |-> NoFile, writes |-> FALSE,
     stale |-> FALSE, left |-> {}]

TypeOK ==
    /\ disk \in [Keys -> Files]
    /\ pending \subseteq [key : Keys, old : Files, new : Files]
    /\ chain \in [Keys -> Chain]
    /\ snap = [k \in Keys |-> snap[k]]
    /\ \A k \in Keys : DOMAIN snap[k] \subseteq Names
                       /\ \A f \in DOMAIN snap[k] : snap[k][f] \in Texts
    /\ index \in [Keys -> {"none", "clean", "changed"}]
    /\ indexed \in BOOLEAN
    /\ op \in Operation
    /\ torn \subseteq Keys

Init ==
    /\ disk \in [Keys -> Inputs]
    /\ pending = {}
    /\ chain = [k \in Keys |-> NoChain]
    /\ snap = [k \in Keys |-> <<>>]
    /\ index = [k \in Keys |-> "none"]
    /\ indexed = FALSE
    /\ op = Idle
    /\ torn = {}

FilesKept == UNCHANGED <<disk, pending>>
StoreKept == UNCHANGED <<chain, snap, index, indexed>>

\* The end of the operation on one file; a batch goes on with the next.
Ended(call) ==
    IF op.left = {} /\ call # "kept_clean"
    THEN Idle
    ELSE [Idle EXCEPT !.pc = "next", !.call = call, !.left = op.left]

\* The snapshots some version names.  Nothing reads another one, and its name
\* is written anew before a version is saved with it: it is left out.
Named(k) ==
    LET names == {chain[k].versions[i].file : i \in 1..Len(chain[k].versions)}
    IN  [f \in names \intersect DOMAIN snap[k] |-> snap[k][f]]

Refused ==
    /\ op' = Ended(op.call)
    /\ snap' = [snap EXCEPT ![op.key] = Named(op.key)]
    /\ UNCHANGED <<chain, index, indexed>>

Goes(pc) == op' = [op EXCEPT !.pc = pc] /\ StoreKept

Start(call, k, c, left) ==
    [Idle EXCEPT !.pc = "append", !.call = call, !.key = k, !.chain = c,
                 !.at = Len(chain[k].versions) + 1, !.left = left]

\* The file's identity is taken first, its content read afterwards.
StartWrite(call, k, c, goal, left) ==
    [Start(call, k, c, left) EXCEPT !.pc = "read", !.goal = goal, !.writes = TRUE]

Begin(o) == op.pc = "idle" /\ op' = o /\ FilesKept /\ StoreKept /\ UNCHANGED torn

-----------------------------------------------------------------------------
(* Operations of the pages.                                                *)

Known(k) == chain[k].versions # <<>>

HasHunks(k) ==
    /\ Known(k) /\ BaseAt(chain[k]) # Len(chain[k].versions)
    /\ Base(chain[k]).gen \notin chain[k].locked
    /\ Readable(k, Base(chain[k])) /\ Readable(k, Latest(chain[k]))

\* An undo that leaves nothing leaves the file only if the baseline had one.
Undone(c, text) ==
    [text |-> text, exists |-> text # Blank \/ Base(c).exists]

HunkUndo(k) ==
    /\ HasHunks(k) /\ Len(chain[k].versions) < MaxChain
    /\ \E r \in Differing(chain[k]), until \in BOOLEAN :
         LET c == chain[k]
             f == Undone(c, Mixed(Base(c).text, Latest(c).text, Chosen(c, r, until)))
         IN  Begin(StartWrite("one", k, Appended(c, f.text, f.exists), f, {}))

HunkKeep(k) ==
    /\ HasHunks(k) /\ Len(chain[k].versions) + 2 <= MaxChain
    /\ \E r \in Differing(chain[k]), until \in BOOLEAN :
         LET c == chain[k]
             f == Undone(c, Mixed(Latest(c).text, Base(c).text, Chosen(c, r, until)))
         IN  Begin(StartWrite("one", k, Opened(Appended(c, f.text, f.exists)), f, {}))

\* Back to a version of a generation that is not locked: the baseline, one the
\* page names, or the last one before a round.
MayRestore(k, i) ==
    /\ i \in 1..Len(chain[k].versions)
    /\ chain[k].versions[i].gen \notin chain[k].locked
    /\ Readable(k, chain[k].versions[i]) /\ Readable(k, Latest(chain[k]))

Restoring(call, k, i, left) ==
    LET v == chain[k].versions[i]
    IN  StartWrite(call, k, Appended(chain[k], v.text, v.exists), AsFile(v), left)

Rollback(k) ==
    /\ Known(k) /\ Len(chain[k].versions) < MaxChain
    /\ \E i \in 1..Len(chain[k].versions) :
         MayRestore(k, i) /\ Begin(Restoring("one", k, i, {}))

\* The page has loaded the latest version and changed it.
UserSave(k) ==
    /\ Known(k) /\ Len(chain[k].versions) < MaxChain
    /\ Latest(chain[k]).gen \notin chain[k].locked
    /\ Readable(k, Latest(chain[k]))
    /\ \E text \in {f.text : f \in Inputs} \ {Latest(chain[k]).text} :
         Begin(StartWrite("one", k, Appended(chain[k], text, TRUE),
                          [text |-> text, exists |-> TRUE], {}))

\* A change of another program joins the chain; only the texts are compared.
Synced(k) ==
    IF disk[k].text = Latest(chain[k]).text
    THEN chain[k]
    ELSE Appended(chain[k], disk[k].text, TRUE)

SyncFromDisk(k) ==
    /\ Known(k) /\ disk[k].exists /\ Readable(k, Latest(chain[k]))
    /\ Len(chain[k].versions) < MaxChain
    /\ Begin(Start("one", k, Synced(k), {}))

\* Mutant: the new generation is the one that is locked.
SealedAfter(c) == LET o == Opened(c) IN [o EXCEPT !.locked = @ \union {o.gen}]

\* The generation is locked, and the next begins with its latest content.
Sealed(c) == Opened([c EXCEPT !.locked = @ \union {Latest(c).gen}])

MayKeep(k) == Known(k) /\ Readable(k, Latest(chain[k]))

Keep(k) ==
    /\ MayKeep(k) /\ Len(chain[k].versions) < MaxChain
    /\ Begin(Start("one", k, Sealed(chain[k]), {}))

DeleteFileHistory(k) ==
    /\ Known(k) \/ snap[k] # <<>> \/ index[k] # "none"
    /\ Begin([Idle EXCEPT !.pc = "remove", !.call = "one", !.key = k])

-----------------------------------------------------------------------------
(* Operations on all files of the session.                                 *)

\* index.json is read; without one it is built from the chains.
Listed == IF indexed THEN index
          ELSE [k \in Keys |-> IF Known(k) THEN Status(chain[k]) ELSE "none"]

BeginAll(call, left) ==
    /\ op' = [Idle EXCEPT !.pc = "next", !.call = call, !.left = left]
    /\ index' = Listed
    /\ indexed' = (indexed \/ \E k \in Keys : Known(k))
    /\ FilesKept /\ UNCHANGED <<chain, snap, torn>>

Undecided == {k \in Keys : Listed[k] = "changed"}

\* The files a clean-up removes: all, or those without undecided changes.
Cleaned(all) == {k \in Keys : Listed[k] = "clean" \/ (all /\ Listed[k] = "changed")}

Batch ==
    /\ op.pc = "idle"
    /\ \/ \E call \in {"keep_all", "keep_clean", "revert_all"} :
            /\ Undecided # {} /\ BeginAll(call, Undecided)
            /\ \A k \in Keys : Len(chain[k].versions) < MaxChain
       \/ \E all \in BOOLEAN : Cleaned(all) # {} /\ BeginAll("cleanup", Cleaned(all))

\* A file that cannot be kept or reverted is passed over.
NextItem ==
    /\ op.pc = "next" /\ op.left # {}
    /\ \E k \in op.left :
         LET left == op.left \ {k}
             skip == IF left = {} /\ op.call # "kept_clean"
                     THEN Idle ELSE [op EXCEPT !.left = left]
         IN  CASE op.call = "revert_all" ->
                    op' = IF Known(k) /\ MayRestore(k, BaseAt(chain[k]))
                          THEN Restoring("revert_all", k, BaseAt(chain[k]), left)
                          ELSE skip
               [] op.call = "cleanup" ->
                    op' = [Idle EXCEPT !.pc = "remove", !.call = "cleanup",
                                       !.key = k, !.left = left]
               [] OTHER ->
                    op' = IF MayKeep(k) THEN Start(op.call, k, Sealed(chain[k]), left)
                          ELSE skip
    /\ FilesKept /\ StoreKept /\ UNCHANGED torn

\* keep_all with cleanup: something was kept, the clean files are removed.
ThenClean ==
    /\ op.pc = "next" /\ op.left = {} /\ op.call = "kept_clean"
    /\ IF Cleaned(FALSE) = {}
       THEN op' = Idle /\ FilesKept /\ StoreKept /\ UNCHANGED torn
       ELSE BeginAll("cleanup", Cleaned(FALSE))

-----------------------------------------------------------------------------
(* The record of a tool's change.                                          *)

\* The content before the change is the baseline, or a version of another
\* program when it is not what the chain has.
WithOld(c, old) ==
    IF c.versions = <<>> \/ AsFile(Latest(c)) # old
    THEN Appended(c, old.text, old.exists)
    ELSE c

Recorded(c, p) == Appended(WithOld(c, p.old), p.new.text, p.new.exists)

RecordChange ==
    /\ op.pc = "idle"
    /\ \E p \in pending :
         LET c == chain[p.key]
         IN  /\ pending' = pending \ {p}
             /\ op' = IF \/ Len(Recorded(c, p).versions) > MaxVersions
                         \/ Known(p.key) /\ AsFile(Latest(c)) # p.old
                              /\ ~Readable(p.key, Latest(c))
                      THEN op
                      ELSE Start("record", p.key, Recorded(c, p), {})
    /\ UNCHANGED disk /\ StoreKept /\ UNCHANGED torn

-----------------------------------------------------------------------------
(* The steps of an operation.                                              *)

\* The content must be the latest version's.
ReadDisk ==
    /\ op.pc = "read"
    /\ IF disk[op.key] = AsFile(Latest(chain[op.key])) THEN Goes("append") ELSE Refused
    /\ FilesKept /\ UNCHANGED torn

AppendDone == op.at > Len(op.chain.versions)

Stored(f, text) == [g \in DOMAIN snap[op.key] \union {f} |->
                       IF g = f THEN text ELSE snap[op.key][g]]

\* The snapshot of the next version is written, unless it has one.
AppendVersion ==
    /\ op.pc = "append" /\ ~AppendDone
    /\ LET v == op.chain.versions[op.at]
           new == \A i \in 1..(op.at - 1) : op.chain.versions[i].text # v.text
       IN  \/ /\ new
              /\ snap' = [snap EXCEPT ![op.key] = Stored(v.file, v.text)]
              /\ op' = [op EXCEPT !.at = @ + 1]
              /\ UNCHANGED <<chain, index, indexed>>
           \/ /\ ~new /\ Readable(op.key, v)
              /\ op' = [op EXCEPT !.at = @ + 1] /\ StoreKept
           \/ (IF new THEN "quota" \in Faults ELSE ~Readable(op.key, v)) /\ Refused
    /\ FilesKept /\ UNCHANGED torn

\* The total of the new chain is computed from its snapshots.
RecomputeTotal ==
    /\ op.pc = "append" /\ AppendDone
    /\ IF Readable(op.key, Base(op.chain)) /\ Readable(op.key, Latest(op.chain))
       THEN Goes(IF op.writes THEN "check" ELSE "save")
       ELSE Refused
    /\ FilesKept /\ UNCHANGED torn

\* Mutant: the identity is not compared.
GoOn ==
    /\ op.pc = "check"
    /\ op' = [op EXCEPT !.pc = "replace", !.stale = FALSE] /\ StoreKept
    /\ FilesKept /\ UNCHANGED torn

\* The identity of the file has to be the one that was taken.  The step is the
\* last comparison before the file is written: that of _write_target before it
\* removes the file, the second one in _replace before it writes it.
CheckVersion ==
    /\ op.pc = "check"
    /\ IF op.stale THEN Refused
       ELSE op' = [op EXCEPT !.pc = "replace", !.stale = FALSE] /\ StoreKept
    /\ FilesKept /\ UNCHANGED torn

\* A file is created by a link, which fails if there is one by now.
Replace ==
    /\ op.pc = "replace"
    /\ LET create == op.goal.exists /\ ~Latest(chain[op.key]).exists
       IN  IF create /\ disk[op.key].exists
           THEN Refused /\ UNCHANGED disk
           ELSE /\ disk' = [disk EXCEPT ![op.key] = op.goal]
                /\ op' = [op EXCEPT !.pc = "save", !.stale = FALSE]
                /\ StoreKept
    /\ UNCHANGED pending /\ UNCHANGED torn

SaveMeta ==
    /\ op.pc = "save"
    /\ chain' = [chain EXCEPT ![op.key] = op.chain]
    /\ op' = [op EXCEPT !.pc = "index"]
    /\ FilesKept /\ UNCHANGED <<snap, index, indexed, torn>>

RefreshIndex ==
    /\ op.pc = "index"
    /\ index' = [index EXCEPT ![op.key] = Status(op.chain)]
    /\ indexed' = TRUE
    /\ op' = Ended(IF op.call = "keep_clean" THEN "kept_clean" ELSE op.call)
    /\ FilesKept /\ UNCHANGED <<chain, snap, torn>>

\* The directory of a history goes file by file, in any order.  What cannot be
\* removed stays, and nobody is told.
RemoveSome ==
    /\ op.pc = "remove"
    /\ \/ chain' = [chain EXCEPT ![op.key] = NoChain] /\ UNCHANGED <<snap, torn>>
       \/ /\ snap' = [snap EXCEPT ![op.key] = <<>>] /\ UNCHANGED chain
          /\ torn' = torn \union {op.key}
       \/ "rmtree" \in Faults /\ UNCHANGED <<chain, snap, torn>>
    /\ op' = [op EXCEPT !.pc = "rest"]
    /\ FilesKept /\ UNCHANGED <<index, indexed>>

RemoveRest ==
    /\ op.pc = "rest"
    /\ \/ /\ chain' = [chain EXCEPT ![op.key] = NoChain]
          /\ snap' = [snap EXCEPT ![op.key] = <<>>]
          /\ torn' = torn \ {op.key}
       \/ /\ "rmtree" \in Faults
          /\ snap' = [snap EXCEPT ![op.key] = Named(op.key)]
          /\ UNCHANGED <<chain, torn>>
    /\ op' = [op EXCEPT !.pc = "drop"]
    /\ FilesKept /\ UNCHANGED <<index, indexed>>

\* The entry of the index goes, whatever is left of the history.
DropEntry ==
    /\ op.pc = "drop"
    /\ index' = [index EXCEPT ![op.key] = "none"]
    /\ op' = Ended(op.call)
    /\ FilesKept /\ UNCHANGED <<chain, snap, indexed, torn>>

-----------------------------------------------------------------------------
(* Writes outside of the lock, and deaths.                                 *)

Written(k, f) ==
    /\ disk' = [disk EXCEPT ![k] = f]
    /\ op' = [op EXCEPT !.stale = @ \/ (op.writes /\ k = op.key)]

ToolWrite(k) ==
    /\ Cardinality(pending) < MaxPending
    /\ \E f \in Inputs \ {disk[k]} :
         /\ Written(k, f)
         /\ pending' = pending \union {[key |-> k, old |-> disk[k], new |-> f]}
    /\ StoreKept /\ UNCHANGED torn

OtherProgram(k) ==
    /\ \E f \in Inputs \ {disk[k]} : Written(k, f)
    /\ UNCHANGED pending /\ StoreKept /\ UNCHANGED torn

\* An operation ends where it is; the lock is released with its process.
Dies ==
    /\ op' = Idle
    /\ snap' = [snap EXCEPT ![op.key] = Named(op.key)]
    /\ UNCHANGED <<disk, torn, chain, index, indexed>>

BackendDies ==
    "backend" \in Faults /\ op.pc # "idle" /\ op.call # "record" /\ Dies
    /\ UNCHANGED pending

WorkerDies ==
    /\ "worker" \in Faults /\ (pending # {} \/ op.call = "record")
    /\ pending' = {}
    /\ IF op.call = "record" THEN Dies
       ELSE UNCHANGED op /\ UNCHANGED disk /\ StoreKept /\ UNCHANGED torn

Next ==
    \/ \E k \in Keys :
         \/ HunkUndo(k) \/ HunkKeep(k) \/ Rollback(k) \/ UserSave(k)
         \/ SyncFromDisk(k) \/ Keep(k) \/ DeleteFileHistory(k)
         \/ ToolWrite(k) \/ OtherProgram(k)
    \/ Batch \/ NextItem \/ ThenClean \/ RecordChange
    \/ ReadDisk \/ AppendVersion \/ RecomputeTotal \/ CheckVersion \/ Replace
    \/ SaveMeta \/ RefreshIndex \/ RemoveSome \/ RemoveRest \/ DropEntry
    \/ BackendDies \/ WorkerDies

Spec == Init /\ [][Next]_vars

-----------------------------------------------------------------------------
(* Properties.                                                             *)

\* Every version of every chain can be read back: the snapshot it names is
\* there and has its text, though names are shared between versions, reused
\* after refusals, and a deletion takes the files one by one.  Only a history
\* whose deletion was cut short or left something behind (torn) may lack some.
SnapshotsAreTrue ==
    \A k \in Keys \ torn : \A i \in 1..Len(chain[k].versions) :
        Readable(k, chain[k].versions[i])

\* No operation overwrites what it does not know, though tools and other
\* programs write the file at any time without the lock.  From the last
\* comparison of its identity on, the file has the content of the latest
\* version, and, once it is replaced, that of the version the operation
\* saves: a write before the comparison makes the operation refuse, only one
\* after it (stale) is not noticed.
DiskIsKnown ==
    op.writes /\ ~op.stale =>
        /\ op.pc = "replace" => disk[op.key] = AsFile(Latest(chain[op.key]))
        /\ op.pc \in {"save", "index"} => disk[op.key] = AsFile(Latest(op.chain))

\* No version is changed or dropped, no generation unlocked, and no version
\* added to a locked one.
Continued(c, d) ==
    /\ c.locked \subseteq d.locked
    /\ Len(c.versions) <= Len(d.versions)
    /\ \A i \in 1..Len(c.versions) : d.versions[i] = c.versions[i]
    /\ \A i \in (Len(c.versions) + 1)..Len(d.versions) : d.versions[i].gen \notin d.locked

HistoryStep == \A k \in Keys : \/ chain'[k] = chain[k] \/ chain'[k] = NoChain
                               \/ Continued(chain[k], chain'[k])

\* A history is only ever continued or removed, by the operations that run
\* under the lock and by those that were cut short and tried again.
HistoryGrows == [][HistoryStep]_vars

-----------------------------------------------------------------------------
(* The inductive invariant.                                                *)

\* A chain as the operations build it: nothing is added to a locked generation,
\* a text that is new to the chain has a name that is new, too.
ChainOK(c) ==
    /\ \A i \in 1..Len(c.versions) :
         /\ AsFile(c.versions[i]) \in Files
         /\ c.versions[i].gen <= c.gen
         /\ c.versions[i].file[2] < i
         /\ \A j \in 1..(i - 1) : c.versions[i].text = c.versions[j].text =>
                                    c.versions[i].file = c.versions[j].file
         /\ (\A j \in 1..(i - 1) : c.versions[j].text # c.versions[i].text) =>
                c.versions[i].file[2] = i - 1
    /\ \A g \in c.locked : g < c.gen

\* d is c with further versions.
Extends(c, d) == d.versions # <<>> /\ Continued(c, d)

\* Until it saves its chain, the operation has one that extends the one on the
\* disk, with every snapshot it has passed, and writes that chain's latest text.
OpInv ==
    /\ op.pc \in {"read", "append", "check", "replace", "save"} =>
         /\ Extends(chain[op.key], op.chain) /\ ChainOK(op.chain)
         /\ op.writes => Known(op.key) /\ op.goal = AsFile(Latest(op.chain))
         /\ op.at > Len(chain[op.key].versions)
         /\ op.key \notin torn =>
              \A i \in 1..Len(op.chain.versions) :
                 i < op.at => Readable(op.key, op.chain.versions[i])
    /\ op.pc \in {"check", "replace", "save"} => AppendDone
    /\ op.pc \in {"idle", "next", "remove", "rest", "drop"} => ~op.writes
    /\ op.pc = "read" => op.writes
    /\ op.pc \in {"check", "replace"} => op.writes
    /\ op.pc = "index" => chain[op.key] = op.chain /\ Known(op.key)
    /\ op.pc \in {"append", "check"} /\ op.writes /\ ~op.stale =>
         disk[op.key] = AsFile(Latest(chain[op.key]))

FileInv ==
    /\ TypeOK
    /\ \A k \in Keys : ChainOK(chain[k])
    /\ OpInv /\ SnapshotsAreTrue /\ DiskIsKnown
=============================================================================
