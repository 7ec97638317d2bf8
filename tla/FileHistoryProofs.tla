-------------------------- MODULE FileHistoryProofs -------------------------
(***************************************************************************)
(* Proofs about FileHistory: histories only grow, what they name can be    *)
(* read back, and no operation overwrites what it does not know.           *)
(***************************************************************************)
EXTENDS FileHistory, SequenceTheorems, TLAPS

-----------------------------------------------------------------------------
(* Versions and chains.                                                    *)

LEMMA FileTypes ==
    /\ Blank \in Texts
    /\ NoFile \in Files
    /\ \A f \in Files : f.text \in Texts /\ f.exists \in BOOLEAN
    /\ \A t \in Texts : [text |-> t, exists |-> TRUE] \in Files
<1>1. Blank \in Texts
  BY FileAssumption DEF Blank, Texts
<1>2. NoFile \in Files
  BY DEF Files, NoFile
<1>3. \A f \in [text : Texts, exists : {TRUE}] : f.text \in Texts /\ f.exists \in BOOLEAN
  OBVIOUS
<1>4. ASSUME NEW f, f = [text |-> Blank, exists |-> FALSE]
      PROVE  f.text \in Texts /\ f.exists \in BOOLEAN
  BY <1>1, <1>4
<1>5. \A t \in Texts : [text |-> t, exists |-> TRUE] \in Files
  BY DEF Files
<1> QED BY <1>1, <1>2, <1>3, <1>4, <1>5 DEF Files

LEMMA ChainTypes ==
    ASSUME NEW c \in Chain
    PROVE  /\ c.versions \in Seq(Version) /\ Len(c.versions) \in Nat
           /\ c.gen \in Nat /\ c.locked \subseteq Nat
           /\ c.versions # <<>> => Len(c.versions) \in 1..Len(c.versions)
           /\ c = [versions |-> c.versions, gen |-> c.gen, locked |-> c.locked]
<1>1. c.versions \in Seq(Version) /\ c.gen \in Nat /\ c.locked \subseteq Nat
  BY DEF Chain
<1>2. Len(c.versions) \in Nat
  BY <1>1, LenProperties
<1>3. c.versions # <<>> => Len(c.versions) \in Nat \ {0}
  BY <1>1, EmptySeq
<1>4. c = [versions |-> c.versions, gen |-> c.gen, locked |-> c.locked]
  BY DEF Chain
<1> QED BY <1>1, <1>2, <1>3, <1>4

LEMMA VersionTypes ==
    ASSUME NEW c \in Chain, NEW i \in 1..Len(c.versions)
    PROVE  /\ c.versions[i] \in Version
           /\ c.versions[i].text \in Texts /\ c.versions[i].exists \in BOOLEAN
           /\ c.versions[i].gen \in Nat
           /\ c.versions[i].file \in Names /\ c.versions[i].file[2] \in Nat
<1>1. c.versions[i] \in Version
  BY DEF Chain
<1> QED BY <1>1 DEF Version, Names

\* Another version at the end of a chain.
LEMMA AppendedChain ==
    ASSUME NEW c \in Chain, NEW t \in Texts, NEW e \in BOOLEAN
    PROVE  LET d == Appended(c, t, e)
               n == Len(c.versions) + 1
           IN  /\ d \in Chain
               /\ d.gen = c.gen /\ d.locked = c.locked
               /\ Len(d.versions) = n /\ d.versions # <<>>
               /\ \A i \in 1..Len(c.versions) : d.versions[i] = c.versions[i]
               /\ d.versions[n] = [text |-> t, exists |-> e, gen |-> c.gen,
                                   file |-> Name(c, t)]
               /\ Latest(d) = d.versions[n]
               /\ Name(c, t) \in Names
<1> DEFINE d == Appended(c, t, e)
           n == Len(c.versions) + 1
           v == [text |-> t, exists |-> e, gen |-> c.gen, file |-> Name(c, t)]
<1>1. c.versions \in Seq(Version) /\ Len(c.versions) \in Nat /\ c.gen \in Nat
  BY ChainTypes
<1>2. Name(c, t) \in Names
  <2>1. CASE WithText(c, t) = {}
    BY <1>1, <2>1 DEF Name, Names
  <2>2. CASE WithText(c, t) # {}
    <3>1. (CHOOSE i \in WithText(c, t) : TRUE) \in 1..Len(c.versions)
      BY <2>2 DEF WithText
    <3> QED BY <2>2, <3>1, VersionTypes DEF Name
  <2> QED BY <2>1, <2>2
<1>3. v \in Version
  BY <1>1, <1>2 DEF Version
<1>4. d = [versions |-> Append(c.versions, v), gen |-> c.gen, locked |-> c.locked]
  <2>1. c \in [versions : Seq(Version), gen : Nat, locked : SUBSET Nat]
    BY DEF Chain
  <2> HIDE DEF v
  <2>2. d = [c EXCEPT !.versions = Append(@, v)]
    BY DEF Appended, v
  <2> QED BY <2>1, <2>2
<1> HIDE DEF v
<1>5. /\ Append(c.versions, v) \in Seq(Version)
      /\ Len(Append(c.versions, v)) = n
      /\ \A i \in 1..Len(c.versions) : Append(c.versions, v)[i] = c.versions[i]
      /\ Append(c.versions, v)[n] = v
  BY <1>1, <1>3, AppendProperties
<1>6. Append(c.versions, v) # <<>>
  BY <1>1, <1>5, EmptySeq
<1>7. d \in Chain
  BY <1>4, <1>5, ChainTypes DEF Chain
<1> QED BY <1>2, <1>4, <1>5, <1>6, <1>7 DEF Latest, v

\* It is as well built as the chain it continues.
LEMMA AppendedOK ==
    ASSUME NEW c \in Chain, NEW t \in Texts, NEW e \in BOOLEAN,
           ChainOK(c), [text |-> t, exists |-> e] \in Files
    PROVE  /\ ChainOK(Appended(c, t, e))
           /\ Extends(c, Appended(c, t, e))
           /\ AsFile(Latest(Appended(c, t, e))) = [text |-> t, exists |-> e]
<1> DEFINE d == Appended(c, t, e)
           n == Len(c.versions) + 1
           v == d.versions[n]
<1>1. /\ d \in Chain /\ d.gen = c.gen /\ d.locked = c.locked
      /\ Len(d.versions) = n /\ d.versions # <<>>
      /\ \A i \in 1..Len(c.versions) : d.versions[i] = c.versions[i]
      /\ v = [text |-> t, exists |-> e, gen |-> c.gen, file |-> Name(c, t)]
      /\ Latest(d) = v
  BY AppendedChain
<1> HIDE DEF d
<1>2. Len(c.versions) \in Nat /\ c.gen \in Nat /\ c.locked \subseteq Nat
  BY ChainTypes
<1>3. AsFile(v) \in Files /\ v.gen <= d.gen
  BY <1>1, <1>2 DEF AsFile
<1>4. \A j \in 1..Len(c.versions) : c.versions[j].text = t => v.file = c.versions[j].file
  <2> SUFFICES ASSUME NEW j \in 1..Len(c.versions), c.versions[j].text = t
               PROVE  v.file = c.versions[j].file
    OBVIOUS
  <2> DEFINE i == CHOOSE i \in WithText(c, t) : TRUE
  <2>1. j \in WithText(c, t)
    BY DEF WithText
  <2>2. i \in WithText(c, t)
    BY <2>1
  <2>3. v.file = c.versions[i].file
    BY <1>1, <2>1 DEF Name
  <2> HIDE DEF i
  <2>4. i \in 1..Len(c.versions) /\ c.versions[i].text = t
    BY <2>2 DEF WithText
  <2>5. \A a, b \in 1..Len(c.versions) :
          c.versions[a].text = c.versions[b].text => c.versions[a].file = c.versions[b].file
    BY <1>2 DEF ChainOK
  <2> QED BY <2>3, <2>4, <2>5
<1>5. v.file[2] < n
  <2>1. CASE WithText(c, t) = {}
    BY <1>1, <1>2, <2>1 DEF Name
  <2>2. CASE WithText(c, t) # {}
    <3>1. PICK j \in 1..Len(c.versions) : c.versions[j].text = t
      BY <2>2 DEF WithText
    <3>2. c.versions[j].file[2] < j /\ c.versions[j].file[2] \in Nat
      BY VersionTypes DEF ChainOK
    <3> QED BY <1>2, <1>4, <3>1, <3>2
  <2> QED BY <2>1, <2>2
<1>6. (\A j \in 1..(n - 1) : c.versions[j].text # t) => v.file[2] = n - 1
  BY <1>1, <1>2 DEF Name, WithText
<1>7. ChainOK(d)
  <2>1. \A g \in d.locked : g < d.gen
    BY <1>1 DEF ChainOK
  <2>2. ASSUME NEW i \in 1..Len(d.versions)
        PROVE  /\ AsFile(d.versions[i]) \in Files
               /\ d.versions[i].gen <= d.gen
               /\ d.versions[i].file[2] < i
               /\ \A j \in 1..(i - 1) : d.versions[i].text = d.versions[j].text =>
                                          d.versions[i].file = d.versions[j].file
               /\ (\A j \in 1..(i - 1) : d.versions[j].text # d.versions[i].text) =>
                      d.versions[i].file[2] = i - 1
    <3>1. CASE i = n
      <4>1. \A j \in 1..(n - 1) : d.versions[j] = c.versions[j]
        BY <1>1, <1>2
      <4>2. v.text = t
        BY <1>1
      <4> QED BY <1>2, <1>3, <1>4, <1>5, <1>6, <3>1, <4>1, <4>2
    <3>2. CASE i \in 1..Len(c.versions)
      <4>1. d.versions[i] = c.versions[i] /\ \A j \in 1..(i - 1) : d.versions[j] = c.versions[j]
        BY <1>1, <1>2, <3>2
      <4>2. /\ AsFile(c.versions[i]) \in Files
            /\ c.versions[i].gen <= c.gen
            /\ c.versions[i].file[2] < i
            /\ \A j \in 1..(i - 1) : c.versions[i].text = c.versions[j].text =>
                                       c.versions[i].file = c.versions[j].file
            /\ (\A j \in 1..(i - 1) : c.versions[j].text # c.versions[i].text) =>
                   c.versions[i].file[2] = i - 1
        BY <3>2 DEF ChainOK
      <4> QED BY <1>1, <4>1, <4>2
    <3> QED BY <1>1, <1>2, <3>1, <3>2
  <2> QED BY <2>1, <2>2 DEF ChainOK
<1>8. Extends(c, d)
  <2>1. \A g \in c.locked : g # c.gen
    BY <1>2 DEF ChainOK
  <2>2. \A i \in (Len(c.versions) + 1)..Len(d.versions) : i = n
    BY <1>1, <1>2
  <2> QED BY <1>1, <1>2, <2>1, <2>2 DEF Extends, Continued
<1> QED BY <1>1, <1>7, <1>8 DEF AsFile, d

\* What is known of a chain that continues c and ends with the file f.
Continues(c, d, f) ==
    d \in Chain /\ ChainOK(d) /\ Extends(c, d) /\ AsFile(Latest(d)) = f

\* A chain that continues c can be continued.
LEMMA AppendedContinues ==
    ASSUME NEW c \in Chain, NEW d \in Chain, ChainOK(d),
           Extends(c, d) \/ c = d,
           NEW t \in Texts, NEW e \in BOOLEAN, [text |-> t, exists |-> e] \in Files
    PROVE  Continues(c, Appended(d, t, e), [text |-> t, exists |-> e])
<1> DEFINE a == Appended(d, t, e)
<1> SUFFICES Continues(c, a, [text |-> t, exists |-> e])
  OBVIOUS
<1>1. /\ a \in Chain /\ a.gen = d.gen /\ a.locked = d.locked
      /\ Len(a.versions) = Len(d.versions) + 1 /\ a.versions # <<>>
      /\ \A i \in 1..Len(d.versions) : a.versions[i] = d.versions[i]
      /\ a.versions[Len(d.versions) + 1] =
           [text |-> t, exists |-> e, gen |-> d.gen, file |-> Name(d, t)]
  BY AppendedChain
<1>2. ChainOK(a) /\ Extends(d, a) /\ AsFile(Latest(a)) = [text |-> t, exists |-> e]
  BY AppendedOK
<1> HIDE DEF a
<1>3. CASE c = d
  BY <1>1, <1>2, <1>3 DEF Continues
<1>4. CASE Extends(c, d)
  <2>1. Len(c.versions) \in Nat /\ Len(d.versions) \in Nat
    BY ChainTypes
  <2>2. \A i \in 1..Len(c.versions) : a.versions[i] = c.versions[i]
    BY <1>1, <1>4, <2>1 DEF Extends, Continued
  <2>3. ASSUME NEW i \in (Len(c.versions) + 1)..Len(a.versions)
        PROVE  a.versions[i].gen \notin a.locked
    <3>1. CASE i \in (Len(c.versions) + 1)..Len(d.versions)
      BY <1>1, <1>4, <2>1, <3>1 DEF Extends, Continued
    <3>2. CASE i \in (Len(d.versions) + 1)..Len(a.versions)
      BY <1>2, <3>2 DEF Extends, Continued
    <3> QED BY <1>1, <2>1, <3>1, <3>2
  <2>4. c.locked \subseteq a.locked /\ Len(c.versions) <= Len(a.versions)
    BY <1>1, <1>4, <2>1 DEF Extends, Continued
  <2>5. Extends(c, a)
    BY <1>1, <2>2, <2>3, <2>4 DEF Extends, Continued
  <2> QED BY <1>1, <1>2, <2>5 DEF Continues
<1> QED BY <1>3, <1>4

\* The next generation, with the old one locked or not.
LEMMA NextGeneration ==
    ASSUME NEW c \in Chain, ChainOK(c), c.versions # <<>>, NEW L, L \subseteq {Latest(c).gen}
    PROVE  LET d == [versions |-> c.versions, gen |-> c.gen + 1, locked |-> c.locked \union L]
           IN  d \in Chain /\ ChainOK(d) /\ Extends(c, d)
<1> DEFINE d == [versions |-> c.versions, gen |-> c.gen + 1, locked |-> c.locked \union L]
<1>1. /\ c.versions \in Seq(Version) /\ Len(c.versions) \in Nat
      /\ c.gen \in Nat /\ c.locked \subseteq Nat
      /\ Len(c.versions) \in 1..Len(c.versions)
  BY ChainTypes
<1>2. Latest(c).gen \in Nat /\ Latest(c).gen <= c.gen
  BY <1>1, VersionTypes DEF Latest, ChainOK
<1>3. d \in Chain
  BY <1>1, <1>2 DEF Chain
<1>4. \A g \in d.locked : g < d.gen
  BY <1>1, <1>2 DEF ChainOK
<1>5. \A i \in 1..Len(c.versions) : c.versions[i].gen <= d.gen
  BY <1>1, VersionTypes DEF ChainOK
<1>6. ChainOK(d)
  <2>1. d.versions = c.versions
    OBVIOUS
  <2> HIDE DEF d
  <2> QED BY <1>4, <1>5, <2>1 DEF ChainOK
<1>7. Extends(c, d)
  BY <1>1 DEF Extends, Continued
<1> QED BY <1>3, <1>6, <1>7

LEMMA LatestFile ==
    ASSUME NEW c \in Chain, ChainOK(c), c.versions # <<>>
    PROVE  /\ Latest(c).text \in Texts /\ Latest(c).exists \in BOOLEAN
           /\ [text |-> Latest(c).text, exists |-> Latest(c).exists] \in Files
           /\ AsFile(Latest(c)) \in Files
<1>1. Len(c.versions) \in 1..Len(c.versions)
  BY ChainTypes
<1> QED BY <1>1, VersionTypes DEF Latest, ChainOK, AsFile

LEMMA OpenedContinues ==
    ASSUME NEW c \in Chain, NEW d \in Chain, ChainOK(d), d.versions # <<>>,
           Extends(c, d) \/ c = d
    PROVE  Continues(c, Opened(d), AsFile(Latest(d)))
<1> DEFINE o == [versions |-> d.versions, gen |-> d.gen + 1, locked |-> d.locked \union {}]
<1>1. [d EXCEPT !.gen = @ + 1] = o
  BY DEF Chain
<1>2. o \in Chain /\ ChainOK(o) /\ Extends(d, o)
  BY NextGeneration
<1>3. Extends(c, o)
  <2>1. o.versions = d.versions /\ o.locked = d.locked
    OBVIOUS
  <2> HIDE DEF o
  <2> QED BY <1>2, <2>1 DEF Extends, Continued
<1>4. Opened(d) = Appended(o, Latest(d).text, Latest(d).exists)
  BY <1>1 DEF Opened
<1> HIDE DEF o
<1> QED BY <1>2, <1>3, <1>4, LatestFile, AppendedContinues DEF AsFile

LEMMA LockedAndOpened ==
    ASSUME NEW c \in Chain, NEW g
    PROVE  LET l == [c EXCEPT !.locked = @ \union {g}]
           IN  /\ l.versions = c.versions
               /\ [l EXCEPT !.gen = @ + 1] =
                    [versions |-> c.versions, gen |-> c.gen + 1, locked |-> c.locked \union {g}]
<1> DEFINE l == [c EXCEPT !.locked = @ \union {g}]
<1>1. l = [versions |-> c.versions, gen |-> c.gen, locked |-> c.locked \union {g}]
  <2>1. ASSUME NEW X
        PROVE  [c EXCEPT !.locked = X] = [versions |-> c.versions, gen |-> c.gen, locked |-> X]
    BY DEF Chain
  <2> QED BY <2>1
<1> HIDE DEF l
<1>2. l.versions = c.versions
  BY <1>1
<1>3. [l EXCEPT !.gen = @ + 1] =
        [versions |-> c.versions, gen |-> c.gen + 1, locked |-> c.locked \union {g}]
  BY <1>1
<1> QED BY <1>2, <1>3 DEF l

LEMMA SealedContinues ==
    ASSUME NEW c \in Chain, ChainOK(c), c.versions # <<>>
    PROVE  Continues(c, Sealed(c), AsFile(Latest(c)))
<1> DEFINE o == [versions |-> c.versions, gen |-> c.gen + 1,
                 locked |-> c.locked \union {Latest(c).gen}]
           l == [c EXCEPT !.locked = @ \union {Latest(c).gen}]
<1>1. [l EXCEPT !.gen = @ + 1] = o /\ l.versions = c.versions
  BY LockedAndOpened
<1>2. o \in Chain /\ ChainOK(o) /\ Extends(c, o)
  BY NextGeneration
<1>3. Latest(l) = Latest(c)
  BY <1>1 DEF Latest
<1>4. Sealed(c) = Appended(o, Latest(c).text, Latest(c).exists)
  <2>1. Sealed(c) = Opened(l)
    BY DEF Sealed
  <2> HIDE DEF o, l
  <2> QED BY <1>1, <1>3, <2>1 DEF Opened
<1> HIDE DEF o
<1> QED BY <1>2, <1>4, LatestFile, AppendedContinues DEF AsFile

\* The record of a tool's change.
LEMMA RecordedContinues ==
    ASSUME NEW c \in Chain, ChainOK(c), NEW p \in [key : Keys, old : Files, new : Files]
    PROVE  Continues(c, Recorded(c, p), p.new)
<1>1. /\ p.old.text \in Texts /\ p.old.exists \in BOOLEAN
      /\ p.new.text \in Texts /\ p.new.exists \in BOOLEAN
      /\ p.old \in Files /\ p.new \in Files
  BY FileTypes
<1>2. /\ [text |-> p.old.text, exists |-> p.old.exists] = p.old
      /\ [text |-> p.new.text, exists |-> p.new.exists] = p.new
  BY <1>1 DEF Files
<1>3. WithOld(c, p.old) = c \/ Continues(c, WithOld(c, p.old), p.old)
  BY <1>1, <1>2, AppendedContinues DEF WithOld
<1>4. /\ WithOld(c, p.old) \in Chain /\ ChainOK(WithOld(c, p.old))
      /\ Extends(c, WithOld(c, p.old)) \/ c = WithOld(c, p.old)
  BY <1>3 DEF Continues
<1> QED BY <1>1, <1>2, <1>4, AppendedContinues DEF Recorded

-----------------------------------------------------------------------------
(* The operation under the lock.                                           *)

LEMMA OpTypes ==
    ASSUME TypeOK
    PROVE  /\ op \in Operation /\ op.key \in Keys /\ op.chain \in Chain /\ op.at \in Nat
           /\ op.pc \in Pcs /\ op.call \in Calls /\ op.goal \in Files
           /\ op.writes \in BOOLEAN /\ op.stale \in BOOLEAN /\ op.left \subseteq Keys
           /\ chain[op.key] \in Chain /\ disk[op.key] \in Files
<1>1. op \in Operation
  BY DEF TypeOK
<1>2. /\ op.key \in Keys /\ op.chain \in Chain /\ op.at \in Nat
      /\ op.pc \in Pcs /\ op.call \in Calls /\ op.goal \in Files
      /\ op.writes \in BOOLEAN /\ op.stale \in BOOLEAN /\ op.left \subseteq Keys
  BY <1>1 DEF Operation
<1> QED BY <1>1, <1>2 DEF TypeOK

\* An operation that has no chain in its hands.
Quiet(o) == o \in Operation /\ o.pc \in {"idle", "next", "remove"} /\ ~o.writes

LEMMA IdleIsQuiet ==
    /\ Idle \in Operation /\ Idle.pc = "idle" /\ ~Idle.writes /\ Quiet(Idle)
    /\ \A call \in Calls, left \in SUBSET Keys :
         Quiet([Idle EXCEPT !.pc = "next", !.call = call, !.left = left])
    /\ \A call \in Calls, k \in Keys, left \in SUBSET Keys :
         /\ Quiet([Idle EXCEPT !.pc = "remove", !.call = call, !.key = k, !.left = left])
         /\ Quiet([Idle EXCEPT !.pc = "remove", !.call = call, !.key = k])
<1>1. (CHOOSE k \in Keys : TRUE) \in Keys
  BY FileAssumption
<1>2. NoChain \in Chain
  BY EmptySeq DEF NoChain, Chain
<1>3. Idle \in Operation /\ Idle.pc = "idle" /\ ~Idle.writes
  BY <1>1, <1>2, FileTypes DEF Idle, Operation, Pcs, Calls
<1> HIDE DEF Idle
<1>4. ASSUME NEW call \in Calls, NEW left \in SUBSET Keys
      PROVE  Quiet([Idle EXCEPT !.pc = "next", !.call = call, !.left = left])
  BY <1>3 DEF Quiet, Operation, Pcs
<1>5. ASSUME NEW call \in Calls, NEW k \in Keys, NEW left \in SUBSET Keys
      PROVE  /\ Quiet([Idle EXCEPT !.pc = "remove", !.call = call, !.key = k, !.left = left])
             /\ Quiet([Idle EXCEPT !.pc = "remove", !.call = call, !.key = k])
  BY <1>3 DEF Quiet, Operation, Pcs
<1>6. Quiet(Idle)
  BY <1>3 DEF Quiet
<1> QED BY <1>3, <1>4, <1>5, <1>6

LEMMA EndedIsQuiet ==
    ASSUME TypeOK, NEW call \in Calls
    PROVE  Quiet(Ended(call)) /\ Ended(call).pc \in {"idle", "next"}
<1>1. op.left \subseteq Keys
  BY OpTypes
<1>2. [Idle EXCEPT !.pc = "next", !.call = call, !.left = op.left].pc = "next"
  BY IdleIsQuiet DEF Operation
<1> QED BY <1>1, <1>2, IdleIsQuiet DEF Ended

\* How an operation begins: its chain continues the one on the disk.
Started(o) ==
    /\ o \in Operation /\ o.pc \in {"read", "append"}
    /\ o.pc = "read" => o.writes
    /\ o.pc = "append" => ~o.writes
    /\ Extends(chain[o.key], o.chain) /\ ChainOK(o.chain)
    /\ o.at = Len(chain[o.key].versions) + 1
    /\ o.writes => Known(o.key) /\ o.goal = AsFile(Latest(o.chain))

LEMMA StartIsStarted ==
    ASSUME TypeOK, NEW call \in Calls, NEW k \in Keys, NEW d, NEW f, NEW left \in SUBSET Keys,
           Continues(chain[k], d, f)
    PROVE  Started(Start(call, k, d, left))
<1>1. chain[k] \in Chain
  BY DEF TypeOK
<1>2. Len(chain[k].versions) + 1 \in Nat
  BY <1>1, ChainTypes
<1>3. d \in Chain /\ ChainOK(d) /\ Extends(chain[k], d)
  BY DEF Continues
<1> DEFINE o == Start(call, k, d, left)
<1>4. /\ o \in Operation /\ o.pc = "append" /\ ~o.writes
      /\ o.key = k /\ o.chain = d /\ o.at = Len(chain[k].versions) + 1
  BY <1>2, <1>3, IdleIsQuiet DEF Start, Operation, Pcs
<1> HIDE DEF o
<1> QED BY <1>3, <1>4 DEF Started, o

LEMMA StartWriteIsStarted ==
    ASSUME TypeOK, NEW call \in Calls, NEW k \in Keys, NEW d, NEW f \in Files,
           NEW left \in SUBSET Keys,
           Continues(chain[k], d, f), Known(k)
    PROVE  Started(StartWrite(call, k, d, f, left))
<1>1. chain[k] \in Chain
  BY DEF TypeOK
<1>2. Len(chain[k].versions) + 1 \in Nat
  BY <1>1, ChainTypes
<1>3. d \in Chain /\ ChainOK(d) /\ Extends(chain[k], d) /\ AsFile(Latest(d)) = f
  BY DEF Continues
<1> DEFINE o == StartWrite(call, k, d, f, left)
<1>4. /\ o \in Operation /\ o.pc = "read" /\ o.writes
      /\ o.key = k /\ o.chain = d /\ o.at = Len(chain[k].versions) + 1 /\ o.goal = f
  BY <1>2, <1>3, IdleIsQuiet DEF StartWrite, Start, Operation, Pcs
<1> HIDE DEF o
<1> QED BY <1>3, <1>4 DEF Started, o

LEMMA StartedKeeps ==
    ASSUME FileInv, Started(op'), UNCHANGED <<chain, snap, torn>>
    PROVE  OpInv' /\ DiskIsKnown'
<1>1. PICK o \in Operation : o = op'
  BY DEF Started
<1> DEFINE k == o.key
           d == o.chain
<1>2. /\ o.pc \in {"read", "append"} /\ k \in Keys
      /\ o.pc = "read" => o.writes
      /\ o.pc = "append" => ~o.writes
      /\ Extends(chain[k], d) /\ ChainOK(d)
      /\ o.at = Len(chain[k].versions) + 1
      /\ o.writes => Known(k) /\ o.goal = AsFile(Latest(d))
  BY <1>1 DEF Started, Operation
<1> HIDE DEF k, d
<1>3. chain[k] \in Chain /\ Len(chain[k].versions) \in Nat
  BY <1>2, ChainTypes DEF FileInv, TypeOK
<1>4. ASSUME k \notin torn, NEW i \in 1..Len(d.versions), i < o.at
      PROVE  k \in DOMAIN snap /\ Readable(k, d.versions[i])
  <2>1. i \in 1..Len(chain[k].versions)
    BY <1>2, <1>3, <1>4
  <2>2. d.versions[i] = chain[k].versions[i]
    BY <1>2, <2>1 DEF Extends, Continued
  <2>3. Readable(k, chain[k].versions[i])
    BY <1>2, <1>4, <2>1 DEF FileInv, SnapshotsAreTrue
  <2>4. k \in DOMAIN snap
    BY <1>2 DEF FileInv, TypeOK
  <2> QED BY <2>2, <2>3, <2>4
<1>5. DiskIsKnown'
  BY <1>1, <1>2 DEF DiskIsKnown
<1>6. OpInv'
  <2>1. op'.key = k /\ op'.chain = d
    BY <1>1 DEF k, d
  <2>2. Extends(chain'[op'.key], op'.chain) /\ ChainOK(op'.chain)
    BY <1>2, <2>1
  <2>3. op'.writes => chain'[op'.key].versions # <<>> /\ op'.goal = AsFile(Latest(op'.chain))
    BY <1>1, <1>2, <2>1 DEF Known
  <2>4. op'.key \notin torn' =>
          \A i \in 1..Len(op'.chain.versions) : i < op'.at =>
             /\ op'.chain.versions[i].file \in DOMAIN snap'[op'.key]
             /\ snap'[op'.key][op'.chain.versions[i].file] = op'.chain.versions[i].text
    BY <1>1, <1>4, <2>1 DEF Readable
  <2>5. /\ op'.pc \in {"read", "append"}
        /\ op'.pc = "read" => op'.writes
        /\ op'.pc = "append" => ~op'.writes
    BY <1>1, <1>2
  <2>6. op'.at > Len(chain'[op'.key].versions)
    BY <1>1, <1>2, <1>3, <2>1
  <2> QED BY <2>2, <2>3, <2>4, <2>5, <2>6 DEF OpInv, Readable, Known, AppendDone
<1> QED BY <1>5, <1>6

LEMMA QuietKeeps ==
    ASSUME Quiet(op')
    PROVE  OpInv' /\ DiskIsKnown'
  BY DEF Quiet, OpInv, DiskIsKnown

LEMMA StoreKeeps ==
    ASSUME FileInv, UNCHANGED <<chain, snap, torn>>
    PROVE  (\A k \in Keys : ChainOK(chain[k]))' /\ SnapshotsAreTrue'
  BY DEF FileInv, SnapshotsAreTrue, Readable, ChainOK

LEMMA ListedTypes ==
    ASSUME FileInv, index' = index \/ index' = Listed
    PROVE  index' \in [Keys -> {"none", "clean", "changed"}]
  BY DEF Listed, Status, FileInv, TypeOK

\* An operation begins, goes on with its next file, or ends before it has
\* changed anything.
LEMMA BeginKeeps ==
    ASSUME FileInv, Started(op') \/ Quiet(op'),
           UNCHANGED <<disk, chain, snap, torn>>,
           pending' \subseteq pending, indexed' \in BOOLEAN,
           index' = index \/ index' = Listed
    PROVE  FileInv'
<1>1. OpInv' /\ DiskIsKnown'
  BY StartedKeeps, QuietKeeps
<1>2. op' \in Operation
  BY DEF Started, Quiet
<1>3. index' \in [Keys -> {"none", "clean", "changed"}]
  BY ListedTypes
<1>4. TypeOK'
  BY <1>2, <1>3 DEF FileInv, TypeOK
<1> QED BY <1>1, <1>4, StoreKeeps DEF FileInv

-----------------------------------------------------------------------------
(* The operations of the pages.                                            *)

\* What a page is shown has been read from its snapshot.
LEMMA HunksTypes ==
    ASSUME FileInv, NEW k \in Keys, HasHunks(k)
    PROVE  /\ chain[k] \in Chain /\ ChainOK(chain[k]) /\ Known(k)
           /\ Latest(chain[k]).text \in Texts /\ Base(chain[k]).text \in Texts
<1>1. chain[k] \in Chain /\ ChainOK(chain[k]) /\ Known(k)
  BY DEF FileInv, TypeOK, HasHunks
<1>2. ASSUME NEW v, Readable(k, v) PROVE v.text \in Texts
  BY <1>2 DEF Readable, FileInv, TypeOK
<1> QED BY <1>1, <1>2 DEF HasHunks

LEMMA UndoneIsFile ==
    ASSUME NEW c, NEW t \in Texts, NEW u \in Texts, NEW regions
    PROVE  LET f == Undone(c, Mixed(t, u, regions))
           IN  /\ f \in Files /\ f.text \in Texts /\ f.exists \in BOOLEAN
               /\ [text |-> f.text, exists |-> f.exists] = f
<1> DEFINE m == Mixed(t, u, regions)
           f == Undone(c, m)
<1> SUFFICES /\ f \in Files /\ f.text \in Texts /\ f.exists \in BOOLEAN
             /\ [text |-> f.text, exists |-> f.exists] = f
  OBVIOUS
<1>1. m \in Texts
  BY DEF Mixed, Texts
<1> HIDE DEF m
<1>2. f.text = m /\ f.exists \in BOOLEAN /\ (~f.exists => m = Blank)
  BY DEF Undone
<1>3. f = [text |-> f.text, exists |-> f.exists]
  BY DEF Undone
<1> HIDE DEF f
<1>4. CASE f.exists = TRUE
  BY <1>1, <1>2, <1>3, <1>4 DEF Files
<1>5. CASE f.exists = FALSE
  <2>1. f = [text |-> Blank, exists |-> FALSE]
    BY <1>2, <1>3, <1>5
  <2> QED BY <1>1, <1>2, <1>3, <2>1 DEF Files
<1> QED BY <1>2, <1>4, <1>5

LEMMA HunkStep ==
    ASSUME FileInv, NEW k \in Keys, HunkUndo(k) \/ HunkKeep(k)
    PROVE  FileInv'
<1> DEFINE c == chain[k]
<1>1. HasHunks(k) /\ op.pc = "idle"
  BY DEF HunkUndo, HunkKeep, Begin
<1>2. c \in Chain /\ ChainOK(c) /\ Known(k) /\ Latest(c).text \in Texts /\ Base(c).text \in Texts
  BY <1>1, HunksTypes
<1>3. "one" \in Calls /\ {} \in SUBSET Keys
  BY DEF Calls
<1>4. TypeOK
  BY DEF FileInv
<1>5. Started(op')
  <2>1. ASSUME NEW f \in Files, f.text \in Texts, f.exists \in BOOLEAN,
               [text |-> f.text, exists |-> f.exists] = f
        PROVE  /\ Continues(c, Appended(c, f.text, f.exists), f)
               /\ Continues(c, Opened(Appended(c, f.text, f.exists)), f)
    <3> DEFINE a == Appended(c, f.text, f.exists)
    <3>1. Continues(c, a, f)
      BY <1>2, <2>1, AppendedContinues
    <3> HIDE DEF a, c
    <3>2. a \in Chain /\ ChainOK(a) /\ a.versions # <<>> /\ Extends(c, a) /\ AsFile(Latest(a)) = f
      BY <3>1 DEF Continues, Extends, Continued
    <3>3. Continues(c, Opened(a), f)
      BY <1>2, <3>2, OpenedContinues
    <3> QED BY <3>1, <3>3 DEF a
  <2>2. CASE HunkUndo(k)
    <3>1. PICK regions :
            LET f == Undone(c, Mixed(Base(c).text, Latest(c).text, regions))
            IN  op' = StartWrite("one", k, Appended(c, f.text, f.exists), f, {})
      BY <2>2 DEF HunkUndo, Begin
    <3> DEFINE f == Undone(c, Mixed(Base(c).text, Latest(c).text, regions))
    <3>2. f \in Files /\ f.text \in Texts /\ f.exists \in BOOLEAN
          /\ [text |-> f.text, exists |-> f.exists] = f
      BY <1>2, UndoneIsFile
    <3>3. op' = StartWrite("one", k, Appended(c, f.text, f.exists), f, {})
      BY <3>1
    <3> HIDE DEF f
    <3> QED BY <1>2, <1>3, <1>4, <2>1, <3>2, <3>3, StartWriteIsStarted
  <2>3. CASE HunkKeep(k)
    <3>1. PICK regions :
            LET f == Undone(c, Mixed(Latest(c).text, Base(c).text, regions))
            IN  op' = StartWrite("one", k, Opened(Appended(c, f.text, f.exists)), f, {})
      BY <2>3 DEF HunkKeep, Begin
    <3> DEFINE f == Undone(c, Mixed(Latest(c).text, Base(c).text, regions))
    <3>2. f \in Files /\ f.text \in Texts /\ f.exists \in BOOLEAN
          /\ [text |-> f.text, exists |-> f.exists] = f
      BY <1>2, UndoneIsFile
    <3>3. op' = StartWrite("one", k, Opened(Appended(c, f.text, f.exists)), f, {})
      BY <3>1
    <3> HIDE DEF f
    <3> QED BY <1>2, <1>3, <1>4, <2>1, <3>2, <3>3, StartWriteIsStarted
  <2> QED BY <2>2, <2>3
<1>6. UNCHANGED <<disk, pending, chain, snap, index, indexed, torn>>
  BY DEF HunkUndo, HunkKeep, Begin, FilesKept, StoreKept
<1>7. indexed \in BOOLEAN
  BY DEF FileInv, TypeOK
<1> QED BY <1>1, <1>5, <1>6, <1>7, BeginKeeps

LEMMA RestoringIsStarted ==
    ASSUME FileInv, NEW k \in Keys, NEW i, MayRestore(k, i), NEW call \in Calls,
           NEW left \in SUBSET Keys
    PROVE  Started(Restoring(call, k, i, left))
<1> DEFINE c == chain[k]
           v == c.versions[i]
<1>1. c \in Chain /\ ChainOK(c) /\ i \in 1..Len(c.versions) /\ TypeOK
  BY DEF FileInv, TypeOK, MayRestore
<1>2. /\ v.text \in Texts /\ v.exists \in BOOLEAN
      /\ [text |-> v.text, exists |-> v.exists] = AsFile(v) /\ AsFile(v) \in Files
  BY <1>1, VersionTypes DEF AsFile, ChainOK
<1>3. Continues(c, Appended(c, v.text, v.exists), AsFile(v))
  BY <1>1, <1>2, AppendedContinues
<1>4. Known(k)
  BY <1>1, EmptySeq DEF Known
<1> QED BY <1>1, <1>2, <1>3, <1>4, StartWriteIsStarted DEF Restoring

LEMMA SealedIsStarted ==
    ASSUME FileInv, NEW k \in Keys, MayKeep(k), NEW call \in Calls, NEW left \in SUBSET Keys
    PROVE  Started(Start(call, k, Sealed(chain[k]), left))
<1>1. chain[k] \in Chain /\ ChainOK(chain[k]) /\ chain[k].versions # <<>> /\ TypeOK
  BY DEF FileInv, TypeOK, MayKeep, Known
<1> QED BY <1>1, SealedContinues, StartIsStarted

LEMMA PageStep ==
    ASSUME FileInv, NEW k \in Keys,
           Rollback(k) \/ UserSave(k) \/ SyncFromDisk(k) \/ Keep(k) \/ DeleteFileHistory(k)
    PROVE  FileInv'
<1> DEFINE c == chain[k]
<1>1. "one" \in Calls /\ {} \in SUBSET Keys
  BY DEF Calls
<1>2. TypeOK /\ c \in Chain /\ ChainOK(c)
  BY DEF FileInv, TypeOK
<1>3. op.pc = "idle" /\ UNCHANGED <<disk, pending, chain, snap, index, indexed, torn>>
  BY DEF Rollback, UserSave, SyncFromDisk, Keep, DeleteFileHistory, Begin, FilesKept,
         StoreKept
<1>4. Started(op') \/ Quiet(op')
  <2>1. CASE Rollback(k)
    BY <1>1, <2>1, RestoringIsStarted DEF Rollback, Begin
  <2>2. CASE UserSave(k)
    <3>1. PICK g \in Inputs :
            op' = StartWrite("one", k, Appended(c, g.text, TRUE),
                             [text |-> g.text, exists |-> TRUE], {})
      BY <2>2 DEF UserSave, Begin
    <3>2. g \in Files
      BY FileAssumption
    <3>3. g.text \in Texts /\ [text |-> g.text, exists |-> TRUE] \in Files
      BY <3>2, FileTypes
    <3>4. Continues(c, Appended(c, g.text, TRUE), [text |-> g.text, exists |-> TRUE])
      BY <1>2, <3>3, AppendedContinues
    <3>5. Known(k)
      BY <2>2 DEF UserSave
    <3> QED BY <1>1, <1>2, <3>1, <3>3, <3>4, <3>5, StartWriteIsStarted
  <2>3. CASE SyncFromDisk(k)
    <3>1. op' = Start("one", k, Synced(k), {}) /\ Known(k)
      BY <2>3 DEF SyncFromDisk, Begin
    <3>2. CASE Synced(k) = c
      <4>1. Extends(c, c)
        <5>1. Len(c.versions) \in Nat /\ c.versions # <<>>
          BY <1>2, <3>1, ChainTypes DEF Known
        <5> QED BY <5>1 DEF Extends, Continued
      <4> QED BY <1>1, <1>2, <3>1, <3>2, <4>1, StartIsStarted DEF Continues
    <3>3. CASE Synced(k) = Appended(c, disk[k].text, TRUE)
      <4>1. disk[k] \in Files
        BY DEF FileInv, TypeOK
      <4>2. disk[k].text \in Texts /\ [text |-> disk[k].text, exists |-> TRUE] \in Files
        BY <4>1, FileTypes
      <4>3. Continues(c, Synced(k), [text |-> disk[k].text, exists |-> TRUE])
        BY <1>2, <3>3, <4>2, AppendedContinues
      <4> QED BY <1>1, <1>2, <3>1, <4>3, StartIsStarted
    <3> QED BY <3>2, <3>3 DEF Synced
  <2>4. CASE Keep(k)
    BY <1>1, <2>4, SealedIsStarted DEF Keep, Begin
  <2>5. CASE DeleteFileHistory(k)
    BY <1>1, <2>5, IdleIsQuiet DEF DeleteFileHistory, Begin
  <2> QED BY <2>1, <2>2, <2>3, <2>4, <2>5
<1>5. indexed \in BOOLEAN
  BY <1>2 DEF TypeOK
<1> QED BY <1>3, <1>4, <1>5, BeginKeeps

LEMMA BatchStep ==
    ASSUME FileInv, Batch \/ NextItem \/ ThenClean
    PROVE  FileInv'
<1>1. TypeOK /\ indexed \in BOOLEAN
  BY DEF FileInv, TypeOK
<1>2. ASSUME NEW call \in Calls, NEW left \in SUBSET Keys, BeginAll(call, left)
      PROVE  FileInv'
  <2>1. Quiet(op')
    BY <1>2, IdleIsQuiet DEF BeginAll
  <2>2. /\ UNCHANGED <<disk, pending, chain, snap, torn>>
        /\ index' = Listed /\ indexed' \in BOOLEAN
    BY <1>1, <1>2 DEF BeginAll, FilesKept
  <2> QED BY <1>2, <2>1, <2>2, BeginKeeps
<1>3. CASE Batch
  <2>1. Undecided \subseteq Keys /\ \A all \in BOOLEAN : Cleaned(all) \subseteq Keys
    BY DEF Undecided, Cleaned
  <2>2. \E call \in Calls, left \in SUBSET Keys : BeginAll(call, left)
    BY <1>3, <2>1 DEF Batch, Calls
  <2> QED BY <1>2, <2>2
<1>4. CASE ThenClean
  <2>1. Cleaned(FALSE) \subseteq Keys /\ "cleanup" \in Calls
    BY DEF Cleaned, Calls
  <2>2. CASE BeginAll("cleanup", Cleaned(FALSE))
    BY <1>2, <2>1, <2>2
  <2>3. CASE op' = Idle /\ UNCHANGED <<disk, pending, chain, snap, index, indexed, torn>>
    BY <1>1, <1>4, <2>3, IdleIsQuiet, BeginKeeps DEF ThenClean
  <2> QED BY <1>4, <2>2, <2>3 DEF ThenClean, FilesKept, StoreKept
<1>5. CASE NextItem
  <2>1. PICK k \in op.left :
          \/ MayRestore(k, BaseAt(chain[k]))
             /\ op' = Restoring("revert_all", k, BaseAt(chain[k]), op.left \ {k})
          \/ MayKeep(k) /\ op' = Start(op.call, k, Sealed(chain[k]), op.left \ {k})
          \/ op' = [Idle EXCEPT !.pc = "remove", !.call = "cleanup", !.key = k,
                                !.left = op.left \ {k}]
          \/ op' = Idle
          \/ op' = [op EXCEPT !.left = op.left \ {k}]
    BY <1>5 DEF NextItem
  <2>2. /\ k \in Keys /\ op.left \ {k} \in SUBSET Keys /\ op.call \in Calls
        /\ "revert_all" \in Calls /\ "cleanup" \in Calls /\ op.pc = "next"
    BY <1>1, <1>5, OpTypes DEF NextItem, Calls
  <2>3. Quiet([op EXCEPT !.left = op.left \ {k}])
    <3>1. op \in Operation /\ ~op.writes
      BY <1>1, <2>2, OpTypes DEF FileInv, OpInv
    <3> QED BY <2>2, <3>1 DEF Quiet, Operation
  <2>4. Started(op') \/ Quiet(op')
    <3>1. MayRestore(k, BaseAt(chain[k])) =>
            Started(Restoring("revert_all", k, BaseAt(chain[k]), op.left \ {k}))
      BY <2>2, RestoringIsStarted
    <3>2. MayKeep(k) => Started(Start(op.call, k, Sealed(chain[k]), op.left \ {k}))
      BY <2>2, SealedIsStarted
    <3>3. Quiet([Idle EXCEPT !.pc = "remove", !.call = "cleanup", !.key = k,
                             !.left = op.left \ {k}])
      BY <2>2, IdleIsQuiet
    <3>4. Quiet(Idle)
      BY IdleIsQuiet
    <3> QED BY <2>1, <2>3, <3>1, <3>2, <3>3, <3>4
  <2>5. UNCHANGED <<disk, pending, chain, snap, index, indexed, torn>>
    BY <1>5 DEF NextItem, FilesKept, StoreKept
  <2> QED BY <1>1, <2>2, <2>4, <2>5, BeginKeeps
<1> QED BY <1>3, <1>4, <1>5

LEMMA RecordStep ==
    ASSUME FileInv, RecordChange
    PROVE  FileInv'
<1>1. PICK p \in pending :
        /\ pending' = pending \ {p}
        /\ op' = op \/ op' = Start("record", p.key, Recorded(chain[p.key], p), {})
  BY DEF RecordChange
<1>2. op.pc = "idle" /\ UNCHANGED <<disk, chain, snap, index, indexed, torn>>
  BY DEF RecordChange, StoreKept
<1>3. TypeOK /\ p \in [key : Keys, old : Files, new : Files] /\ indexed \in BOOLEAN
  BY DEF FileInv, TypeOK
<1>4. /\ p.key \in Keys /\ chain[p.key] \in Chain /\ ChainOK(chain[p.key])
      /\ "record" \in Calls /\ {} \in SUBSET Keys
  BY <1>3 DEF FileInv, TypeOK, Calls
<1>5. Quiet(op)
  BY <1>2, <1>3, OpTypes DEF FileInv, OpInv, Quiet
<1>6. Started(op') \/ Quiet(op')
  BY <1>1, <1>3, <1>4, <1>5, RecordedContinues, StartIsStarted
<1> QED BY <1>1, <1>2, <1>3, <1>6, BeginKeeps

-----------------------------------------------------------------------------
(* The steps of an operation.                                              *)

\* What no version names is dropped: what could be read can still be read.
LEMMA NamedKeeps ==
    ASSUME TypeOK, NEW o \in Keys, snap' = [snap EXCEPT ![o] = Named(o)],
           UNCHANGED <<chain, torn>>
    PROVE  /\ SnapshotsAreTrue => SnapshotsAreTrue'
           /\ snap' = [k \in Keys |-> snap'[k]]
           /\ \A k \in Keys : DOMAIN snap'[k] \subseteq Names
                              /\ \A f \in DOMAIN snap'[k] : snap'[k][f] \in Texts
<1>0. snap = [k \in Keys |-> snap[k]]
  BY DEF TypeOK
<1>1. \A k \in Keys : snap'[k] = IF k = o THEN Named(o) ELSE snap[k]
  BY <1>0
<1>2. snap' = [k \in Keys |-> snap'[k]]
  BY <1>0
<1>3. /\ DOMAIN Named(o) \subseteq DOMAIN snap[o]
      /\ \A f \in DOMAIN Named(o) : Named(o)[f] = snap[o][f]
      /\ \A i \in 1..Len(chain[o].versions) :
            chain[o].versions[i].file \in DOMAIN snap[o] =>
                chain[o].versions[i].file \in DOMAIN Named(o)
  BY DEF Named
<1>4. ASSUME NEW k \in Keys
      PROVE  DOMAIN snap'[k] \subseteq Names /\ \A f \in DOMAIN snap'[k] : snap'[k][f] \in Texts
  <2>1. DOMAIN snap[k] \subseteq Names /\ \A f \in DOMAIN snap[k] : snap[k][f] \in Texts
    BY DEF TypeOK
  <2> QED BY <1>1, <1>3, <2>1
<1>5. ASSUME SnapshotsAreTrue, NEW k \in Keys \ torn, NEW i \in 1..Len(chain[k].versions)
      PROVE  /\ chain[k].versions[i].file \in DOMAIN snap'[k]
             /\ snap'[k][chain[k].versions[i].file] = chain[k].versions[i].text
  <2>1. /\ chain[k].versions[i].file \in DOMAIN snap[k]
        /\ snap[k][chain[k].versions[i].file] = chain[k].versions[i].text
    BY <1>5 DEF SnapshotsAreTrue, Readable
  <2> QED BY <1>1, <1>3, <2>1
<1> QED BY <1>2, <1>4, <1>5 DEF SnapshotsAreTrue, Readable

\* An operation that gives up, and one whose process dies.
LEMMA StopKeeps ==
    ASSUME FileInv, Quiet(op'), op'.pc \in {"idle", "next"},
           snap' = [snap EXCEPT ![op.key] = Named(op.key)],
           UNCHANGED <<disk, chain, index, indexed, torn>>,
           pending' \subseteq pending
    PROVE  FileInv'
<1>1. TypeOK /\ op.key \in Keys
  BY OpTypes DEF FileInv
<1>2. OpInv' /\ DiskIsKnown'
  BY QuietKeeps
<1>3. /\ SnapshotsAreTrue'
      /\ snap' = [k \in Keys |-> snap'[k]]
      /\ \A k \in Keys : DOMAIN snap'[k] \subseteq Names
                         /\ \A f \in DOMAIN snap'[k] : snap'[k][f] \in Texts
  BY <1>1, NamedKeeps DEF FileInv
<1>4. (\A k \in Keys : ChainOK(chain[k]))'
  BY DEF FileInv, ChainOK
<1>5. op' \in Operation
  BY DEF Quiet
<1>6. TypeOK'
  BY <1>1, <1>3, <1>5 DEF TypeOK
<1> QED BY <1>2, <1>3, <1>4, <1>6 DEF FileInv

LEMMA RefusedKeeps ==
    ASSUME FileInv, Refused, UNCHANGED <<disk, pending, torn>>
    PROVE  FileInv'
<1>1. TypeOK /\ op.call \in Calls
  BY OpTypes DEF FileInv
<1>2. Quiet(op') /\ op'.pc \in {"idle", "next"}
  BY <1>1, EndedIsQuiet DEF Refused
<1> QED BY <1>2, StopKeeps DEF Refused

LEMMA StandsStill ==
    ASSUME FileInv, UNCHANGED <<disk, chain, snap, index, indexed, op, torn>>,
           pending' \subseteq pending
    PROVE  FileInv'
<1>1. TypeOK'
  BY DEF FileInv, TypeOK
<1>2. OpInv'
  BY DEF FileInv, OpInv, AppendDone, Readable, Known
<1>3. DiskIsKnown'
  BY DEF FileInv, DiskIsKnown
<1> QED BY <1>1, <1>2, <1>3, StoreKeeps DEF FileInv

LEMMA DeathStep ==
    ASSUME FileInv, BackendDies \/ WorkerDies
    PROVE  FileInv'
<1>1. TypeOK
  BY DEF FileInv
<1>2. CASE Dies /\ pending' \subseteq pending
  BY <1>1, <1>2, IdleIsQuiet, StopKeeps DEF Dies
<1>3. CASE pending' = {} /\ UNCHANGED <<disk, chain, snap, index, indexed, op, torn>>
  BY <1>3, StandsStill
<1> QED BY <1>2, <1>3 DEF BackendDies, WorkerDies, StoreKept

\* The operation goes on and touches no file.
LEMMA GoesKeeps ==
    ASSUME FileInv, op.pc \in {"read", "append", "check"},
           NEW p \in {"append", "check", "replace", "save"}, NEW b \in BOOLEAN,
           op' = [op EXCEPT !.pc = p, !.stale = b], StoreKept, FilesKept, UNCHANGED torn,
           p # "append" => AppendDone,
           p \in {"check", "replace"} => op.writes,
           p = "save" => ~op.writes,
           op.writes /\ ~b => disk[op.key] = AsFile(Latest(chain[op.key]))
    PROVE  FileInv'
<1>1. TypeOK /\ op \in Operation
  BY OpTypes DEF FileInv
<1>2. UNCHANGED <<disk, pending, chain, snap, index, indexed, torn>>
  BY DEF StoreKept, FilesKept
<1>3. /\ op' \in Operation /\ op'.pc = p
      /\ op'.key = op.key /\ op'.chain = op.chain /\ op'.at = op.at /\ op'.goal = op.goal
      /\ op'.writes = op.writes /\ op'.stale = b
  BY <1>1 DEF Operation, Pcs
<1>4. TypeOK'
  BY <1>1, <1>2, <1>3 DEF TypeOK
<1>5. OpInv'
  BY <1>2, <1>3 DEF FileInv, OpInv, AppendDone, Readable, Known
<1>6. DiskIsKnown'
  BY <1>2, <1>3 DEF DiskIsKnown
<1> QED BY <1>2, <1>4, <1>5, <1>6, StoreKeeps DEF FileInv

LEMMA CheckStep ==
    ASSUME FileInv, ReadDisk \/ RecomputeTotal \/ CheckVersion
    PROVE  FileInv'
<1>1. /\ op.pc \in {"read", "append", "check"} /\ FilesKept
      /\ UNCHANGED <<disk, pending, torn>>
  BY DEF ReadDisk, RecomputeTotal, CheckVersion, FilesKept
<1>2. op \in Operation /\ op.stale \in BOOLEAN /\ op.writes \in BOOLEAN
  BY OpTypes DEF FileInv
<1>3. \A p : Goes(p) => op' = [op EXCEPT !.pc = p, !.stale = op.stale] /\ StoreKept
  BY <1>2 DEF Goes, Operation
<1>4. CASE Refused
  BY <1>1, <1>4, RefusedKeeps
<1>5. CASE ReadDisk /\ ~Refused
  <2>1. op.pc = "read" /\ disk[op.key] = AsFile(Latest(chain[op.key])) /\ Goes("append")
    BY <1>5 DEF ReadDisk
  <2> QED BY <1>1, <1>2, <1>3, <2>1, GoesKeeps
<1>6. CASE RecomputeTotal /\ ~Refused
  <2>1. /\ op.pc = "append" /\ AppendDone
        /\ Goes(IF op.writes THEN "check" ELSE "save")
    BY <1>6 DEF RecomputeTotal
  <2>2. op.writes /\ ~op.stale => disk[op.key] = AsFile(Latest(chain[op.key]))
    BY <2>1 DEF FileInv, OpInv
  <2>3. CASE op.writes
    <3>1. Goes("check")
      BY <2>1, <2>3
    <3> QED BY <1>1, <1>2, <1>3, <2>1, <2>2, <2>3, <3>1, GoesKeeps
  <2>4. CASE ~op.writes
    <3>1. Goes("save")
      BY <2>1, <2>4
    <3> QED BY <1>1, <1>2, <1>3, <2>1, <2>2, <2>4, <3>1, GoesKeeps
  <2> QED BY <2>3, <2>4
\* The comparison succeeds only if nobody wrote the file: it is still what the
\* operation has read.
<1>7. CASE CheckVersion /\ ~Refused
  <2>1. /\ op.pc = "check" /\ ~op.stale
        /\ op' = [op EXCEPT !.pc = "replace", !.stale = FALSE] /\ StoreKept
    BY <1>7 DEF CheckVersion
  <2>2. op.writes /\ AppendDone /\ disk[op.key] = AsFile(Latest(chain[op.key]))
    BY <2>1 DEF FileInv, OpInv
  <2> QED BY <1>1, <2>1, <2>2, GoesKeeps
<1> QED BY <1>4, <1>5, <1>6, <1>7

\* A snapshot is written, or found, and the operation goes to its next version.
LEMMA AppendStep ==
    ASSUME FileInv, AppendVersion
    PROVE  FileInv'
<1> DEFINE c == op.chain
           n == op.at
           v == c.versions[n]
           new == \A i \in 1..(n - 1) : c.versions[i].text # v.text
           Reads(i) == /\ c.versions[i].file \in DOMAIN snap'[op.key]
                       /\ snap'[op.key][c.versions[i].file] = c.versions[i].text
<1>1. /\ TypeOK /\ op \in Operation /\ op.key \in Keys /\ c \in Chain /\ n \in Nat
      /\ chain[op.key] \in Chain
  BY OpTypes DEF FileInv
<1>2. /\ op.pc = "append" /\ n <= Len(c.versions)
      /\ UNCHANGED <<disk, pending, torn>>
  BY <1>1, ChainTypes DEF AppendVersion, AppendDone, FilesKept
<1>3. /\ Extends(chain[op.key], c) /\ ChainOK(c) /\ n > Len(chain[op.key].versions)
      /\ op.writes => Known(op.key) /\ op.goal = AsFile(Latest(c))
      /\ op.key \notin torn =>
            \A i \in 1..Len(c.versions) : i < n => Readable(op.key, c.versions[i])
  BY <1>2 DEF FileInv, OpInv
<1>4. /\ Len(c.versions) \in Nat /\ Len(chain[op.key].versions) \in Nat
      /\ n \in 1..Len(c.versions) /\ v.file \in Names /\ v.text \in Texts
  <2>1. Len(c.versions) \in Nat /\ Len(chain[op.key].versions) \in Nat
    BY <1>1, ChainTypes
  <2>2. n \in 1..Len(c.versions)
    BY <1>1, <1>2, <1>3, <2>1
  <2> QED BY <1>1, <2>1, <2>2, VersionTypes
<1>5. CASE Refused
  BY <1>2, <1>5, RefusedKeeps
<1>6. ASSUME op' = [op EXCEPT !.at = n + 1], UNCHANGED <<chain, index, indexed>>,
             snap' = [k \in Keys |-> snap'[k]],
             \A k \in Keys \ {op.key} : snap'[k] = snap[k],
             DOMAIN snap'[op.key] \subseteq Names,
             \A f \in DOMAIN snap'[op.key] : snap'[op.key][f] \in Texts,
             \A i \in 1..Len(c.versions) :
                /\ i < n /\ Readable(op.key, c.versions[i]) => Reads(i)
                /\ i = n => Reads(i)
      PROVE  FileInv'
  <2>1. /\ op' \in Operation /\ op'.pc = "append" /\ op'.at = n + 1
        /\ op'.key = op.key /\ op'.chain = c /\ op'.goal = op.goal
        /\ op'.writes = op.writes /\ op'.stale = op.stale
    BY <1>1, <1>2, <1>6 DEF Operation
  <2> HIDE DEF c, n
  <2>2. TypeOK'
    <3>1. \A k \in Keys : DOMAIN snap'[k] \subseteq Names
                          /\ \A f \in DOMAIN snap'[k] : snap'[k][f] \in Texts
      BY <1>1, <1>6 DEF TypeOK
    <3> QED BY <1>1, <1>2, <1>6, <2>1, <3>1 DEF TypeOK
  <2>3. op.key \notin torn =>
          \A i \in 1..Len(c.versions) : i < n + 1 =>
             /\ c.versions[i].file \in DOMAIN snap'[op.key]
             /\ snap'[op.key][c.versions[i].file] = c.versions[i].text
    <3> SUFFICES ASSUME op.key \notin torn, NEW i \in 1..Len(c.versions), i < n + 1
                 PROVE  Reads(i)
      OBVIOUS
    <3>1. i < n \/ i = n
      BY <1>1 DEF n
    <3> QED BY <1>3, <1>6, <3>1
  <2>4. OpInv'
    <3>1. Extends(chain'[op'.key], op'.chain) /\ ChainOK(op'.chain)
      BY <1>3, <1>6, <2>1
    <3>2. op'.writes => chain'[op'.key].versions # <<>> /\ op'.goal = AsFile(Latest(op'.chain))
      BY <1>3, <1>6, <2>1 DEF Known
    <3>3. op'.at > Len(chain'[op'.key].versions)
      BY <1>1, <1>3, <1>4, <1>6, <2>1
    <3>4. op'.key \notin torn' =>
            \A i \in 1..Len(op'.chain.versions) : i < op'.at =>
               /\ op'.chain.versions[i].file \in DOMAIN snap'[op'.key]
               /\ snap'[op'.key][op'.chain.versions[i].file] = op'.chain.versions[i].text
      BY <1>2, <2>1, <2>3
    <3>5. op'.writes /\ ~op'.stale => disk'[op'.key] = AsFile(Latest(chain'[op'.key]))
      BY <1>2, <1>6, <2>1 DEF FileInv, OpInv
    <3> QED BY <2>1, <3>1, <3>2, <3>3, <3>4, <3>5 DEF OpInv, Readable, Known
  <2>5. DiskIsKnown'
    BY <2>1 DEF DiskIsKnown
  <2>7. (\A k \in Keys : ChainOK(chain[k]))'
    BY <1>6 DEF FileInv
  <2>8. SnapshotsAreTrue'
    <3> SUFFICES ASSUME NEW k \in Keys \ torn, NEW i \in 1..Len(chain[k].versions)
                 PROVE  /\ chain[k].versions[i].file \in DOMAIN snap'[k]
                        /\ snap'[k][chain[k].versions[i].file] = chain[k].versions[i].text
      BY <1>2, <1>6 DEF SnapshotsAreTrue, Readable
    <3>1. CASE k = op.key
      <4>1. i \in 1..Len(c.versions) /\ i < n + 1 /\ chain[k].versions[i] = c.versions[i]
        BY <1>1, <1>3, <1>4, <3>1 DEF Extends, Continued, n
      <4> QED BY <2>3, <3>1, <4>1
    <3>2. CASE k # op.key
      BY <1>6, <3>2 DEF FileInv, SnapshotsAreTrue, Readable
    <3> QED BY <3>1, <3>2
  <2> QED BY <2>2, <2>4, <2>5, <2>7, <2>8 DEF FileInv
<1>7. CASE new /\ snap' = [snap EXCEPT ![op.key] = Stored(v.file, v.text)]
           /\ op' = [op EXCEPT !.at = n + 1] /\ UNCHANGED <<chain, index, indexed>>
  <2>0. snap = [k \in Keys |-> snap[k]]
    BY <1>1 DEF TypeOK
  <2>1. /\ snap' = [k \in Keys |-> snap'[k]]
        /\ \A k \in Keys \ {op.key} : snap'[k] = snap[k]
        /\ snap'[op.key] = Stored(v.file, v.text)
    BY <1>1, <1>7, <2>0
  <2>2. /\ DOMAIN snap'[op.key] = DOMAIN snap[op.key] \union {v.file}
        /\ snap'[op.key][v.file] = v.text
        /\ \A f \in DOMAIN snap[op.key] \ {v.file} : snap'[op.key][f] = snap[op.key][f]
    BY <2>1 DEF Stored
  <2>3. DOMAIN snap'[op.key] \subseteq Names /\ \A f \in DOMAIN snap'[op.key] : snap'[op.key][f] \in Texts
    <3>1. DOMAIN snap[op.key] \subseteq Names /\ \A f \in DOMAIN snap[op.key] : snap[op.key][f] \in Texts
      BY <1>1 DEF TypeOK
    <3> QED BY <1>4, <2>2, <3>1
  <2>4. ASSUME NEW i \in 1..Len(c.versions), i < n PROVE c.versions[i].file # v.file
    <3>1. v.file[2] = n - 1
      BY <1>3, <1>4, <1>7 DEF ChainOK
    <3>2. c.versions[i].file[2] < i /\ c.versions[i].file[2] \in Nat
      BY <1>1, <1>3, VersionTypes DEF ChainOK
    <3> QED BY <1>1, <2>4, <3>1, <3>2
  <2>5. ASSUME NEW i \in 1..Len(c.versions)
        PROVE  /\ i < n /\ Readable(op.key, c.versions[i]) => Reads(i)
               /\ i = n => Reads(i)
    BY <2>2, <2>4 DEF Readable
  <2> QED BY <1>6, <1>7, <2>1, <2>3, <2>5
<1>8. CASE Readable(op.key, v) /\ op' = [op EXCEPT !.at = n + 1]
           /\ UNCHANGED <<chain, snap, index, indexed>>
  <2>1. snap' = [k \in Keys |-> snap'[k]] /\ \A k \in Keys : snap'[k] = snap[k]
    BY <1>1, <1>8 DEF TypeOK
  <2>2. DOMAIN snap'[op.key] \subseteq Names /\ \A f \in DOMAIN snap'[op.key] : snap'[op.key][f] \in Texts
    BY <1>1, <2>1 DEF TypeOK
  <2>4. ASSUME NEW i \in 1..Len(c.versions)
        PROVE  /\ i < n /\ Readable(op.key, c.versions[i]) => Reads(i)
               /\ i = n => Reads(i)
    BY <1>8, <2>1 DEF Readable
  <2> QED BY <1>6, <1>8, <2>1, <2>2, <2>4
<1>9. \/ Refused
      \/ new /\ snap' = [snap EXCEPT ![op.key] = Stored(v.file, v.text)]
         /\ op' = [op EXCEPT !.at = n + 1] /\ UNCHANGED <<chain, index, indexed>>
      \/ Readable(op.key, v) /\ op' = [op EXCEPT !.at = n + 1]
         /\ UNCHANGED <<chain, snap, index, indexed>>
  BY DEF AppendVersion, StoreKept
<1> QED BY <1>5, <1>7, <1>8, <1>9

LEMMA ReplaceStep ==
    ASSUME FileInv, Replace
    PROVE  FileInv'
<1>1. TypeOK /\ op \in Operation /\ op.key \in Keys /\ op.goal \in Files
  BY OpTypes DEF FileInv
<1>2. op.pc = "replace" /\ UNCHANGED <<pending, torn>>
  BY DEF Replace
<1>3. CASE Refused /\ UNCHANGED disk
  BY <1>2, <1>3, RefusedKeeps
<1>4. CASE /\ disk' = [disk EXCEPT ![op.key] = op.goal]
           /\ op' = [op EXCEPT !.pc = "save", !.stale = FALSE]
           /\ UNCHANGED <<chain, snap, index, indexed>>
  <2>1. /\ op' \in Operation /\ op'.pc = "save" /\ op'.key = op.key /\ op'.chain = op.chain
        /\ op'.at = op.at /\ op'.goal = op.goal /\ op'.writes = op.writes
    BY <1>1, <1>4 DEF Operation, Pcs
  <2>2. disk' \in [Keys -> Files] /\ disk'[op.key] = op.goal
    BY <1>1, <1>4 DEF TypeOK
  <2>3. TypeOK'
    BY <1>1, <1>2, <1>4, <2>1, <2>2 DEF TypeOK
  <2>4. OpInv'
    BY <1>2, <1>4, <2>1 DEF FileInv, OpInv, AppendDone, Readable, Known
  <2>5. DiskIsKnown'
    BY <1>2, <2>1, <2>2 DEF FileInv, OpInv, DiskIsKnown
  <2> QED BY <1>2, <1>4, <2>3, <2>4, <2>5, StoreKeeps DEF FileInv
<1> QED BY <1>3, <1>4 DEF Replace, StoreKept

\* Somebody writes the file: the operation that took its identity is told.
LEMMA WriteStep ==
    ASSUME FileInv, NEW k \in Keys, ToolWrite(k) \/ OtherProgram(k)
    PROVE  FileInv'
<1>1. TypeOK /\ op \in Operation /\ op.key \in Keys
  BY OpTypes DEF FileInv
<1>2. PICK f \in Inputs :
        /\ disk' = [disk EXCEPT ![k] = f]
        /\ op' = [op EXCEPT !.stale = @ \/ (op.writes /\ k = op.key)]
        /\ pending' \subseteq pending \union {[key |-> k, old |-> disk[k], new |-> f]}
  BY DEF ToolWrite, OtherProgram, Written
<1>3. UNCHANGED <<chain, snap, index, indexed, torn>>
  BY DEF ToolWrite, OtherProgram, StoreKept
<1>4. /\ op' \in Operation /\ op'.pc = op.pc /\ op'.key = op.key /\ op'.chain = op.chain
      /\ op'.at = op.at /\ op'.goal = op.goal /\ op'.writes = op.writes
      /\ op'.stale = (op.stale \/ (op.writes /\ k = op.key))
  <2>1. ASSUME NEW b \in BOOLEAN
        PROVE  LET o == [op EXCEPT !.stale = b]
               IN  /\ o \in Operation /\ o.pc = op.pc /\ o.key = op.key /\ o.chain = op.chain
                   /\ o.at = op.at /\ o.goal = op.goal /\ o.writes = op.writes /\ o.stale = b
    BY <1>1 DEF Operation
  <2> DEFINE b == op.stale \/ (op.writes /\ k = op.key)
  <2>2. b \in BOOLEAN /\ op' = [op EXCEPT !.stale = b]
    BY <1>2
  <2> HIDE DEF b
  <2>3. /\ op' \in Operation /\ op'.pc = op.pc /\ op'.key = op.key /\ op'.chain = op.chain
        /\ op'.at = op.at /\ op'.goal = op.goal /\ op'.writes = op.writes /\ op'.stale = b
    BY <2>1, <2>2
  <2> QED BY <2>3 DEF b
<1>5. f \in Files /\ disk[k] \in Files
  BY <1>1, FileAssumption DEF TypeOK
<1>6. disk' \in [Keys -> Files] /\ (op.key # k => disk'[op.key] = disk[op.key])
  BY <1>1, <1>2, <1>5 DEF TypeOK
<1>7. pending' \subseteq [key : Keys, old : Files, new : Files]
  BY <1>1, <1>2, <1>5 DEF TypeOK
<1>8. TypeOK'
  BY <1>1, <1>3, <1>4, <1>6, <1>7 DEF TypeOK
<1>9. OpInv'
  BY <1>3, <1>4, <1>6 DEF FileInv, OpInv, AppendDone, Readable, Known
<1>10. DiskIsKnown'
  BY <1>3, <1>4, <1>6 DEF FileInv, DiskIsKnown
<1> QED BY <1>3, <1>8, <1>9, <1>10, StoreKeeps DEF FileInv

\* The new chain is saved: its snapshots have all been written.
LEMMA SaveStep ==
    ASSUME FileInv, SaveMeta
    PROVE  FileInv'
<1>1. TypeOK /\ op \in Operation /\ op.key \in Keys /\ op.chain \in Chain /\ op.at \in Nat
  BY OpTypes DEF FileInv
<1>2. /\ op.pc = "save" /\ chain' = [chain EXCEPT ![op.key] = op.chain]
      /\ op' = [op EXCEPT !.pc = "index"]
      /\ UNCHANGED <<disk, pending, snap, index, indexed, torn>>
  BY DEF SaveMeta, FilesKept
<1>3. /\ op' \in Operation /\ op'.pc = "index" /\ op'.key = op.key /\ op'.chain = op.chain
      /\ op'.at = op.at /\ op'.goal = op.goal
      /\ op'.writes = op.writes /\ op'.stale = op.stale
  BY <1>1, <1>2 DEF Operation, Pcs
<1>4. /\ chain' \in [Keys -> Chain] /\ chain'[op.key] = op.chain
      /\ \A k \in Keys \ {op.key} : chain'[k] = chain[k]
  BY <1>1, <1>2 DEF TypeOK
<1>5. /\ ChainOK(op.chain) /\ op.chain.versions # <<>> /\ op.at > Len(op.chain.versions)
      /\ op.key \notin torn =>
            \A i \in 1..Len(op.chain.versions) :
               i < op.at => Readable(op.key, op.chain.versions[i])
  BY <1>2 DEF FileInv, OpInv, AppendDone, Extends, Continued
<1>6. TypeOK'
  BY <1>1, <1>2, <1>3, <1>4 DEF TypeOK
<1>7. (\A k \in Keys : ChainOK(chain[k]))'
  <2>1. \A k \in Keys : ChainOK(chain'[k])
    BY <1>4, <1>5 DEF FileInv
  <2> QED BY <2>1 DEF ChainOK
<1>8. OpInv'
  BY <1>3, <1>4, <1>5 DEF OpInv, Known
<1>9. SnapshotsAreTrue'
  <2> SUFFICES ASSUME NEW k \in Keys \ torn, NEW i \in 1..Len(chain'[k].versions)
               PROVE  /\ chain'[k].versions[i].file \in DOMAIN snap[k]
                      /\ snap[k][chain'[k].versions[i].file] = chain'[k].versions[i].text
    BY <1>2 DEF SnapshotsAreTrue, Readable
  <2>1. CASE k = op.key
    <3>1. i < op.at
      BY <1>1, <1>4, <1>5, <2>1, ChainTypes
    <3> QED BY <1>4, <1>5, <2>1, <3>1 DEF Readable
  <2>2. CASE k # op.key
    BY <1>4, <2>2 DEF FileInv, SnapshotsAreTrue, Readable
  <2> QED BY <2>1, <2>2
<1>10. DiskIsKnown'
  BY <1>2, <1>3 DEF FileInv, DiskIsKnown
<1> QED BY <1>6, <1>7, <1>8, <1>9, <1>10 DEF FileInv

\* The entry of the index is written anew, or removed with its history.
LEMMA EntryStep ==
    ASSUME FileInv, RefreshIndex \/ DropEntry
    PROVE  FileInv'
<1>1. TypeOK /\ op.key \in Keys /\ op.call \in Calls
  BY OpTypes DEF FileInv
<1>2. Quiet(op') /\ op'.pc \in {"idle", "next"}
  <2>1. "kept_clean" \in Calls
    BY DEF Calls
  <2> QED BY <1>1, <2>1, EndedIsQuiet DEF RefreshIndex, DropEntry
<1>3. UNCHANGED <<disk, pending, chain, snap, torn>> /\ indexed' \in BOOLEAN
  BY <1>1 DEF RefreshIndex, DropEntry, FilesKept, TypeOK
<1>4. index' \in [Keys -> {"none", "clean", "changed"}]
  BY <1>1 DEF RefreshIndex, DropEntry, Status, TypeOK
<1>5. TypeOK'
  BY <1>1, <1>2, <1>3, <1>4 DEF TypeOK, Quiet
<1> QED BY <1>2, <1>3, <1>5, QuietKeeps, StoreKeeps DEF FileInv

\* A history is removed file by file.
LEMMA RemoveStep ==
    ASSUME FileInv, RemoveSome \/ RemoveRest
    PROVE  FileInv'
<1> DEFINE o == op.key
<1>1. TypeOK /\ op \in Operation /\ o \in Keys /\ NoChain \in Chain
  BY OpTypes, EmptySeq DEF FileInv, NoChain, Chain
<1>2. ~op.writes /\ UNCHANGED <<disk, pending, index, indexed>>
  BY DEF RemoveSome, RemoveRest, FilesKept, FileInv, OpInv
<1>3. PICK p \in {"rest", "drop"} : op' = [op EXCEPT !.pc = p]
  BY DEF RemoveSome, RemoveRest
<1>4. /\ op' \in Operation /\ op'.pc = p /\ op'.key = o /\ ~op'.writes
  BY <1>1, <1>2, <1>3 DEF Operation, Pcs
<1>5. chain' = chain \/ chain' = [chain EXCEPT ![o] = NoChain]
  BY DEF RemoveSome, RemoveRest
<1>6. /\ chain' \in [Keys -> Chain]
      /\ \A k \in Keys \ {o} : chain'[k] = chain[k]
      /\ chain'[o] = chain[o] \/ chain'[o] = NoChain
  BY <1>1, <1>5 DEF TypeOK
<1>7. \/ UNCHANGED snap \/ snap' = [snap EXCEPT ![o] = <<>>]
      \/ snap' = [snap EXCEPT ![o] = Named(o)] /\ UNCHANGED <<chain, torn>>
  BY DEF RemoveSome, RemoveRest
<1>8. /\ torn' \subseteq torn \union {o} /\ torn \ {o} \subseteq torn'
      /\ o \notin torn' => \/ chain'[o] = NoChain
                           \/ o \notin torn /\ UNCHANGED <<chain, torn>>
                              /\ (snap' = snap \/ snap' = [snap EXCEPT ![o] = Named(o)])
  <2>1. chain' = [chain EXCEPT ![o] = NoChain] => chain'[o] = NoChain
    BY <1>1 DEF TypeOK
  <2> QED BY <2>1 DEF RemoveSome, RemoveRest
<1>9. /\ snap' = [k \in Keys |-> snap'[k]]
      /\ \A k \in Keys \ {o} : snap'[k] = snap[k]
      /\ \A k \in Keys : DOMAIN snap'[k] \subseteq Names
                          /\ \A f \in DOMAIN snap'[k] : snap'[k][f] \in Texts
  <2>1. /\ snap = [k \in Keys |-> snap[k]]
        /\ \A k \in Keys : DOMAIN snap[k] \subseteq Names
                            /\ \A f \in DOMAIN snap[k] : snap[k][f] \in Texts
    BY <1>1 DEF TypeOK
  <2>2. DOMAIN << >> = {}
    OBVIOUS
  <2>3. CASE snap' = [snap EXCEPT ![o] = <<>>]
    BY <1>1, <2>1, <2>2, <2>3
  <2>4. CASE snap' = [snap EXCEPT ![o] = Named(o)] /\ UNCHANGED <<chain, torn>>
    BY <1>1, <2>1, <2>4, NamedKeeps
  <2> QED BY <1>7, <2>1, <2>3, <2>4
<1>10. TypeOK'
  <2>1. torn' \subseteq Keys
    BY <1>1, <1>8 DEF TypeOK
  <2> QED BY <1>1, <1>2, <1>4, <1>6, <1>9, <2>1 DEF TypeOK
<1>11. (\A k \in Keys : ChainOK(chain[k]))'
  <2>1. Len(NoChain.versions) = 0 /\ NoChain.locked = {}
    BY EmptySeq DEF NoChain
  <2>2. ChainOK(NoChain)
    BY <2>1 DEF ChainOK
  <2>3. \A k \in Keys : ChainOK(chain'[k])
    BY <1>6, <2>2 DEF FileInv
  <2> QED BY <2>3 DEF ChainOK
<1>12. OpInv'
  BY <1>4 DEF OpInv
<1>13. DiskIsKnown'
  BY <1>4 DEF DiskIsKnown
<1>14. SnapshotsAreTrue'
  <2>1. CASE snap' = [snap EXCEPT ![o] = Named(o)] /\ UNCHANGED <<chain, torn>>
    BY <1>1, <2>1, NamedKeeps DEF FileInv
  <2>2. CASE ~(snap' = [snap EXCEPT ![o] = Named(o)] /\ UNCHANGED <<chain, torn>>)
    <3> SUFFICES ASSUME NEW k \in Keys \ torn', NEW i \in 1..Len(chain'[k].versions)
                 PROVE  /\ chain'[k].versions[i].file \in DOMAIN snap'[k]
                        /\ snap'[k][chain'[k].versions[i].file] = chain'[k].versions[i].text
      BY DEF SnapshotsAreTrue, Readable
    <3>1. CASE k = o /\ chain'[o] = NoChain
      BY <3>1, EmptySeq DEF NoChain
    <3>2. CASE k # o \/ chain'[o] # NoChain
      <4>1. chain'[k] = chain[k] /\ snap'[k] = snap[k] /\ k \notin torn
        BY <1>6, <1>8, <1>9, <2>2, <3>2
      <4> QED BY <4>1 DEF FileInv, SnapshotsAreTrue, Readable
    <3> QED BY <3>1, <3>2
  <2> QED BY <2>1, <2>2
<1> QED BY <1>10, <1>11, <1>12, <1>13, <1>14 DEF FileInv

-----------------------------------------------------------------------------
(* The theorems.                                                           *)

LEMMA FileInit ==
    ASSUME Init
    PROVE  FileInv
<1>1. NoChain \in Chain /\ Len(NoChain.versions) = 0 /\ NoChain.locked = {}
      /\ NoChain.versions = <<>>
  BY EmptySeq DEF NoChain, Chain
<1>2. \A k \in Keys : chain[k] = NoChain /\ ~Known(k) /\ snap[k] = <<>>
  BY <1>1 DEF Init, Known
<1>3. op = Idle /\ op \in Operation /\ op.pc = "idle" /\ ~op.writes
  BY IdleIsQuiet DEF Init
<1>4. TypeOK
  <2>1. DOMAIN << >> = {}
    OBVIOUS
  <2>2. disk \in [Keys -> Files]
    BY FileAssumption DEF Init
  <2> QED BY <1>1, <1>2, <1>3, <2>1, <2>2 DEF Init, TypeOK
<1>5. \A k \in Keys : ChainOK(chain[k])
  BY <1>1, <1>2 DEF ChainOK
<1>6. OpInv /\ DiskIsKnown
  BY <1>3 DEF OpInv, DiskIsKnown
<1>7. SnapshotsAreTrue
  BY <1>1, <1>2 DEF SnapshotsAreTrue
<1> QED BY <1>4, <1>5, <1>6, <1>7 DEF FileInv

LEMMA FileNext ==
    ASSUME FileInv, [Next]_vars
    PROVE  FileInv'
<1>1. CASE UNCHANGED vars
  BY <1>1, StandsStill DEF vars
<1>2. ASSUME NEW k \in Keys,
             \/ HunkUndo(k) \/ HunkKeep(k) \/ Rollback(k) \/ UserSave(k)
             \/ SyncFromDisk(k) \/ Keep(k) \/ DeleteFileHistory(k)
             \/ ToolWrite(k) \/ OtherProgram(k)
      PROVE  FileInv'
  BY <1>2, HunkStep, PageStep, WriteStep
<1>3. CASE \/ Batch \/ NextItem \/ ThenClean \/ RecordChange
           \/ ReadDisk \/ AppendVersion \/ RecomputeTotal \/ CheckVersion \/ Replace
  BY <1>3, BatchStep, RecordStep, CheckStep, AppendStep, ReplaceStep
<1>4. CASE \/ SaveMeta \/ RefreshIndex \/ RemoveSome \/ RemoveRest \/ DropEntry
           \/ BackendDies \/ WorkerDies
  BY <1>4, SaveStep, EntryStep, RemoveStep, DeathStep
<1> QED BY <1>1, <1>2, <1>3, <1>4 DEF Next

\* The chains are well built, an operation under way has a chain in its hands
\* that continues the one on the disk, and the two invariants below hold:
\* the steps of every operation of file_history.py, the writes of others and
\* the deaths between two steps keep all of it.
THEOREM FileInductive == Spec => []FileInv
<1>1. Init => FileInv
  BY FileInit
<1>2. FileInv /\ [Next]_vars => FileInv'
  BY FileNext
<1> QED BY <1>1, <1>2, PTL DEF Spec

\* Every version a meta.json lists can be read back with the text it had when
\* it was recorded, unless the deletion of its history was cut short or could
\* not remove everything.
THEOREM SnapshotsTrue == Spec => []SnapshotsAreTrue
<1>1. FileInv => SnapshotsAreTrue
  BY DEF FileInv
<1> QED BY <1>1, FileInductive, PTL

\* Whatever tools and other programs write meanwhile, an operation that goes on
\* to replace a file replaces the content of the latest version: a write before
\* the last comparison of the file's identity makes it refuse.
THEOREM DiskKnown == Spec => []DiskIsKnown
<1>1. FileInv => DiskIsKnown
  BY DEF FileInv
<1> QED BY <1>1, FileInductive, PTL

\* No step of any operation rewrites or drops a version, unlocks a generation
\* or adds to a locked one: a history is continued, or removed as a whole.
THEOREM HistoryOnlyGrows == Spec => HistoryGrows
<1>1. ASSUME FileInv, [Next]_vars, NEW k \in Keys
      PROVE  \/ chain'[k] = chain[k] \/ chain'[k] = NoChain
             \/ Continued(chain[k], chain'[k])
  <2>1. chain' = chain \/ SaveMeta \/ RemoveSome \/ RemoveRest
    BY <1>1 DEF Next, vars, HunkUndo, HunkKeep, Rollback, UserSave, SyncFromDisk, Keep,
                DeleteFileHistory, ToolWrite, OtherProgram, Batch, BeginAll, NextItem,
                ThenClean, RecordChange, ReadDisk, AppendVersion, RecomputeTotal,
                CheckVersion, Replace, RefreshIndex, DropEntry, BackendDies, WorkerDies,
                Dies, Refused, Goes, Begin, StoreKept
  <2>2. chain \in [Keys -> Chain]
    BY <1>1 DEF FileInv, TypeOK
  <2>3. CASE SaveMeta
    <3>1. Continued(chain[op.key], op.chain)
      BY <1>1, <2>3 DEF SaveMeta, FileInv, OpInv, Extends, Continued
    <3>2. chain'[k] = IF k = op.key THEN op.chain ELSE chain[k]
      BY <1>1, <2>2, <2>3 DEF SaveMeta
    <3> QED BY <3>1, <3>2
  <2>4. CASE RemoveSome \/ RemoveRest
    BY <1>1, <2>2, <2>4 DEF RemoveSome, RemoveRest
  <2> QED BY <2>1, <2>3, <2>4
<1>2. FileInv /\ [Next]_vars => HistoryStep
  BY <1>1 DEF HistoryStep
<1> QED BY <1>2, FileInductive, PTL DEF Spec, HistoryGrows
=============================================================================
