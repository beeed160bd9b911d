----------------------------- MODULE CacheProofs -----------------------------
(***************************************************************************)
(* Theorems about the parts that answer with what others may change        *)
(* meanwhile, for any keys, lifetimes, requests, pairs and bounds.  Each   *)
(* part has an inductive invariant of its own.                             *)
(***************************************************************************)
EXTENDS MCCaches, Sequences, FiniteSets, FiniteSetTheorems, RecursionTheorems, TLAPS

(***************************************************************************)
(* ContractCache.                                                          *)
(***************************************************************************)

\* A read under way began no longer ago than a read may take.
ReadsAreShort ==
    \A x \in Readers \X Keys :
      reader[x].pc # "idle" => reader[x].began <= clock /\ clock - reader[x].began <= MaxLatency

\* An answer that waits to be stored was replaced, if at all, after the read began.
ReadsWereTrue ==
    \A r \in Readers, k \in Keys : reader[<<r, k>>].pc = "store" =>
      /\ reader[<<r, k>>].version <= current[k]
      /\ reader[<<r, k>>].version < current[k]
           => reader[<<r, k>>].began <= replaced[k][reader[<<r, k>>].version + 1]

\* An entry expires a lifetime and a read after its version was replaced, or before.
EntriesWereTrue ==
    \A k \in Keys : entry[k].version >= 0 =>
      /\ entry[k].version <= current[k]
      /\ entry[k].expires <= clock + TTL[k]
      /\ entry[k].version < current[k]
           => entry[k].expires <= replaced[k][entry[k].version + 1] + TTL[k] + MaxLatency

\* Deletions are of changes that happened; nothing older is stored, or about to be,
\* except for keys with a race.
DeletionsAreSeen ==
    /\ \A k \in Keys : invalidated[k] <= current[k]
    /\ \A w \in Writers, k \in WriterKeys :
         writer[<<w, k>>].pc = "delete" => writer[<<w, k>>].version \in 0..current[k]
    /\ \A k \in Keys \ raced :
         /\ entry[k].version >= 0 => entry[k].version >= invalidated[k]
         /\ \A r \in Readers :
              reader[<<r, k>>].pc = "store" => reader[<<r, k>>].version >= invalidated[k]

ReaderRows == [pc : {"idle", "read", "store"}, version : -1..MaxVersion, began : 0..MaxTime]
WriterRows == [pc : {"idle", "wait", "delete"}, version : -1..MaxVersion]
EntryRows  == [version : -1..MaxVersion, expires : Nat]

\* What the constants and the empty rows are.
LEMMA ContractFacts ==
  /\ MaxVersion \in Nat /\ MaxTime \in Nat /\ MaxLatency \in Nat /\ MaxRestarts \in Nat
  /\ WriterKeys \subseteq Keys /\ \A k \in Keys : TTL[k] \in Nat \ {0}
  /\ Contract!NoReader \in ReaderRows /\ Contract!NoReader.pc = "idle"
  /\ Contract!NoWriter \in WriterRows /\ Contract!NoWriter.pc = "idle"
  /\ Contract!NoEntry \in EntryRows /\ Contract!NoEntry.version = -1
BY ContractBounds
   DEF Contract!CacheAssumption, Contract!NoReader, Contract!NoWriter, Contract!NoEntry,
       ReaderRows, WriterRows, EntryRows

LEMMA SequenceItem ==
  ASSUME NEW T, NEW s \in Seq(T), NEW i \in 1..Len(s)
  PROVE  s[i] \in T
OBVIOUS

\* What the type invariant says, with the rows named.
ContractTyped ==
    /\ clock \in 0..MaxTime /\ restarts \in 0..MaxRestarts
    /\ current \in [Keys -> 0..MaxVersion] /\ invalidated \in [Keys -> 0..MaxVersion]
    /\ replaced \in [Keys -> Seq(0..MaxTime)] /\ \A k \in Keys : Len(replaced[k]) = current[k]
    /\ entry \in [Keys -> EntryRows]
    /\ reader \in [Readers \X Keys -> ReaderRows]
    /\ \A x \in Readers \X Keys : reader[x].pc = "store" => reader[x].version >= 0
    /\ writer \in [Writers \X WriterKeys -> WriterRows]
    /\ raced \subseteq Keys

LEMMA ContractTypes == ContractTyped => Contract!TypeOK
BY DEF ContractTyped, Contract!TypeOK, ReaderRows, WriterRows, EntryRows

ContractInv ==
    ContractTyped /\ ReadsAreShort /\ ReadsWereTrue /\ EntriesWereTrue /\ DeletionsAreSeen

LEMMA ContractInit == Contract!Init => ContractInv
<1> SUFFICES ASSUME Contract!Init PROVE ContractInv
  OBVIOUS
<1>1. ContractTyped
  <2>1. /\ clock \in 0..MaxTime /\ restarts \in 0..MaxRestarts
        /\ current \in [Keys -> 0..MaxVersion] /\ invalidated \in [Keys -> 0..MaxVersion]
        /\ raced \subseteq Keys
    BY ContractFacts DEF Contract!Init
  <2>2. replaced \in [Keys -> Seq(0..MaxTime)] /\ \A k \in Keys : Len(replaced[k]) = current[k]
    BY DEF Contract!Init
  <2>3. /\ entry \in [Keys -> EntryRows] /\ reader \in [Readers \X Keys -> ReaderRows]
        /\ writer \in [Writers \X WriterKeys -> WriterRows]
        /\ \A x \in Readers \X Keys : reader[x].pc = "store" => reader[x].version >= 0
    BY ContractFacts DEF Contract!Init
  <2>. QED  BY <2>1, <2>2, <2>3 DEF ContractTyped
<1>2. ReadsAreShort /\ ReadsWereTrue
  BY ContractFacts DEF Contract!Init, ReadsAreShort, ReadsWereTrue
<1>3. EntriesWereTrue
  BY ContractFacts DEF Contract!Init, EntriesWereTrue
<1>4. DeletionsAreSeen
  BY ContractFacts DEF Contract!Init, DeletionsAreSeen
<1>. QED  BY <1>1, <1>2, <1>3, <1>4 DEF ContractInv

\* The contract's answer for a key changes now; who else moves does not read or store.
LEMMA ContractChanges ==
  ASSUME ContractInv, NEW k \in Keys, Contract!Replace(k),
         UNCHANGED <<clock, entry, reader, invalidated, raced, restarts>>,
         writer' \in [Writers \X WriterKeys -> WriterRows],
         \A w \in Writers, q \in WriterKeys :
           writer'[<<w, q>>].pc = "delete" => writer'[<<w, q>>].version \in 0..current'[q]
  PROVE  ContractInv'
<1>t. /\ clock \in 0..MaxTime /\ current \in [Keys -> 0..MaxVersion]
      /\ invalidated \in [Keys -> 0..MaxVersion]
      /\ replaced \in [Keys -> Seq(0..MaxTime)] /\ \A q \in Keys : Len(replaced[q]) = current[q]
      /\ entry \in [Keys -> EntryRows]
      /\ reader \in [Readers \X Keys -> ReaderRows]
      /\ \A x \in Readers \X Keys : reader[x].pc = "store" => reader[x].version >= 0
  BY DEF ContractInv, ContractTyped
<1>1. current[k] \in 0..MaxVersion /\ current[k] < MaxVersion /\ Len(replaced[k]) = current[k]
      /\ replaced[k] \in Seq(0..MaxTime)
  BY <1>t DEF Contract!Replace
<1>2. /\ current'[k] = current[k] + 1
      /\ replaced'[k] = Append(replaced[k], clock)
      /\ \A q \in Keys \ {k} : current'[q] = current[q] /\ replaced'[q] = replaced[q]
  BY <1>t DEF Contract!Replace
<1>3. /\ replaced'[k] \in Seq(0..MaxTime) /\ Len(replaced'[k]) = current'[k]
      /\ \A v \in 0..(current[k] - 1) : replaced'[k][v + 1] = replaced[k][v + 1]
      /\ replaced'[k][current[k] + 1] = clock
  BY <1>t, <1>1, <1>2
<1>n. /\ current'[k] = current[k] + 1 /\ current[k] \in Nat /\ clock \in Nat
      /\ \A v \in 0..(current[k] - 1) : replaced'[k][v + 1] = replaced[k][v + 1]
      /\ replaced'[k][current[k] + 1] = clock
  BY <1>t, <1>1, <1>2, <1>3
<1>4. ContractTyped'
  <2>1. current' \in [Keys -> 0..MaxVersion]
    BY <1>t, <1>1, ContractFacts DEF Contract!Replace
  <2>2. replaced' \in [Keys -> Seq(0..MaxTime)]
    BY <1>t, <1>2, <1>3 DEF Contract!Replace
  <2>3. \A q \in Keys : Len(replaced'[q]) = current'[q]
    BY <1>t, <1>2, <1>3
  <2>4. /\ clock' \in 0..MaxTime /\ restarts' \in 0..MaxRestarts /\ raced' \subseteq Keys
        /\ invalidated' \in [Keys -> 0..MaxVersion] /\ entry' \in [Keys -> EntryRows]
        /\ reader' \in [Readers \X Keys -> ReaderRows]
        /\ \A x \in Readers \X Keys : reader'[x].pc = "store" => reader'[x].version >= 0
    BY DEF ContractInv, ContractTyped
  <2>. QED  BY <2>1, <2>2, <2>3, <2>4 DEF ContractTyped
<1>5. ReadsAreShort'
  BY DEF ContractInv, ReadsAreShort
<1>6. ReadsWereTrue'
  <2> SUFFICES ASSUME NEW r \in Readers, NEW q \in Keys, reader[<<r, q>>].pc = "store"
               PROVE  /\ reader[<<r, q>>].version <= current'[q]
                      /\ reader[<<r, q>>].version < current'[q]
                           => reader[<<r, q>>].began <= replaced'[q][reader[<<r, q>>].version + 1]
    BY DEF ReadsWereTrue
  <2>1. /\ reader[<<r, q>>].version <= current[q] /\ reader[<<r, q>>].version \in Nat
        /\ reader[<<r, q>>].version < current[q]
             => reader[<<r, q>>].began <= replaced[q][reader[<<r, q>>].version + 1]
        /\ reader[<<r, q>>].began <= clock
    BY <1>t DEF ContractInv, ReadsWereTrue, ReadsAreShort, ReaderRows
  <2>2. CASE q = k
    <3>1. CASE reader[<<r, k>>].version = current[k]
      BY <1>n, <2>1, <2>2, <3>1
    <3>2. CASE reader[<<r, k>>].version < current[k]
      <4>1. reader[<<r, k>>].version \in 0..(current[k] - 1)
        BY <1>1, <2>1, <2>2, <3>2
      <4>. QED  BY <1>n, <2>1, <2>2, <3>2, <4>1
    <3>. QED  BY <1>1, <2>1, <2>2, <3>1, <3>2
  <2>3. CASE q # k
    BY <1>2, <2>1, <2>3
  <2>. QED  BY <2>2, <2>3
<1>7. EntriesWereTrue'
  <2> SUFFICES ASSUME NEW q \in Keys, entry[q].version >= 0
               PROVE  /\ entry[q].version <= current'[q]
                      /\ entry[q].expires <= clock + TTL[q]
                      /\ entry[q].version < current'[q]
                           => entry[q].expires <= replaced'[q][entry[q].version + 1] + TTL[q] + MaxLatency
    BY DEF EntriesWereTrue
  <2>1. /\ entry[q].version <= current[q] /\ entry[q].version \in Nat /\ entry[q].expires \in Nat
        /\ entry[q].expires <= clock + TTL[q]
        /\ entry[q].version < current[q]
             => entry[q].expires <= replaced[q][entry[q].version + 1] + TTL[q] + MaxLatency
    BY <1>t DEF ContractInv, EntriesWereTrue, EntryRows
  <2>2. CASE q = k
    <3>1. TTL[k] \in Nat /\ MaxLatency \in Nat /\ clock \in Nat
      BY <1>t, ContractFacts
    <3>2. CASE entry[k].version = current[k]
      BY <1>n, <2>1, <2>2, <3>1, <3>2
    <3>3. CASE entry[k].version < current[k]
      <4>1. entry[k].version \in 0..(current[k] - 1)
        BY <1>1, <2>1, <2>2, <3>3
      <4>. QED  BY <1>n, <2>1, <2>2, <3>3, <4>1
    <3>. QED  BY <1>1, <2>1, <2>2, <3>2, <3>3
  <2>3. CASE q # k
    BY <1>2, <2>1, <2>3
  <2>. QED  BY <2>2, <2>3
<1>8. DeletionsAreSeen'
  <2>1. \A q \in Keys : invalidated[q] <= current'[q]
    <3> SUFFICES ASSUME NEW q \in Keys PROVE invalidated[q] <= current'[q]
      OBVIOUS
    <3>1. invalidated[q] <= current[q] /\ invalidated[q] \in Nat /\ current[q] \in Nat
      BY <1>t DEF ContractInv, DeletionsAreSeen
    <3>. QED  BY <1>2, <3>1
  <2>. QED  BY <2>1 DEF ContractInv, DeletionsAreSeen
<1>. QED  BY <1>4, <1>5, <1>6, <1>7, <1>8 DEF ContractInv

LEMMA ContractStep == ContractInv /\ [Contract!Next]_contractVars => ContractInv'
<1> SUFFICES ASSUME ContractInv, [Contract!Next]_contractVars PROVE ContractInv'
  OBVIOUS
<1>t. /\ clock \in 0..MaxTime /\ current \in [Keys -> 0..MaxVersion]
      /\ entry \in [Keys -> EntryRows]
      /\ reader \in [Readers \X Keys -> ReaderRows]
      /\ \A x \in Readers \X Keys : reader[x].pc = "store" => reader[x].version >= 0
      /\ writer \in [Writers \X WriterKeys -> WriterRows]
      /\ ReadsAreShort /\ ReadsWereTrue /\ EntriesWereTrue /\ DeletionsAreSeen
  BY DEF ContractInv, ContractTyped
<1>1. CASE Contract!Tick
  <2>1. ContractTyped'
    BY <1>1, ContractFacts DEF Contract!Tick, ContractInv, ContractTyped
  <2>2. ReadsAreShort'
    BY <1>1, <1>t, ContractFacts DEF Contract!Tick, ReadsAreShort, ReaderRows
  <2>3. EntriesWereTrue'
    <3> SUFFICES ASSUME NEW k \in Keys, entry[k].version >= 0
                 PROVE  entry[k].expires <= clock' + TTL[k]
      BY <1>1, <1>t DEF Contract!Tick, EntriesWereTrue
    <3>1. entry[k].expires \in Nat /\ entry[k].expires <= clock + TTL[k] /\ TTL[k] \in Nat
      BY <1>t, ContractFacts DEF EntriesWereTrue, EntryRows
    <3>. QED  BY <1>1, <1>t, <3>1 DEF Contract!Tick
  <2>4. ReadsWereTrue' /\ DeletionsAreSeen'
    BY <1>1, <1>t DEF Contract!Tick, ReadsWereTrue, DeletionsAreSeen
  <2>. QED  BY <2>1, <2>2, <2>3, <2>4 DEF ContractInv
<1>2. ASSUME NEW k \in Keys, Contract!ChangeElsewhere(k) PROVE ContractInv'
  <2>1. \A w \in Writers, q \in WriterKeys :
          writer[<<w, q>>].pc = "delete" => writer[<<w, q>>].version \in 0..current'[q]
    <3> SUFFICES ASSUME NEW w \in Writers, NEW q \in WriterKeys, writer[<<w, q>>].pc = "delete"
                 PROVE  writer[<<w, q>>].version \in 0..current'[q]
      OBVIOUS
    <3>1. writer[<<w, q>>].version \in 0..current[q] /\ current[q] \in Nat
      BY <1>t, ContractFacts DEF DeletionsAreSeen
    <3>2. current'[q] \in {current[q], current[q] + 1}
      BY <1>2, <1>t, ContractFacts DEF Contract!ChangeElsewhere, Contract!Replace
    <3>. QED  BY <3>1, <3>2
  <2>. QED  BY <1>2, <1>t, <2>1, ContractChanges DEF Contract!ChangeElsewhere
<1>3. ASSUME NEW k \in Keys, NEW r \in Readers, Contract!Miss(r, k) PROVE ContractInv'
  <2>1. PICK e \in ReaderRows : /\ reader' = [reader EXCEPT ![<<r, k>>] = e]
                                /\ e.pc = "read" /\ e.began = clock
    <3>1. [pc |-> "read", version |-> -1, began |-> clock] \in ReaderRows
      BY <1>t, ContractFacts DEF ReaderRows
    <3>. QED  BY <1>3, <3>1 DEF Contract!Miss
  <2>2. ContractTyped'
    BY <1>3, <2>1 DEF Contract!Miss, ContractInv, ContractTyped
  <2>3. ReadsAreShort'
    BY <1>3, <1>t, <2>1, ContractFacts DEF Contract!Miss, ReadsAreShort
  <2>4. ReadsWereTrue' /\ EntriesWereTrue' /\ DeletionsAreSeen'
    BY <1>3, <1>t, <2>1 DEF Contract!Miss, ReadsWereTrue, EntriesWereTrue, DeletionsAreSeen
  <2>. QED  BY <2>2, <2>3, <2>4 DEF ContractInv
<1>4. ASSUME NEW k \in Keys, NEW r \in Readers, Contract!ReadContract(r, k) PROVE ContractInv'
  <2>e. reader[<<r, k>>] \in ReaderRows /\ current[k] \in 0..MaxVersion
    BY <1>t
  <2>1. PICK e \in ReaderRows :
          /\ reader' = [reader EXCEPT ![<<r, k>>] = e]
          /\ e.pc = "idle" \/ (e.pc = "store" /\ e.version = current[k]
                                 /\ e.began = reader[<<r, k>>].began)
    <3>1. [pc |-> "store", version |-> current[k], began |-> reader[<<r, k>>].began] \in ReaderRows
      BY <2>e DEF ReaderRows
    <3>. QED  BY <1>4, <3>1, ContractFacts DEF Contract!ReadContract
  <2>2. ContractTyped'
    BY <1>4, <2>e, <2>1 DEF Contract!ReadContract, ContractInv, ContractTyped
  <2>3. ReadsAreShort'
    BY <1>4, <1>t, <2>1 DEF Contract!ReadContract, ReadsAreShort
  <2>4. ReadsWereTrue'
    BY <1>4, <1>t, <2>1, <2>e DEF Contract!ReadContract, ReadsWereTrue
  <2>5. DeletionsAreSeen'
    <3>1. e.pc = "store" => e.version >= invalidated[k]
      BY <1>t, <2>1, <2>e DEF DeletionsAreSeen, ContractInv, ContractTyped
    <3>. QED  BY <1>4, <1>t, <2>1, <3>1 DEF Contract!ReadContract, DeletionsAreSeen
  <2>6. EntriesWereTrue'
    BY <1>4, <1>t DEF Contract!ReadContract, EntriesWereTrue
  <2>. QED  BY <2>2, <2>3, <2>4, <2>5, <2>6 DEF ContractInv
<1>5. ASSUME NEW k \in Keys, NEW r \in Readers, Contract!Store(r, k) PROVE ContractInv'
  <2>e. /\ reader[<<r, k>>] \in ReaderRows /\ reader[<<r, k>>].pc = "store"
        /\ reader[<<r, k>>].version \in Nat /\ TTL[k] \in Nat /\ clock + TTL[k] \in Nat
    BY <1>5, <1>t, ContractFacts DEF Contract!Store, ReaderRows
  <2>1. PICK e \in EntryRows :
          /\ entry' = [entry EXCEPT ![k] = e]
          /\ e.version = reader[<<r, k>>].version /\ e.expires = clock + TTL[k]
    <3>1. [version |-> reader[<<r, k>>].version, expires |-> clock + TTL[k]] \in EntryRows
      BY <2>e DEF EntryRows, ReaderRows
    <3>. QED  BY <1>5, <3>1 DEF Contract!Store
  <2>2. ContractTyped'
    BY <1>5, <2>1, ContractFacts DEF Contract!Store, ContractInv, ContractTyped
  <2>3. ReadsAreShort' /\ ReadsWereTrue'
    BY <1>5, <1>t, ContractFacts DEF Contract!Store, ReadsAreShort, ReadsWereTrue
  <2>4. EntriesWereTrue'
    <3>1. /\ e.version <= current[k] /\ e.expires <= clock + TTL[k]
          /\ e.version < current[k] => e.expires <= replaced[k][e.version + 1] + TTL[k] + MaxLatency
      <4>1. /\ e.version <= current[k]
            /\ reader[<<r, k>>].began \in Nat /\ clock - reader[<<r, k>>].began <= MaxLatency
            /\ e.version < current[k] => reader[<<r, k>>].began <= replaced[k][e.version + 1]
        BY <1>t, <2>e, <2>1 DEF ReadsWereTrue, ReadsAreShort, ReaderRows
      <4>2. e.version < current[k] => replaced[k][e.version + 1] \in Nat
        <5>1. replaced[k] \in Seq(0..MaxTime) /\ Len(replaced[k]) = current[k]
          BY DEF ContractInv, ContractTyped
        <5>2. e.version < current[k] => e.version + 1 \in 1..Len(replaced[k])
          BY <1>t, <2>e, <2>1, <5>1
        <5>3. e.version < current[k] => replaced[k][e.version + 1] \in 0..MaxTime
          BY <5>1, <5>2, SequenceItem
        <5>. QED  BY <5>3
      <4>3. clock \in Nat /\ MaxLatency \in Nat
        BY <1>t, ContractFacts
      <4>. QED  BY <2>e, <2>1, <4>1, <4>2, <4>3
    <3>. QED  BY <1>5, <1>t, <2>1, <3>1 DEF Contract!Store, EntriesWereTrue
  <2>5. DeletionsAreSeen'
    BY <1>5, <1>t, <2>e, <2>1, ContractFacts DEF Contract!Store, DeletionsAreSeen
  <2>. QED  BY <2>2, <2>3, <2>4, <2>5 DEF ContractInv
<1>6. ASSUME NEW k \in WriterKeys, NEW w \in Writers, Contract!Submit(w, k) \/ Contract!Reverted(w, k)
      PROVE  ContractInv'
  <2>1. PICK e \in WriterRows : writer' = [writer EXCEPT ![<<w, k>>] = e] /\ e.pc # "delete"
    BY <1>6, ContractFacts DEF Contract!Submit, Contract!Reverted, WriterRows
  <2>2. ContractTyped'
    BY <1>6, <2>1 DEF Contract!Submit, Contract!Reverted, ContractInv, ContractTyped
  <2>3. ReadsAreShort' /\ ReadsWereTrue' /\ EntriesWereTrue'
    BY <1>6, <1>t DEF Contract!Submit, Contract!Reverted, ReadsAreShort, ReadsWereTrue, EntriesWereTrue
  <2>4. DeletionsAreSeen'
    BY <1>6, <1>t, <2>1 DEF Contract!Submit, Contract!Reverted, DeletionsAreSeen
  <2>. QED  BY <2>2, <2>3, <2>4 DEF ContractInv
<1>7. ASSUME NEW k \in WriterKeys, NEW w \in Writers, Contract!Executed(w, k) PROVE ContractInv'
  <2>1. k \in Keys /\ current[k] \in 0..MaxVersion /\ current[k] < MaxVersion
        /\ current' = [current EXCEPT ![k] = current[k] + 1]
    BY <1>7, <1>t, ContractFacts DEF Contract!Executed, Contract!Replace
  <2>2. PICK e \in WriterRows : /\ writer' = [writer EXCEPT ![<<w, k>>] = e]
                                /\ e.pc = "delete" => e.version = current[k] + 1
    <3>1. [pc |-> "delete", version |-> current[k] + 1] \in WriterRows
      BY <2>1, ContractFacts DEF WriterRows
    <3>. QED  BY <1>7, <3>1, ContractFacts DEF Contract!Executed
  <2>3. writer' \in [Writers \X WriterKeys -> WriterRows]
    BY <1>t, <2>2
  <2>4. \A v \in Writers, q \in WriterKeys :
          writer'[<<v, q>>].pc = "delete" => writer'[<<v, q>>].version \in 0..current'[q]
    <3> SUFFICES ASSUME NEW v \in Writers, NEW q \in WriterKeys, writer'[<<v, q>>].pc = "delete"
                 PROVE  writer'[<<v, q>>].version \in 0..current'[q]
      OBVIOUS
    <3>1. current'[q] \in {current[q], current[q] + 1} /\ current[q] \in Nat
      BY <1>t, <2>1, ContractFacts
    <3>2. CASE v = w /\ q = k
      BY <1>t, <2>1, <2>2, <3>2
    <3>3. CASE ~(v = w /\ q = k)
      <4>1. writer'[<<v, q>>] = writer[<<v, q>>]
        BY <1>t, <2>2, <3>3
      <4>. QED  BY <1>t, <3>1, <4>1 DEF DeletionsAreSeen
    <3>. QED  BY <3>2, <3>3
  <2>. QED  BY <1>7, <2>1, <2>3, <2>4, ContractChanges DEF Contract!Executed
<1>8. ASSUME NEW k \in WriterKeys, NEW w \in Writers, Contract!Invalidate(w, k) PROVE ContractInv'
  <2>e. /\ k \in Keys /\ writer[<<w, k>>].version \in 0..current[k] /\ current[k] \in 0..MaxVersion
        /\ invalidated \in [Keys -> 0..MaxVersion] /\ raced \subseteq Keys
    BY <1>8, <1>t, ContractFacts DEF Contract!Invalidate, DeletionsAreSeen, ContractInv, ContractTyped
  <2>1. PICK n \in 0..current[k] :
          /\ invalidated' = [invalidated EXCEPT ![k] = n]
          /\ n = invalidated[k] \/ n = writer[<<w, k>>].version
    <3>1. invalidated[k] \in 0..current[k]
      BY <1>t, <2>e DEF DeletionsAreSeen
    <3>. QED  BY <1>8, <2>e, <3>1 DEF Contract!Invalidate
  <2>2. /\ raced \subseteq raced' /\ raced' \subseteq Keys
        /\ k \notin raced' => Contract!NotRead(w, k)
    BY <1>8, <2>e DEF Contract!Invalidate
  <2>3. ContractTyped'
    <3>1. invalidated' \in [Keys -> 0..MaxVersion]
      BY <2>e, <2>1, ContractFacts
    <3>. QED  BY <1>8, <2>2, <3>1, ContractFacts DEF Contract!Invalidate, ContractInv, ContractTyped
  <2>4. ReadsAreShort' /\ ReadsWereTrue'
    BY <1>8, <1>t DEF Contract!Invalidate, ReadsAreShort, ReadsWereTrue
  <2>5. EntriesWereTrue'
    BY <1>8, <1>t, ContractFacts DEF Contract!Invalidate, EntriesWereTrue
  <2>6. DeletionsAreSeen'
    <3>1. \A q \in Keys : invalidated'[q] <= current'[q]
      BY <1>8, <1>t, <2>e, <2>1 DEF Contract!Invalidate, DeletionsAreSeen
    <3>2. \A v \in Writers, q \in WriterKeys :
            writer'[<<v, q>>].pc = "delete" => writer'[<<v, q>>].version \in 0..current'[q]
      BY <1>8, <1>t, ContractFacts DEF Contract!Invalidate, DeletionsAreSeen
    <3>3. ASSUME NEW q \in Keys \ raced'
          PROVE  /\ entry'[q].version >= 0 => entry'[q].version >= invalidated'[q]
                 /\ \A r \in Readers :
                      reader'[<<r, q>>].pc = "store" => reader'[<<r, q>>].version >= invalidated'[q]
      <4>1. CASE q = k
        <5>1. k \in Keys \ raced /\ Contract!NotRead(w, k)
          BY <2>e, <2>2, <4>1
        <5>2. \A r \in Readers : reader[<<r, k>>].pc = "store" =>
                /\ reader[<<r, k>>].version >= invalidated[k]
                /\ reader[<<r, k>>].version >= writer[<<w, k>>].version
          BY <1>t, <5>1 DEF Contract!NotRead, DeletionsAreSeen
        <5>3. invalidated'[k] = n /\ entry'[k].version = -1 /\ n \in Nat /\ reader' = reader
          BY <1>8, <1>t, <2>e, <2>1, ContractFacts DEF Contract!Invalidate
        <5>4. \A r \in Readers : reader'[<<r, k>>].pc = "store" => reader'[<<r, k>>].version >= n
          BY <2>1, <5>2, <5>3
        <5>. QED  BY <4>1, <5>3, <5>4
      <4>2. CASE q # k
        BY <1>8, <1>t, <2>e, <2>1, <2>2, <4>2 DEF Contract!Invalidate, DeletionsAreSeen
      <4>. QED  BY <4>1, <4>2
    <3>. QED  BY <3>1, <3>2, <3>3 DEF DeletionsAreSeen
  <2>. QED  BY <2>3, <2>4, <2>5, <2>6 DEF ContractInv
<1>9. CASE Contract!Restart
  <2>1. ContractTyped'
    BY <1>9, ContractFacts DEF Contract!Restart, ContractInv, ContractTyped
  <2>2. /\ \A x \in Readers \X Keys : reader'[x].pc = "idle"
        /\ \A x \in Writers \X WriterKeys : writer'[x].pc = "idle"
        /\ \A k \in Keys : entry'[k] = entry[k] \/ entry'[k].version = -1
        /\ UNCHANGED <<clock, current, replaced, invalidated, raced>>
    BY <1>9, <1>t, ContractFacts DEF Contract!Restart
  <2>3. ReadsAreShort' /\ ReadsWereTrue' /\ EntriesWereTrue'
    BY <1>t, <2>2 DEF ReadsAreShort, ReadsWereTrue, EntriesWereTrue
  <2>4. DeletionsAreSeen'
    BY <1>t, <2>2 DEF DeletionsAreSeen
  <2>. QED  BY <2>1, <2>3, <2>4 DEF ContractInv
<1>10. CASE UNCHANGED contractVars
  BY <1>10 DEF contractVars, ContractInv, ContractTyped, ReadsAreShort, ReadsWereTrue,
     EntriesWereTrue, DeletionsAreSeen
<1>. QED  BY <1>1, <1>2, <1>3, <1>4, <1>5, <1>6, <1>7, <1>8, <1>9, <1>10 DEF Contract!Next

\* What the invariant says of the answers.
LEMMA ContractAnswers ==
  ContractInv => Contract!TypeOK /\ Contract!StalenessBounded /\ Contract!WriteSeenUnlessRaced
<1> SUFFICES ASSUME ContractInv
             PROVE  Contract!TypeOK /\ Contract!StalenessBounded /\ Contract!WriteSeenUnlessRaced
  OBVIOUS
<1>1. Contract!TypeOK
  BY ContractTypes DEF ContractInv
<1>2. Contract!StalenessBounded
  <2> SUFFICES ASSUME NEW k \in Keys, Contract!Live(k), entry[k].version < current[k]
               PROVE  clock - replaced[k][entry[k].version + 1] < TTL[k] + MaxLatency
    BY DEF Contract!StalenessBounded
  <2>1. /\ clock \in Nat /\ entry[k].version \in Nat /\ entry[k].expires \in Nat /\ clock < entry[k].expires
        /\ current[k] \in Nat
    BY DEF Contract!Live, ContractInv, ContractTyped, EntryRows
  <2>2. replaced[k][entry[k].version + 1] \in Nat
    <3>1. replaced[k] \in Seq(0..MaxTime) /\ Len(replaced[k]) = current[k]
      BY DEF ContractInv, ContractTyped
    <3>2. entry[k].version + 1 \in 1..Len(replaced[k])
      BY <2>1, <3>1
    <3>3. replaced[k][entry[k].version + 1] \in 0..MaxTime
      BY <3>1, <3>2, SequenceItem
    <3>. QED  BY <3>3
  <2>3. entry[k].expires <= replaced[k][entry[k].version + 1] + TTL[k] + MaxLatency
    BY <2>1 DEF ContractInv, EntriesWereTrue
  <2>4. TTL[k] \in Nat /\ MaxLatency \in Nat
    BY ContractFacts
  <2>. QED  BY <2>1, <2>2, <2>3, <2>4
<1>3. Contract!WriteSeenUnlessRaced
  BY DEF ContractInv, ContractTyped, DeletionsAreSeen, Contract!WriteSeenUnlessRaced, Contract!Live
<1>. QED  BY <1>1, <1>2, <1>3

(***************************************************************************)
(* ExchangeRateCache.                                                      *)
(***************************************************************************)

\* A request asks its sources after it read the clock, and neither is long ago.
RequestsAreShort ==
    \A r \in Requests : request[r].pc # "idle" =>
      /\ request[r].now <= rateClock /\ rateClock - request[r].now <= MaxLatency
      /\ request[r].pc \in {"fetch", "publish"} =>
           request[r].sampled # Rates!Never
           /\ request[r].now <= request[r].sampled /\ request[r].sampled <= rateClock

\* The shared copy lapses a request and its lifetime after its sources were asked.
CopyIsRecent ==
    shared.sampled # Rates!Never =>
      /\ shared.sampled <= rateClock
      /\ shared.expires <= shared.sampled + MaxLatency + SharedTTL

\* The stamp of fetched rates is not later than their asking, that of copied ones by
\* less than the copy could live; the newest rates are of no later than now.
StampIsTrue ==
    /\ newest <= rateClock
    /\ memory.sampled # Rates!Never =>
         /\ memory.sampled <= rateClock
         /\ ~memory.copied => memory.stamp <= memory.sampled
         /\ memory.copied => memory.stamp < memory.sampled + MaxLatency + SharedTTL

RatesInv ==
    /\ Rates!TypeOK /\ RequestsAreShort /\ CopyIsRecent /\ StampIsTrue /\ Rates!FallbackIsNearNewest

RequestRows == [pc : {"idle", "lookup", "ask", "fetch", "publish"}, now : 0..MaxTime,
                sampled : (0..MaxTime) \cup {-1}]

LEMMA RatesFacts ==
  /\ RatesTTL \in Nat \ {0} /\ SharedTTL \in Nat \ {0}
  /\ MaxLatency \in Nat /\ MaxTime \in Nat /\ MaxRestarts \in Nat
  /\ Rates!Never = -1 /\ Rates!Times = 0..MaxTime
BY RateBounds DEF Rates!RateCacheAssumption, Rates!Never, Rates!Times

LEMMA RatesTypes ==
  Rates!TypeOK <=>
    /\ rateClock \in 0..MaxTime /\ rateRestarts \in 0..MaxRestarts
    /\ memory \in [sampled : (0..MaxTime) \cup {-1}, stamp : 0..MaxTime, copied : BOOLEAN]
    /\ shared \in [sampled : (0..MaxTime) \cup {-1}, expires : Nat]
    /\ request \in [Requests -> RequestRows]
    /\ memory.stamp <= rateClock
    /\ newest \in (0..MaxTime) \cup {-1}
BY DEF Rates!TypeOK, Rates!Times, Rates!Never, RequestRows

LEMMA RatesInit == Rates!Init => RatesInv
<1> SUFFICES ASSUME Rates!Init PROVE RatesInv
  OBVIOUS
<1>1. Rates!NoRequest \in RequestRows /\ Rates!NoRequest.pc = "idle"
  BY RatesFacts DEF Rates!NoRequest, RequestRows
<1>2. Rates!TypeOK
  BY <1>1, RatesFacts, RatesTypes DEF Rates!Init, Rates!NoMemory, Rates!NoCopy
<1>3. RequestsAreShort
  BY <1>1 DEF Rates!Init, RequestsAreShort
<1>. QED  BY <1>2, <1>3, RatesFacts
          DEF RatesInv, Rates!Init, Rates!NoMemory, Rates!NoCopy, CopyIsRecent, StampIsTrue,
              Rates!FallbackIsNearNewest

\* A request moves within its time.
LEMMA RequestMoves ==
  ASSUME RatesInv, NEW r \in Requests, NEW e \in RequestRows,
         request' = [request EXCEPT ![r] = e], UNCHANGED <<rateClock, rateRestarts>>,
         e.pc # "idle" => e.now <= rateClock /\ rateClock - e.now <= MaxLatency,
         e.pc \in {"fetch", "publish"} => e.sampled # -1 /\ e.now <= e.sampled /\ e.sampled <= rateClock
  PROVE  RequestsAreShort' /\ request' \in [Requests -> RequestRows]
BY RatesFacts, RatesTypes DEF RatesInv, RequestsAreShort

\* The stored rates and the copy stay.
LEMMA RatesKept ==
  ASSUME RatesInv, UNCHANGED <<rateClock, rateRestarts, memory, shared, newest>>,
         RequestsAreShort', request' \in [Requests -> RequestRows]
  PROVE  RatesInv'
<1>1. Rates!TypeOK'
  BY DEF RatesInv, Rates!TypeOK, RequestRows, Rates!Times, Rates!Never
<1>. QED  BY <1>1 DEF RatesInv, CopyIsRecent, StampIsTrue, Rates!FallbackIsNearNewest

\* Memory takes rates that are not older than a copy may be.
LEMMA RatesMemory ==
  ASSUME RatesInv, NEW m, m \in [sampled : 0..MaxTime, stamp : 0..MaxTime, copied : BOOLEAN],
         Rates!Keep(m), UNCHANGED <<rateClock, rateRestarts, shared>>,
         RequestsAreShort', request' \in [Requests -> RequestRows],
         m.sampled <= rateClock, m.stamp <= rateClock,
         rateClock - m.sampled < SharedTTL + MaxLatency,
         ~m.copied => m.stamp <= m.sampled,
         m.copied => m.stamp < m.sampled + MaxLatency + SharedTTL
  PROVE  RatesInv'
<1>t. rateClock \in 0..MaxTime /\ newest \in (0..MaxTime) \cup {-1} /\ newest <= rateClock
  BY RatesTypes DEF RatesInv, StampIsTrue
<1>1. memory' = m /\ newest' = IF m.sampled > newest THEN m.sampled ELSE newest
  BY DEF Rates!Keep
<1>2. newest' \in (0..MaxTime) \cup {-1} /\ newest' <= rateClock
  BY <1>t, <1>1
<1>3. Rates!TypeOK'
  <2>1. memory' \in [sampled : (0..MaxTime) \cup {-1}, stamp : 0..MaxTime, copied : BOOLEAN]
    BY <1>1
  <2>2. memory'.stamp <= rateClock
    BY <1>1
  <2>. QED  BY <1>2, <2>1, <2>2 DEF RatesInv, Rates!TypeOK, RequestRows, Rates!Times, Rates!Never
<1>4. CopyIsRecent'
  BY DEF RatesInv, CopyIsRecent
<1>5. StampIsTrue'
  BY <1>1, <1>2 DEF StampIsTrue
<1>6. Rates!FallbackIsNearNewest'
  BY <1>t, <1>1, <1>2, RatesFacts DEF Rates!FallbackIsNearNewest
<1>. QED  BY <1>3, <1>4, <1>5, <1>6 DEF RatesInv

LEMMA RatesStep == RatesInv /\ [Rates!Next]_rateVars => RatesInv'
<1> SUFFICES ASSUME RatesInv, [Rates!Next]_rateVars PROVE RatesInv'
  OBVIOUS
<1>t. /\ rateClock \in 0..MaxTime
      /\ memory \in [sampled : (0..MaxTime) \cup {-1}, stamp : 0..MaxTime, copied : BOOLEAN]
      /\ shared \in [sampled : (0..MaxTime) \cup {-1}, expires : Nat]
      /\ request \in [Requests -> RequestRows]
      /\ memory.stamp <= rateClock
      /\ newest \in (0..MaxTime) \cup {-1}
  BY RatesTypes DEF RatesInv
<1>i. RequestsAreShort /\ CopyIsRecent /\ StampIsTrue /\ Rates!FallbackIsNearNewest
  BY DEF RatesInv
<1>n. Rates!NoRequest \in RequestRows /\ Rates!NoRequest.pc = "idle"
  BY RatesFacts DEF Rates!NoRequest, RequestRows
<1>1. CASE Rates!Tick
  <2>1. rateClock' = rateClock + 1 /\ rateClock' \in 0..MaxTime
    BY <1>1, <1>t, RatesFacts DEF Rates!Tick
  <2>2. Rates!TypeOK'
    BY <1>1, <1>t, <2>1 DEF Rates!Tick, RatesInv, Rates!TypeOK, Rates!Times
  <2>3. RequestsAreShort'
    <3> SUFFICES ASSUME NEW r \in Requests, request[r].pc # "idle"
                 PROVE  /\ request[r].now <= rateClock' /\ rateClock' - request[r].now <= MaxLatency
                        /\ request[r].pc \in {"fetch", "publish"} =>
                             request[r].sampled # Rates!Never
                             /\ request[r].now <= request[r].sampled /\ request[r].sampled <= rateClock'
      BY <1>1 DEF Rates!Tick, RequestsAreShort
    <3>1. request[r].now \in Nat /\ request[r].sampled \in Int /\ rateClock - request[r].now < MaxLatency
      BY <1>1, <1>t DEF Rates!Tick, RequestRows
    <3>. QED  BY <1>t, <1>i, <2>1, <3>1, RatesFacts DEF RequestsAreShort
  <2>4. CopyIsRecent' /\ StampIsTrue' /\ Rates!FallbackIsNearNewest'
    BY <1>1, <1>t, <1>i, <2>1, RatesFacts
       DEF Rates!Tick, CopyIsRecent, StampIsTrue, Rates!FallbackIsNearNewest
  <2>. QED  BY <2>2, <2>3, <2>4 DEF RatesInv
<1>2. ASSUME NEW r \in Requests, Rates!Start(r) PROVE RatesInv'
  <2>1. [pc |-> "lookup", now |-> rateClock, sampled |-> -1] \in RequestRows
    BY <1>t DEF RequestRows
  <2>2. PICK e \in RequestRows : /\ request' = [request EXCEPT ![r] = e]
                                 /\ e.pc = "lookup" /\ e.now = rateClock
    BY <1>2, <2>1, RatesFacts DEF Rates!Start
  <2>3. e.now <= rateClock /\ rateClock - e.now <= MaxLatency
    BY <1>t, <2>2, RatesFacts
  <2>4. UNCHANGED <<rateClock, rateRestarts>>
    BY <1>2 DEF Rates!Start
  <2>5. RequestsAreShort' /\ request' \in [Requests -> RequestRows]
    BY <2>2, <2>3, <2>4, RequestMoves
  <2>. QED  BY <1>2, <2>5, RatesKept DEF Rates!Start
<1>e. ASSUME NEW r \in Requests
      PROVE  /\ request[r].now \in 0..MaxTime /\ request[r].sampled \in (0..MaxTime) \cup {-1}
             /\ request[r].pc # "idle" =>
                  request[r].now <= rateClock /\ rateClock - request[r].now <= MaxLatency
             /\ request[r].pc \in {"fetch", "publish"} =>
                  /\ request[r].sampled \in 0..MaxTime
                  /\ request[r].now <= request[r].sampled /\ request[r].sampled <= rateClock
  BY <1>t, <1>i, RatesFacts DEF RequestsAreShort, RequestRows
<1>3. ASSUME NEW r \in Requests, Rates!Copy(r) PROVE RatesInv'
  <2>1. RequestsAreShort' /\ request' \in [Requests -> RequestRows]
    BY <1>3, <1>n, RequestMoves DEF Rates!Copy, Rates!Ends
  <2>2. /\ shared.sampled \in 0..MaxTime /\ shared.sampled <= rateClock
        /\ rateClock < shared.sampled + MaxLatency + SharedTTL
    BY <1>3, <1>t, <1>i, RatesFacts DEF Rates!Copy, Rates!CopyLive, CopyIsRecent
  <2>3. request[r].now \in 0..MaxTime /\ request[r].now <= rateClock
    BY <1>3, <1>e DEF Rates!Copy
  <2> DEFINE m == [sampled |-> shared.sampled, stamp |-> request[r].now, copied |-> TRUE]
  <2>4. /\ m \in [sampled : 0..MaxTime, stamp : 0..MaxTime, copied : BOOLEAN]
        /\ m.sampled = shared.sampled /\ m.stamp = request[r].now /\ m.copied
    BY <2>2, <2>3
  <2>5. Rates!Keep(m) /\ UNCHANGED <<rateClock, rateRestarts, shared>>
    BY <1>3 DEF Rates!Copy
  <2> HIDE DEF m
  <2>6. rateClock - m.sampled < SharedTTL + MaxLatency /\ m.stamp < m.sampled + MaxLatency + SharedTTL
    BY <1>t, <2>2, <2>3, <2>4, RatesFacts
  <2>. QED  BY <2>1, <2>2, <2>3, <2>4, <2>5, <2>6, RatesMemory
<1>4. ASSUME NEW r \in Requests, Rates!LookupFails(r) PROVE RatesInv'
  <2>1. [pc |-> "ask", now |-> request[r].now, sampled |-> request[r].sampled] \in RequestRows
    BY <1>e DEF RequestRows
  <2>2. RequestsAreShort' /\ request' \in [Requests -> RequestRows]
    BY <1>4, <1>e, <2>1, RequestMoves DEF Rates!LookupFails, Rates!Goes
  <2>. QED  BY <1>4, <2>2, RatesKept DEF Rates!LookupFails
<1>5. ASSUME NEW r \in Requests, Rates!Ask(r) PROVE RatesInv'
  <2>1. [pc |-> "fetch", now |-> request[r].now, sampled |-> rateClock] \in RequestRows
    BY <1>t, <1>e DEF RequestRows
  <2>2. PICK e \in RequestRows : /\ request' = [request EXCEPT ![r] = e]
                                 /\ e.pc = "fetch" /\ e.now = request[r].now /\ e.sampled = rateClock
    BY <1>5, <2>1 DEF Rates!Ask
  <2>3. /\ e.now <= rateClock /\ rateClock - e.now <= MaxLatency
        /\ e.sampled # -1 /\ e.now <= e.sampled /\ e.sampled <= rateClock
    BY <1>5, <1>t, <1>e, <2>2 DEF Rates!Ask
  <2>4. UNCHANGED <<rateClock, rateRestarts>>
    BY <1>5 DEF Rates!Ask
  <2>5. RequestsAreShort' /\ request' \in [Requests -> RequestRows]
    BY <2>2, <2>3, <2>4, RequestMoves
  <2>. QED  BY <1>5, <2>5, RatesKept DEF Rates!Ask
<1>6. ASSUME NEW r \in Requests, Rates!Fetched(r) PROVE RatesInv'
  <2>e. /\ request[r].now \in 0..MaxTime /\ request[r].sampled \in 0..MaxTime
        /\ request[r].now <= request[r].sampled /\ request[r].sampled <= rateClock
        /\ rateClock - request[r].now <= MaxLatency
    BY <1>6, <1>e DEF Rates!Fetched
  <2>1. [pc |-> "publish", now |-> request[r].now, sampled |-> request[r].sampled] \in RequestRows
    BY <2>e DEF RequestRows
  <2>2. RequestsAreShort' /\ request' \in [Requests -> RequestRows]
    <3>1. PICK e \in RequestRows : /\ request' = [request EXCEPT ![r] = e] /\ e.pc = "publish"
                                   /\ e.now = request[r].now /\ e.sampled = request[r].sampled
      BY <1>6, <2>1 DEF Rates!Fetched, Rates!Goes
    <3>2. /\ e.now <= rateClock /\ rateClock - e.now <= MaxLatency
          /\ e.sampled # -1 /\ e.now <= e.sampled /\ e.sampled <= rateClock
      BY <1>t, <2>e, <3>1
    <3>3. UNCHANGED <<rateClock, rateRestarts>>
      BY <1>6 DEF Rates!Fetched
    <3>. QED  BY <3>1, <3>2, <3>3, RequestMoves
  <2> DEFINE m == [sampled |-> request[r].sampled, stamp |-> request[r].now, copied |-> FALSE]
  <2>4. /\ m \in [sampled : 0..MaxTime, stamp : 0..MaxTime, copied : BOOLEAN]
        /\ m.sampled = request[r].sampled /\ m.stamp = request[r].now /\ ~m.copied
    BY <2>e
  <2>5. Rates!Keep(m) /\ UNCHANGED <<rateClock, rateRestarts, shared>>
    BY <1>6 DEF Rates!Fetched
  <2> HIDE DEF m
  <2>6. rateClock - m.sampled < SharedTTL + MaxLatency /\ m.stamp <= rateClock
    BY <1>t, <2>e, <2>4, RatesFacts
  <2>. QED  BY <2>e, <2>2, <2>4, <2>5, <2>6, RatesMemory
<1>7. ASSUME NEW r \in Requests, Rates!FetchFails(r) PROVE RatesInv'
  <2>1. RequestsAreShort' /\ request' \in [Requests -> RequestRows]
    BY <1>7, <1>n, RequestMoves DEF Rates!FetchFails, Rates!Ends
  <2>. QED  BY <1>7, <2>1, RatesKept DEF Rates!FetchFails
<1>8. ASSUME NEW r \in Requests, Rates!Publish(r) PROVE RatesInv'
  <2>1. RequestsAreShort' /\ request' \in [Requests -> RequestRows]
    BY <1>8, <1>n, RequestMoves DEF Rates!Publish, Rates!Ends
  <2>2. CASE UNCHANGED shared
    BY <1>8, <2>1, <2>2, RatesKept DEF Rates!Publish
  <2>3. CASE shared' = [sampled |-> request[r].sampled, expires |-> rateClock + SharedTTL]
    <3>1. /\ request[r].sampled \in 0..MaxTime /\ request[r].sampled <= rateClock
          /\ rateClock - request[r].sampled <= MaxLatency
      BY <1>8, <1>t, <1>e, RatesFacts DEF Rates!Publish
    <3>2. /\ shared'.sampled = request[r].sampled /\ shared'.expires = rateClock + SharedTTL
          /\ shared' \in [sampled : (0..MaxTime) \cup {-1}, expires : Nat]
      BY <1>t, <2>3, <3>1, RatesFacts
    <3>3. CopyIsRecent'
      BY <1>8, <1>t, <3>1, <3>2, RatesFacts DEF Rates!Publish, CopyIsRecent
    <3>4. Rates!TypeOK'
      BY <1>8, <2>1, <3>2 DEF Rates!Publish, RatesInv, Rates!TypeOK, RequestRows, Rates!Times, Rates!Never
    <3>. QED  BY <1>8, <2>1, <3>3, <3>4
              DEF Rates!Publish, RatesInv, StampIsTrue, Rates!FallbackIsNearNewest
  <2>. QED  BY <1>8, <2>2, <2>3 DEF Rates!Publish
<1>9. CASE Rates!Restart
  <2>1. /\ request' = [r \in Requests |-> Rates!NoRequest] /\ newest' = -1
        /\ memory' = [sampled |-> -1, stamp |-> 0, copied |-> FALSE] /\ rateClock' = rateClock
        /\ shared' = shared \/ shared' = [sampled |-> -1, expires |-> 0]
    BY <1>9, RatesFacts DEF Rates!Restart, Rates!NoMemory, Rates!NoCopy
  <2>2. RequestsAreShort'
    BY <1>n, <2>1 DEF RequestsAreShort
  <2>3. CopyIsRecent'
    BY <1>i, <2>1, RatesFacts DEF CopyIsRecent
  <2>4. StampIsTrue' /\ Rates!FallbackIsNearNewest'
    BY <1>t, <2>1, RatesFacts DEF StampIsTrue, Rates!FallbackIsNearNewest
  <2>5. Rates!TypeOK'
    <3>1. memory' \in [sampled : (0..MaxTime) \cup {-1}, stamp : 0..MaxTime, copied : BOOLEAN]
          /\ memory'.stamp <= rateClock'
      BY <1>t, <2>1, RatesFacts
    <3>2. shared' \in [sampled : (0..MaxTime) \cup {-1}, expires : Nat]
      BY <1>t, <2>1
    <3>3. request' \in [Requests -> RequestRows] /\ rateRestarts' \in 0..MaxRestarts
      BY <1>9, <1>n, <2>1, RatesFacts DEF Rates!Restart, RatesInv, Rates!TypeOK
    <3>. QED  BY <1>t, <2>1, <3>1, <3>2, <3>3 DEF Rates!TypeOK, RequestRows, Rates!Times, Rates!Never
  <2>. QED  BY <2>2, <2>3, <2>4, <2>5 DEF RatesInv
<1>10. CASE UNCHANGED rateVars
  BY <1>10 DEF rateVars, RatesInv, Rates!TypeOK, RequestsAreShort, CopyIsRecent, StampIsTrue,
     Rates!FallbackIsNearNewest
<1>. QED  BY <1>1, <1>2, <1>3, <1>4, <1>5, <1>6, <1>7, <1>8, <1>9, <1>10 DEF Rates!Next

LEMMA RatesAnswers == RatesInv => Rates!ServedAreRecent
<1> SUFFICES ASSUME RatesInv, Rates!Fresh
             PROVE  rateClock - memory.sampled
                      < RatesTTL + (IF memory.copied THEN SharedTTL + MaxLatency ELSE 0)
  BY DEF Rates!ServedAreRecent
<1>1. /\ rateClock \in Nat /\ memory.stamp \in Nat /\ memory.sampled \in Int /\ memory.sampled # -1
      /\ rateClock - memory.stamp < RatesTTL /\ memory.copied \in BOOLEAN
  BY RatesTypes, RatesFacts DEF RatesInv, Rates!Fresh
<1>2. RatesTTL \in Nat /\ SharedTTL \in Nat /\ MaxLatency \in Nat
  BY RatesFacts
<1>3. /\ newest <= rateClock /\ memory.sampled <= rateClock
      /\ ~memory.copied => memory.stamp <= memory.sampled
      /\ memory.copied => memory.stamp < memory.sampled + MaxLatency + SharedTTL
  BY <1>1, RatesFacts DEF RatesInv, StampIsTrue
<1>4. CASE memory.copied
  BY <1>1, <1>2, <1>3, <1>4
<1>5. CASE ~memory.copied
  BY <1>1, <1>2, <1>3, <1>5
<1>. QED  BY <1>4, <1>5

(***************************************************************************)
(* PragmaFeed.                                                             *)
(***************************************************************************)

\* Sockets before the newest are closed, and a timer is set when it is closed too.
NewestLives ==
    /\ \A s \in Feed!Sockets : (s < opened => state[s] = "closed") /\ (s > opened => state[s] = "none")
    /\ state[opened] # "none"
    /\ timers = IF state[opened] = "closed" THEN 1 ELSE 0

\* Only the newest is pinged, from when it opens until it closes, and stopPing would
\* stop those pings.
NewestIsPinged ==
    /\ intervals \subseteq {opened}
    /\ opened \in intervals => handle = opened /\ state[opened] \in {"open", "closing"}
    /\ ~destroyed /\ state[opened] = "open" => opened \in intervals

FeedInv == Feed!TypeOK /\ NewestLives /\ NewestIsPinged

LEMMA FeedInit == Feed!Init => FeedInv
<1> SUFFICES ASSUME Feed!Init PROVE FeedInv
  OBVIOUS
<1>0. 1 \in Feed!Sockets
  BY FeedBounds DEF Feed!FeedAssumption, Feed!Sockets
<1>1. /\ state \in [Feed!Sockets -> Feed!States] /\ state[1] = "connecting"
      /\ \A s \in Feed!Sockets : s # 1 => state[s] = "none"
      /\ 1 \in Feed!Sockets /\ destroyed \in BOOLEAN
  BY <1>0 DEF Feed!Init, Feed!States
<1>2. Feed!TypeOK
  BY <1>1 DEF Feed!TypeOK, Feed!Init
<1>. QED  BY <1>1, <1>2 DEF Feed!Init, Feed!Sockets, FeedInv, NewestLives, NewestIsPinged

\* A socket that lives is the newest.
LEMMA FeedLiving ==
  ASSUME FeedInv, NEW s \in Feed!Sockets, state[s] \notin {"none", "closed"}
  PROVE  s = opened
BY DEF FeedInv, Feed!TypeOK, Feed!Sockets, NewestLives

\* The newest socket changes its state, and stays alive or is closed with a timer.
LEMMA FeedMoves ==
  ASSUME FeedInv, NEW to \in {"open", "closing", "closed"},
         state' = [state EXCEPT ![opened] = to], opened' = opened,
         timers' = IF to = "closed" THEN 1 ELSE 0
  PROVE  /\ NewestLives' /\ state'[opened'] = to
         /\ state' \in [Feed!Sockets -> Feed!States] /\ timers' \in Nat
BY DEF FeedInv, Feed!TypeOK, Feed!Sockets, Feed!States, NewestLives

LEMMA FeedStep == FeedInv /\ [Feed!Next]_feedVars => FeedInv'
<1> SUFFICES ASSUME FeedInv, [Feed!Next]_feedVars PROVE FeedInv'
  OBVIOUS
<1>t. /\ state \in [Feed!Sockets -> Feed!States] /\ opened \in Feed!Sockets
      /\ timers \in Nat /\ intervals \subseteq Feed!Sockets /\ handle \in Feed!Sockets \cup {0}
      /\ prices \subseteq Pairs /\ destroyed \in BOOLEAN
      /\ NewestLives /\ NewestIsPinged
  BY DEF FeedInv, Feed!TypeOK
<1>1. ASSUME NEW s \in Feed!Sockets, Feed!Open(s) PROVE FeedInv'
  <2>1. s = opened /\ timers = 0
    BY <1>1, <1>t, FeedLiving DEF Feed!Open, NewestLives
  <2>2. NewestLives' /\ state'[opened'] = "open" /\ state' \in [Feed!Sockets -> Feed!States]
    BY <1>1, <2>1, FeedMoves DEF Feed!Open
  <2>3. NewestIsPinged'
    BY <1>1, <1>t, <2>1, <2>2 DEF Feed!Open, NewestIsPinged
  <2>. QED  BY <1>1, <1>t, <2>2, <2>3 DEF Feed!Open, FeedInv, Feed!TypeOK
<1>2. ASSUME NEW s \in Feed!Sockets, Feed!Error(s) PROVE FeedInv'
  <2>1. s = opened /\ timers = 0
    BY <1>2, <1>t, FeedLiving DEF Feed!Error, NewestLives
  <2>2. NewestLives' /\ state'[opened'] = "closing" /\ state' \in [Feed!Sockets -> Feed!States]
    BY <1>2, <2>1, FeedMoves DEF Feed!Error
  <2>3. NewestIsPinged'
    BY <1>2, <1>t, <2>1, <2>2 DEF Feed!Error, NewestIsPinged
  <2>. QED  BY <1>2, <1>t, <2>2, <2>3 DEF Feed!Error, FeedInv, Feed!TypeOK
<1>3. ASSUME NEW s \in Feed!Sockets, Feed!Close(s) PROVE FeedInv'
  <2>1. s = opened /\ timers = 0
    BY <1>3, <1>t, FeedLiving DEF Feed!Close, NewestLives
  <2>2. NewestLives' /\ state'[opened'] = "closed" /\ state' \in [Feed!Sockets -> Feed!States]
        /\ timers' \in Nat
    BY <1>3, <2>1, FeedMoves DEF Feed!Close
  <2>3. NewestIsPinged'
    BY <1>3, <1>t, <2>1, <2>2 DEF Feed!Close, NewestIsPinged
  <2>. QED  BY <1>3, <1>t, <2>2, <2>3 DEF Feed!Close, FeedInv, Feed!TypeOK
<1>4. ASSUME NEW s \in Feed!Sockets, NEW p \in Pairs, Feed!Message(s, p) PROVE FeedInv'
  BY <1>4, <1>t DEF Feed!Message, FeedInv, Feed!TypeOK, NewestLives, NewestIsPinged
<1>5. CASE Feed!Reconnect
  <2>1. /\ state[opened] = "closed" /\ intervals = {} /\ timers' = 0
        /\ opened' = opened + 1 /\ opened' \in Feed!Sockets
        /\ state' = [state EXCEPT ![opened'] = "connecting"]
    BY <1>5, <1>t, FeedBounds
       DEF Feed!Reconnect, NewestLives, NewestIsPinged, Feed!Sockets, Feed!FeedAssumption
  <2>2. state'[opened'] = "connecting" /\ \A s \in Feed!Sockets : s # opened' => state'[s] = state[s]
    BY <1>t, <2>1
  <2>3. NewestLives'
    BY <1>t, <2>1, <2>2 DEF NewestLives, Feed!Sockets
  <2>4. NewestIsPinged'
    BY <1>5, <2>1, <2>2 DEF Feed!Reconnect, NewestIsPinged
  <2>5. state' \in [Feed!Sockets -> Feed!States]
    BY <1>t, <2>1 DEF Feed!States
  <2>. QED  BY <1>5, <1>t, <2>1, <2>3, <2>4, <2>5 DEF Feed!Reconnect, FeedInv, Feed!TypeOK
<1>6. CASE Feed!Destroy
  <2>1. UNCHANGED <<opened, timers, handle, prices>> /\ destroyed' = TRUE
        /\ intervals' = intervals \ {handle}
    BY <1>6 DEF Feed!Destroy
  <2>2. NewestLives' /\ state' \in [Feed!Sockets -> Feed!States]
        /\ state'[opened] = IF state[opened] = "closed" THEN "closed" ELSE "closing"
    <3>1. CASE state[opened] = "closed"
      <4>1. state' = [state EXCEPT ![opened] = "closed"] /\ timers' = 1
        BY <1>6, <1>t, <2>1, <3>1 DEF Feed!Destroy, NewestLives
      <4>. QED  BY <2>1, <3>1, <4>1, FeedMoves
    <3>2. CASE state[opened] # "closed"
      <4>1. state' = [state EXCEPT ![opened] = "closing"] /\ timers' = 0
        BY <1>6, <1>t, <2>1, <3>2 DEF Feed!Destroy, NewestLives
      <4>. QED  BY <2>1, <3>2, <4>1, FeedMoves
    <3>. QED  BY <3>1, <3>2
  <2>3. NewestIsPinged'
    BY <1>t, <2>1, <2>2 DEF NewestIsPinged
  <2>. QED  BY <1>t, <2>1, <2>2, <2>3 DEF FeedInv, Feed!TypeOK
<1>7. CASE UNCHANGED feedVars
  BY <1>7 DEF feedVars, FeedInv, Feed!TypeOK, NewestLives, NewestIsPinged
<1>. QED  BY <1>1, <1>2, <1>3, <1>4, <1>5, <1>6, <1>7 DEF Feed!Next

\* The number of elements is the same operator under both names.
LEMMA FeedCardinality == \A S : Feed!Cardinality(S) = Cardinality(S)
BY DEF Feed!Cardinality, Cardinality

LEMMA FeedLives == FeedInv => Feed!OneSubscription
<1> SUFFICES ASSUME FeedInv PROVE Feed!OneSubscription
  OBVIOUS
<1>t. opened \in Feed!Sockets /\ state \in [Feed!Sockets -> Feed!States] /\ NewestLives /\ NewestIsPinged
  BY DEF FeedInv, Feed!TypeOK
<1>1. \A s \in Feed!Alive : s = opened
  BY FeedLiving DEF Feed!Alive
<1>2. CASE state[opened] = "closed"
  <2>1. Feed!Alive = {} /\ intervals = {} /\ timers = 1
    BY <1>t, <1>1, <1>2 DEF NewestLives, NewestIsPinged, Feed!Alive
  <2>2. Cardinality(Feed!Alive) = 0
    BY <2>1, FS_EmptySet
  <2>3. Cardinality(Feed!Alive) + timers = 1
    BY <2>1, <2>2
  <2>4. \A s \in Feed!Sockets : state[s] # "open"
    BY <1>2, FeedLiving
  <2>. QED  BY <2>1, <2>3, <2>4, FeedCardinality DEF Feed!OneSubscription
<1>3. CASE state[opened] # "closed"
  <2>1. Feed!Alive = {opened} /\ timers = 0
    BY <1>t, <1>1, <1>3 DEF NewestLives, Feed!Alive, Feed!States
  <2>2. Cardinality(Feed!Alive) = 1
    BY <2>1, FS_Singleton
  <2>3. \A s \in Feed!Sockets : state[s] = "open" => s = opened
    BY FeedLiving
  <2>4. Cardinality(Feed!Alive) + timers = 1
    BY <2>1, <2>2
  <2>5. intervals \subseteq Feed!Alive \cap {opened}
    BY <1>t, <2>1 DEF NewestIsPinged
  <2>6. ~destroyed => \A s \in Feed!Sockets : state[s] = "open" => s \in intervals
    BY <1>t, <2>3 DEF NewestIsPinged
  <2>. QED  BY <2>4, <2>5, <2>6, FeedCardinality DEF Feed!OneSubscription
<1>. QED  BY <1>2, <1>3

\* What is enabled is beyond the provers: that Reconnect and Close can be taken when
\* their guards hold, which is plain from their form, is a hypothesis below.
FeedIsEnabled ==
    /\ timers > 0 /\ opened < MaxSockets => ENABLED <<Feed!Reconnect>>_(Feed!vars)
    /\ \A s \in Feed!Sockets :
         state[s] = "closing" => ENABLED <<Feed!Closing(s)>>_(Feed!vars)

\* The last socket, when it is closed, waits for its timer.
WaitsAt(s) == state[s] = "closed" /\ state[s + 1] = "none"

LEMMA FeedWaits ==
  ASSUME FeedInv, NEW s \in Feed!Sockets \ {MaxSockets}, WaitsAt(s)
  PROVE  s = opened /\ timers = 1 /\ opened < MaxSockets /\ opened + 1 \in Feed!Sockets
<1>1. /\ opened \in Feed!Sockets /\ MaxSockets \in Nat /\ s \in Nat /\ s + 1 \in Feed!Sockets
      /\ NewestLives /\ s < MaxSockets
  BY FeedBounds DEF FeedInv, Feed!TypeOK, Feed!Sockets, Feed!FeedAssumption
<1>2. ~(s > opened) /\ ~(s + 1 < opened) /\ s + 1 # opened
  BY <1>1 DEF WaitsAt, NewestLives
<1>3. s = opened
  BY <1>1, <1>2 DEF Feed!Sockets
<1>. QED  BY <1>1, <1>3 DEF WaitsAt, NewestLives

\* A socket that closes is closed next.
LEMMA FeedCloses ==
  ASSUME FeedInv, [Feed!Next]_feedVars, NEW s \in Feed!Sockets, state[s] = "closing"
  PROVE  state'[s] \in {"closing", "closed"} /\ (Feed!Closing(s) => state'[s] = "closed")
<1>t. state \in [Feed!Sockets -> Feed!States] /\ timers = 0 /\ s = opened
  BY FeedLiving DEF FeedInv, Feed!TypeOK, NewestLives
<1>1. ASSUME NEW r \in Feed!Sockets, Feed!Open(r) \/ Feed!Error(r) \/ Feed!Close(r)
      PROVE  state'[s] \in {"closing", "closed"}
  <2>1. state[r] \notin {"none", "closed"}
    BY <1>1 DEF Feed!Open, Feed!Error, Feed!Close
  <2>2. r = s
    BY <1>t, <2>1, FeedLiving
  <2>. QED  BY <1>1, <1>t, <2>2 DEF Feed!Open, Feed!Error, Feed!Close
<1>2. ASSUME \/ \E r \in Feed!Sockets : \E p \in Pairs : Feed!Message(r, p)
             \/ Feed!Reconnect \/ Feed!Destroy \/ UNCHANGED feedVars
      PROVE  state'[s] \in {"closing", "closed"}
  BY <1>2, <1>t DEF Feed!Message, Feed!Reconnect, Feed!Destroy, feedVars
<1>3. Feed!Closing(s) => state'[s] = "closed"
  BY <1>t DEF Feed!Closing, Feed!Close
<1>. QED  BY <1>1, <1>2, <1>3 DEF Feed!Next

\* While the newest is closed nothing happens but its timer.
LEMMA FeedReconnects ==
  ASSUME FeedInv, [Feed!Next]_feedVars, NEW s \in Feed!Sockets \ {MaxSockets}, WaitsAt(s)
  PROVE  /\ WaitsAt(s)' \/ state'[s + 1] # "none"
         /\ (Feed!Reconnect => state'[s + 1] # "none")
<1>t. /\ state \in [Feed!Sockets -> Feed!States] /\ s = opened
      /\ s + 1 \in Feed!Sockets /\ state[s] = "closed" /\ state[s + 1] = "none"
  BY FeedWaits DEF FeedInv, Feed!TypeOK, WaitsAt
<1>1. ASSUME NEW r \in Feed!Sockets, Feed!Open(r) \/ Feed!Error(r) \/ Feed!Close(r)
      PROVE  FALSE
  <2>1. state[r] \notin {"none", "closed"}
    BY <1>1 DEF Feed!Open, Feed!Error, Feed!Close
  <2>. QED  BY <1>t, <2>1, FeedLiving
<1>2. Feed!Reconnect => state'[s + 1] # "none"
  BY <1>t DEF Feed!Reconnect
<1>3. ASSUME \/ \E r \in Feed!Sockets : \E p \in Pairs : Feed!Message(r, p)
             \/ Feed!Destroy \/ UNCHANGED feedVars
      PROVE  state' = state
  BY <1>3, <1>t DEF Feed!Message, Feed!Destroy, feedVars
<1>. QED  BY <1>t, <1>1, <1>2, <1>3 DEF Feed!Next, WaitsAt

(***************************************************************************)
(* Listings.                                                               *)
(***************************************************************************)

\* Rows that come before row i in a listing, whatever the order of its time's rows.
NewerIn(L, t, i) == {j \in L : t[j] > t[i]}
RankIn(L, t, i)  == Cardinality(NewerIn(L, t, i))
Rank(i)          == RankIn(listed, createdAt, i)

\* What the client has been shown, or is about to be, and how far down it has read.
Shown    == seen \cup data
Boundary == Pages!Skip + (IF "data" \in todo THEN 0 ELSE Limit)

\* Untied rows that the client has passed without seeing them, those that it has not
\* seen at all, and those that it has seen and will meet again.
Passed  == {i \in throughout \ Shown : ~Pages!Tied(i) /\ Rank(i) < Boundary}
Unseen  == {i \in throughout \ Shown : ~Pages!Tied(i)}
Returns == {i \in Shown \cap listed : Rank(i) >= Boundary}

\* A row that leaves lets one untied row pass the boundary; rows that came between a
\* number and its page may lie below the last boundary.
MissesAreFew ==
    /\ Cardinality(Passed) <= left
    /\ todo = {"data"} => listing = "parallel" /\ Cardinality(listed) <= total + torn
    /\ todo = {} /\ total <= page * Limit =>
         Cardinality(Unseen) <= left + (IF listing = "parallel" THEN torn ELSE 0)

\* A row that comes lets one row that was shown return.
RepeatsAreFew ==
    (\A r \in Pages!Rows : ~Pages!Tied(r)) =>
      repeats + Cardinality(seen \cap data) + Cardinality(Returns) <= entered

PagesTyped ==
    /\ \E n \in 0..MaxRows : createdAt \in [1..n -> 0..MaxRows]
    /\ \A r \in Pages!Rows : createdAt[r] <= r - 1
    /\ "data" \in todo => data = {}
    /\ ended => todo = {} /\ data = {} /\ total = 0

PagesInv == Pages!TypeOK /\ PagesTyped /\ MissesAreFew /\ RepeatsAreFew

LEMMA PagesCardinality == \A S : Pages!Cardinality(S) = Cardinality(S)
BY DEF Pages!Cardinality, Cardinality

\* Sets of which one is larger by one element at most.
LEMMA OneMore ==
  ASSUME NEW S, NEW T, IsFiniteSet(S), IsFiniteSet(T), \A i, j \in S \ T : i = j
  PROVE  Cardinality(S) <= Cardinality(T) + 1
<1>1. CASE S \subseteq T
  BY <1>1, FS_Subset, FS_CardinalityType
<1>2. CASE ~(S \subseteq T)
  <2>1. PICK x \in S \ T : S \subseteq T \cup {x}
    BY <1>2
  <2>2. IsFiniteSet(T \cup {x}) /\ Cardinality(T \cup {x}) = Cardinality(T) + 1
    BY <2>1, FS_AddElement
  <2>. QED  BY <2>1, <2>2, FS_Subset
<1>. QED  BY <1>1, <1>2

LEMMA RankIsNumber ==
  ASSUME NEW L, IsFiniteSet(L), NEW t, NEW i
  PROVE  /\ IsFiniteSet(NewerIn(L, t, i)) /\ NewerIn(L, t, i) \subseteq L
         /\ RankIn(L, t, i) \in Nat
<1>1. NewerIn(L, t, i) \subseteq L
  BY DEF NewerIn
<1>. QED  BY <1>1, FS_Subset, FS_CardinalityType DEF RankIn

\* A newer row has a smaller rank.
LEMMA RankIsStrict ==
  ASSUME NEW L, IsFiniteSet(L), NEW t, \A j \in L : t[j] \in Int,
         NEW i \in L, NEW k \in L, t[i] > t[k]
  PROVE  RankIn(L, t, i) < RankIn(L, t, k)
<1>1. NewerIn(L, t, i) \cup {i} \subseteq NewerIn(L, t, k) /\ i \notin NewerIn(L, t, i)
  BY DEF NewerIn
<1>2. Cardinality(NewerIn(L, t, i) \cup {i}) = RankIn(L, t, i) + 1
  BY <1>1, RankIsNumber, FS_AddElement DEF RankIn
<1>3. Cardinality(NewerIn(L, t, i) \cup {i}) <= RankIn(L, t, k)
  BY <1>1, RankIsNumber, FS_Subset DEF RankIn
<1>. QED  BY <1>2, <1>3, RankIsNumber

\* Every row has fewer newer ones than there are rows.
LEMMA RankIsSmall ==
  ASSUME NEW L, IsFiniteSet(L), NEW t, \A j \in L : t[j] \in Int, NEW i \in L
  PROVE  RankIn(L, t, i) < Cardinality(L)
<1>1. NewerIn(L, t, i) \subseteq L \ {i}
  BY DEF NewerIn
<1>2. IsFiniteSet(L \ {i}) /\ Cardinality(L \ {i}) = Cardinality(L) - 1 /\ Cardinality(L) \in Nat
  BY FS_RemoveElement, FS_CardinalityType
<1>3. RankIn(L, t, i) <= Cardinality(L) - 1
  BY <1>1, <1>2, FS_Subset DEF RankIn
<1>. QED  BY <1>2, <1>3, RankIsNumber

\* A row that comes puts older ones down by one.
LEMMA RankGrows ==
  ASSUME NEW L, IsFiniteSet(L), NEW t, NEW r, r \notin L, NEW i
  PROVE  RankIn(L \cup {r}, t, i) = IF t[r] > t[i] THEN RankIn(L, t, i) + 1 ELSE RankIn(L, t, i)
<1>1. CASE t[r] > t[i]
  <2>1. NewerIn(L \cup {r}, t, i) = NewerIn(L, t, i) \cup {r} /\ r \notin NewerIn(L, t, i)
    BY <1>1 DEF NewerIn
  <2>. QED  BY <1>1, <2>1, RankIsNumber, FS_AddElement DEF RankIn
<1>2. CASE ~(t[r] > t[i])
  <2>1. NewerIn(L \cup {r}, t, i) = NewerIn(L, t, i)
    BY <1>2 DEF NewerIn
  <2>. QED  BY <1>2, <2>1 DEF RankIn
<1>. QED  BY <1>1, <1>2

LEMMA PagesFacts ==
  ASSUME PagesInv
  PROVE  /\ Limit \in Nat \ {0} /\ MaxRows \in Nat /\ MaxChanges \in Nat
         /\ IsFiniteSet(Pages!Rows) /\ Cardinality(Pages!Rows) \in 0..MaxRows
         /\ Pages!Rows = 1..Cardinality(Pages!Rows)
         /\ \A i \in Pages!Rows : createdAt[i] \in 0..MaxRows
         /\ listed \subseteq Pages!Rows /\ seen \subseteq Pages!Rows /\ data \subseteq Pages!Rows
         /\ throughout \subseteq listed
         /\ \A S \in SUBSET Pages!Rows :
              IsFiniteSet(S) /\ Cardinality(S) \in Nat /\ Cardinality(S) <= MaxRows
         /\ page \in Nat \ {0} /\ Pages!Skip \in Nat /\ page * Limit = Pages!Skip + Limit
         /\ total \in Nat /\ left \in Nat /\ entered \in Nat /\ repeats \in Nat /\ torn \in Nat
<1>1. Limit \in Nat \ {0} /\ MaxRows \in Nat /\ MaxChanges \in Nat
  BY PageBounds DEF Pages!ListingAssumption
<1>2. PICK n \in 0..MaxRows : createdAt \in [1..n -> 0..MaxRows]
  BY DEF PagesInv, PagesTyped
<1>3. Pages!Rows = 1..n /\ \A i \in Pages!Rows : createdAt[i] \in 0..MaxRows
  BY <1>2 DEF Pages!Rows
<1>4. IsFiniteSet(1..n) /\ Cardinality(1..n) = n
  BY <1>1, <1>2, FS_Interval
<1>5. ASSUME NEW S \in SUBSET Pages!Rows
      PROVE  IsFiniteSet(S) /\ Cardinality(S) \in Nat /\ Cardinality(S) <= MaxRows
  <2>1. IsFiniteSet(S) /\ Cardinality(S) <= n
    BY <1>3, <1>4, FS_Subset
  <2>2. Cardinality(S) \in Nat
    BY <2>1, FS_CardinalityType
  <2>. QED  BY <1>1, <1>2, <2>1, <2>2
<1>6. page \in Nat \ {0}
  BY DEF PagesInv, Pages!TypeOK
<1>7. Pages!Skip \in Nat /\ page * Limit = Pages!Skip + Limit
  <2>1. Pages!Skip = (page - 1) * Limit /\ page - 1 \in Nat /\ Limit \in Nat
    BY <1>1, <1>6 DEF Pages!Skip
  <2>. QED  BY <1>6, <2>1
<1>8. /\ listed \subseteq Pages!Rows /\ seen \subseteq Pages!Rows /\ data \subseteq Pages!Rows
      /\ throughout \subseteq listed
  BY DEF PagesInv, Pages!TypeOK
<1>9. total \in Nat /\ left \in Nat /\ entered \in Nat /\ repeats \in Nat /\ torn \in Nat
  BY <1>1 DEF PagesInv, Pages!TypeOK
<1>. QED  BY <1>1, <1>2, <1>3, <1>4, <1>5, <1>6, <1>7, <1>8, <1>9

(***************************************************************************)
(* A page holds the untied rows of its ranks, and no other.                *)
(***************************************************************************)

\* The rows of a page and the ones before it.
LEMMA PageCut ==
  ASSUME PagesInv, NEW S \in SUBSET listed, Pages!IsPage(S)
  PROVE  \E N \in SUBSET (listed \ S) :
           /\ Cardinality(N \cup S) = Cardinality(N) + Cardinality(S)
           /\ Cardinality(N) \in Nat /\ Cardinality(S) \in Nat
           /\ Cardinality(N) <= Pages!Skip /\ Cardinality(S) <= Limit
           /\ S # {} => Cardinality(N) = Pages!Skip
           /\ listed # N \cup S => Cardinality(N \cup S) = Pages!Skip + Limit
           /\ \A i \in N, j \in listed \ N : createdAt[i] >= createdAt[j]
           /\ \A i \in N \cup S, j \in listed \ (N \cup S) : createdAt[i] >= createdAt[j]
<1>1. PICK N \in SUBSET (listed \ S) :
        /\ Cardinality(N) = Pages!Fewest(Pages!Skip, Cardinality(listed))
        /\ Cardinality(S) = Pages!Fewest(Limit, Cardinality(listed) - Cardinality(N))
        /\ \A i \in N, j \in S : createdAt[i] >= createdAt[j]
        /\ \A i \in N \cup S, j \in listed \ (S \cup N) : createdAt[i] >= createdAt[j]
  BY PagesCardinality DEF Pages!IsPage
<1>2. /\ IsFiniteSet(listed) /\ IsFiniteSet(N) /\ IsFiniteSet(S)
      /\ Cardinality(listed) \in Nat /\ Cardinality(N) \in Nat /\ Cardinality(S) \in Nat
      /\ Pages!Skip \in Nat /\ Limit \in Nat
  <2>1. listed \in SUBSET Pages!Rows /\ N \in SUBSET Pages!Rows /\ S \in SUBSET Pages!Rows
    BY PagesFacts
  <2>. QED  BY <2>1, PagesFacts
<1>3. IsFiniteSet(N \cup S) /\ Cardinality(N \cup S) = Cardinality(N) + Cardinality(S)
  <2>1. N \cap S = {}
    OBVIOUS
  <2>2. Cardinality(N \cap S) = 0
    BY <2>1, FS_EmptySet
  <2>3. /\ IsFiniteSet(N \cup S)
        /\ Cardinality(N \cup S) = Cardinality(N) + Cardinality(S) - Cardinality(N \cap S)
    BY <1>2, FS_Union
  <2>. QED  BY <1>2, <2>2, <2>3
<1>4. Cardinality(N) <= Pages!Skip /\ Cardinality(S) <= Limit
  BY <1>1, <1>2 DEF Pages!Fewest
<1>5. ASSUME S # {} PROVE Cardinality(N) = Pages!Skip
  <2>1. PICK x \in S : TRUE
    BY <1>5
  <2>2. N \subseteq listed \ {x} /\ x \in listed
    BY <2>1
  <2>3. Cardinality(listed \ {x}) = Cardinality(listed) - 1 /\ IsFiniteSet(listed \ {x})
    BY <1>2, <2>2, FS_RemoveElement
  <2>4. Cardinality(N) <= Cardinality(listed) - 1
    BY <2>2, <2>3, FS_Subset
  <2>. QED  BY <1>1, <1>2, <2>4 DEF Pages!Fewest
<1>6. ASSUME listed # N \cup S PROVE Cardinality(N \cup S) = Pages!Skip + Limit
  <2>1. PICK x \in listed : x \notin N \cup S
    BY <1>6
  <2>2. N \cup S \subseteq listed \ {x}
    BY <2>1
  <2>3. Cardinality(listed \ {x}) = Cardinality(listed) - 1 /\ IsFiniteSet(listed \ {x})
    BY <1>2, <2>1, FS_RemoveElement
  <2>4. Cardinality(N \cup S) <= Cardinality(listed) - 1
    BY <2>2, <2>3, FS_Subset
  <2>. QED  BY <1>1, <1>2, <1>3, <2>4 DEF Pages!Fewest
<1>7. \A i \in N, j \in listed \ N : createdAt[i] >= createdAt[j]
  BY <1>1
<1>8. \A i \in N \cup S, j \in listed \ (N \cup S) : createdAt[i] >= createdAt[j]
  BY <1>1
<1>. QED  BY <1>2, <1>3, <1>4, <1>5, <1>6, <1>7, <1>8

\* Rows newer than an untied one are all of a set above it, or are all in it.
LEMMA CutAbove ==
  ASSUME PagesInv, NEW A \in SUBSET listed, NEW i \in listed \ A, ~Pages!Tied(i),
         \A k \in A, j \in listed \ A : createdAt[k] >= createdAt[j]
  PROVE  Rank(i) \in Nat /\ Cardinality(A) <= Rank(i)
<1>1. /\ listed \subseteq Pages!Rows /\ \A j \in Pages!Rows : createdAt[j] \in Int
      /\ IsFiniteSet(listed)
  <2>1. listed \in SUBSET Pages!Rows
    BY PagesFacts
  <2>. QED  BY <2>1, PagesFacts
<1>2. A \subseteq NewerIn(listed, createdAt, i)
  BY <1>1 DEF NewerIn, Pages!Tied
<1>. QED  BY <1>1, <1>2, RankIsNumber, FS_Subset DEF Rank, RankIn

LEMMA CutBelow ==
  ASSUME PagesInv, NEW A \in SUBSET listed, NEW i \in A,
         \A k \in A, j \in listed \ A : createdAt[k] >= createdAt[j]
  PROVE  Rank(i) \in Nat /\ Rank(i) < Cardinality(A)
<1>1. /\ \A j \in listed : createdAt[j] \in Int
      /\ IsFiniteSet(listed) /\ IsFiniteSet(A)
  <2>1. listed \in SUBSET Pages!Rows /\ A \in SUBSET Pages!Rows
    BY PagesFacts
  <2>2. IsFiniteSet(listed) /\ IsFiniteSet(A)
    BY <2>1, PagesFacts
  <2>3. MaxRows \in Nat /\ \A j \in Pages!Rows : createdAt[j] \in 0..MaxRows
    BY PagesFacts
  <2>4. \A j \in listed : createdAt[j] \in Int
    BY <2>1, <2>3
  <2>. QED  BY <2>2, <2>4
<1>2. NewerIn(listed, createdAt, i) = NewerIn(A, createdAt, i)
  BY <1>1 DEF NewerIn
<1>3. RankIn(A, createdAt, i) < Cardinality(A)
  BY <1>1, RankIsSmall
<1>. QED  BY <1>1, <1>2, <1>3, RankIsNumber DEF Rank, RankIn

LEMMA PageRanks ==
  ASSUME PagesInv, NEW S \in SUBSET listed, Pages!IsPage(S), NEW i \in listed, ~Pages!Tied(i)
  PROVE  /\ Rank(i) \in Nat
         /\ i \in S <=> Pages!Skip <= Rank(i) /\ Rank(i) < Pages!Skip + Limit
<1>1. PICK N \in SUBSET (listed \ S) :
           /\ Cardinality(N \cup S) = Cardinality(N) + Cardinality(S)
           /\ Cardinality(N) \in Nat /\ Cardinality(S) \in Nat
           /\ Cardinality(N) <= Pages!Skip /\ Cardinality(S) <= Limit
           /\ S # {} => Cardinality(N) = Pages!Skip
           /\ listed # N \cup S => Cardinality(N \cup S) = Pages!Skip + Limit
           /\ \A k \in N, j \in listed \ N : createdAt[k] >= createdAt[j]
           /\ \A k \in N \cup S, j \in listed \ (N \cup S) : createdAt[k] >= createdAt[j]
  BY PageCut
<1>2. Pages!Skip \in Nat /\ Limit \in Nat
  BY PagesFacts
<1>3. CASE i \in N
  <2>1. Rank(i) \in Nat /\ Rank(i) < Cardinality(N)
    BY <1>1, <1>3, CutBelow
  <2>. QED  BY <1>1, <1>2, <1>3, <2>1
<1>4. CASE i \in S
  <2>1. Rank(i) \in Nat /\ Cardinality(N) <= Rank(i)
    BY <1>1, <1>4, CutAbove
  <2>2. Rank(i) < Cardinality(N \cup S)
    BY <1>1, <1>4, CutBelow
  <2>3. Cardinality(N) = Pages!Skip
    BY <1>1, <1>4
  <2>. QED  BY <1>1, <1>2, <1>4, <2>1, <2>2, <2>3
<1>5. CASE i \notin N \cup S
  <2>1. Rank(i) \in Nat /\ Cardinality(N \cup S) <= Rank(i)
    BY <1>1, <1>5, CutAbove
  <2>2. Cardinality(N \cup S) = Pages!Skip + Limit
    BY <1>1, <1>5
  <2>. QED  BY <1>2, <1>5, <2>1, <2>2
<1>. QED  BY <1>3, <1>4, <1>5

\* Untied rows below a page are no more than the listing has beyond it.
LEMMA PageRest ==
  ASSUME PagesInv, NEW S \in SUBSET listed, Pages!IsPage(S), NEW T \in SUBSET listed, T # {},
         \A i \in T : ~Pages!Tied(i) /\ Rank(i) >= Pages!Skip + Limit
  PROVE  Cardinality(T) <= Cardinality(listed) - (Pages!Skip + Limit)
<1>1. PICK N \in SUBSET (listed \ S) :
           /\ Cardinality(N \cup S) = Cardinality(N) + Cardinality(S)
           /\ Cardinality(N) \in Nat /\ Cardinality(S) \in Nat
           /\ Cardinality(N) <= Pages!Skip /\ Cardinality(S) <= Limit
           /\ S # {} => Cardinality(N) = Pages!Skip
           /\ listed # N \cup S => Cardinality(N \cup S) = Pages!Skip + Limit
           /\ \A k \in N, j \in listed \ N : createdAt[k] >= createdAt[j]
           /\ \A k \in N \cup S, j \in listed \ (N \cup S) : createdAt[k] >= createdAt[j]
  BY PageCut
<1>2. Pages!Skip \in Nat /\ Limit \in Nat
  BY PagesFacts
<1>3. ASSUME NEW i \in T PROVE i \notin N \cup S
  <2>1. CASE i \in N \cup S
    <3>1. Rank(i) \in Nat /\ Rank(i) < Cardinality(N \cup S)
      BY <1>1, <2>1, CutBelow
    <3>. QED  BY <1>1, <1>2, <1>3, <3>1
  <2>. QED  BY <2>1
<1>4. T \cap (N \cup S) = {} /\ listed # N \cup S
  BY <1>3
<1>5. /\ IsFiniteSet(T) /\ IsFiniteSet(N \cup S) /\ IsFiniteSet(listed)
      /\ Cardinality(T) \in Nat /\ Cardinality(listed) \in Nat
  <2>1. listed \in SUBSET Pages!Rows /\ N \cup S \in SUBSET Pages!Rows /\ T \in SUBSET Pages!Rows
    BY PagesFacts
  <2>. QED  BY <2>1, PagesFacts
<1>6. Cardinality(T \cup (N \cup S)) = Cardinality(T) + Cardinality(N \cup S)
  <2>1. Cardinality(T \cap (N \cup S)) = 0
    BY <1>4, FS_EmptySet
  <2>2. Cardinality(T \cup (N \cup S))
          = Cardinality(T) + Cardinality(N \cup S) - Cardinality(T \cap (N \cup S))
    BY <1>5, FS_Union
  <2>. QED  BY <1>1, <1>5, <2>1, <2>2
<1>7. Cardinality(T \cup (N \cup S)) <= Cardinality(listed)
  BY <1>5, FS_Subset
<1>. QED  BY <1>1, <1>2, <1>4, <1>5, <1>6, <1>7

(***************************************************************************)
(* A row comes, or leaves.                                                 *)
(***************************************************************************)

\* Ranks tell untied rows apart.
LEMMA RanksDiffer ==
  ASSUME NEW L, IsFiniteSet(L), NEW t, \A j \in L : t[j] \in Int,
         NEW i \in L, NEW k \in L, RankIn(L, t, i) = RankIn(L, t, k)
  PROVE  t[i] = t[k]
<1>1. ~(t[i] > t[k]) /\ ~(t[k] > t[i])
  BY RankIsStrict, RankIsNumber
<1>. QED  BY <1>1

LEMMA RowComes ==
  ASSUME PagesInv, NEW r \in Pages!Rows', r \notin listed, Pages!Lists(r),
         Pages!Rows \subseteq Pages!Rows',
         \A i \in Pages!Rows : createdAt'[i] = createdAt[i],
         \A i \in Pages!Rows' : createdAt'[i] \in Int
  PROVE  MissesAreFew' /\ RepeatsAreFew'
<1>f. /\ IsFiniteSet(listed) /\ listed \subseteq Pages!Rows /\ Shown \subseteq Pages!Rows
      /\ Cardinality(listed) \in Nat /\ throughout \subseteq listed
      /\ \A i \in Pages!Rows : createdAt[i] \in Int
      /\ Pages!Skip \in Nat /\ Limit \in Nat
      /\ total \in Nat /\ left \in Nat /\ entered \in Nat /\ repeats \in Nat /\ torn \in Nat
  <2>1. listed \in SUBSET Pages!Rows
    BY PagesFacts
  <2>. QED  BY <2>1, PagesFacts DEF Shown
<1>u. /\ UNCHANGED <<page, todo, data, total, seen, ended, repeats, listing, throughout, left>>
      /\ listed' = listed \cup {r} /\ entered' = entered + 1
      /\ torn' = IF todo = {"data"} THEN torn + 1 ELSE torn
  BY DEF Pages!Lists, Pages!client
<1>b. Boundary' = Boundary /\ Boundary \in Nat /\ Shown' = Shown
  BY <1>f, <1>u DEF Boundary, Pages!Skip, Shown
<1>1. \A i \in Pages!Rows : ~Pages!Tied(i)' => ~Pages!Tied(i)
  BY DEF Pages!Tied
<1>2. \A i \in Pages!Rows : /\ Rank(i) \in Nat
                            /\ Rank(i)' = IF createdAt'[r] > createdAt'[i] THEN Rank(i) + 1 ELSE Rank(i)
  <2> TAKE i \in Pages!Rows
  <2>1. Rank(i) = RankIn(listed, createdAt', i)
    <3>1. NewerIn(listed, createdAt, i) = NewerIn(listed, createdAt', i)
      BY <1>f DEF NewerIn
    <3>. QED  BY <3>1 DEF Rank, RankIn
  <2>2. RankIn(listed \cup {r}, createdAt', i)
          = IF createdAt'[r] > createdAt'[i]
              THEN RankIn(listed, createdAt', i) + 1 ELSE RankIn(listed, createdAt', i)
    BY <1>f, RankGrows
  <2>3. RankIn(listed, createdAt', i) \in Nat
    BY <1>f, RankIsNumber
  <2>. QED  BY <1>u, <2>1, <2>2, <2>3 DEF Rank
<1>3. Passed' \subseteq Passed /\ Unseen' \subseteq Unseen
  <2>1. Unseen' \subseteq Unseen
    BY <1>f, <1>u, <1>b, <1>1 DEF Unseen
  <2>2. ASSUME NEW i \in Passed' PROVE i \in Passed
    <3>1. i \in throughout \ Shown /\ i \in Pages!Rows /\ ~Pages!Tied(i)' /\ Rank(i)' < Boundary
      BY <1>f, <1>u, <1>b DEF Passed
    <3>2. Rank(i) < Boundary
      BY <1>b, <1>2, <3>1
    <3>. QED  BY <1>1, <3>1, <3>2 DEF Passed
  <2>. QED  BY <2>1, <2>2
<1>4. /\ IsFiniteSet(Passed) /\ IsFiniteSet(Unseen)
      /\ Cardinality(Passed) \in Nat /\ Cardinality(Unseen) \in Nat
  <2>1. Passed \in SUBSET Pages!Rows /\ Unseen \in SUBSET Pages!Rows
    BY <1>f DEF Passed, Unseen
  <2>. QED  BY <2>1, PagesFacts
<1>5. /\ Cardinality(Passed') <= Cardinality(Passed) /\ Cardinality(Passed') \in Nat
      /\ Cardinality(Unseen') <= Cardinality(Unseen) /\ Cardinality(Unseen') \in Nat
  BY <1>3, <1>4, FS_Subset, FS_CardinalityType
<1>6. MissesAreFew'
  <2>1. Cardinality(listed') = Cardinality(listed) + 1
    BY <1>f, <1>u, FS_AddElement
  <2>2. todo' = {"data"} => listing' = "parallel" /\ Cardinality(listed') <= total' + torn'
    BY <1>f, <1>u, <2>1 DEF PagesInv, MissesAreFew
  <2>3. todo' = {} /\ total' <= page' * Limit =>
          Cardinality(Unseen') <= left' + (IF listing' = "parallel" THEN torn' ELSE 0)
    <3> SUFFICES ASSUME todo = {}, total <= page * Limit
                 PROVE  Cardinality(Unseen') <= left + (IF listing = "parallel" THEN torn ELSE 0)
      BY <1>u
    <3>1. Cardinality(Unseen) <= left + (IF listing = "parallel" THEN torn ELSE 0)
      BY DEF PagesInv, MissesAreFew
    <3>. QED  BY <1>f, <1>4, <1>5, <3>1
  <2>4. Cardinality(Passed') <= left'
    BY <1>f, <1>u, <1>4, <1>5 DEF PagesInv, MissesAreFew
  <2>. QED  BY <2>2, <2>3, <2>4 DEF MissesAreFew
<1>7. RepeatsAreFew'
  <2> SUFFICES ASSUME \A i \in Pages!Rows' : ~Pages!Tied(i)'
               PROVE  repeats + Cardinality(seen \cap data) + Cardinality(Returns') <= entered + 1
    BY <1>u DEF RepeatsAreFew
  <2>1. /\ IsFiniteSet(Returns) /\ IsFiniteSet(Returns')
        /\ Cardinality(Returns) \in Nat /\ Cardinality(Returns') \in Nat
        /\ Cardinality(seen \cap data) \in Nat
    <3>1. Returns \in SUBSET Pages!Rows /\ Returns' \in SUBSET Pages!Rows
          /\ seen \cap data \in SUBSET Pages!Rows
      BY <1>f, <1>b, PagesFacts DEF Returns
    <3>. QED  BY <3>1, PagesFacts
  <2>2. repeats + Cardinality(seen \cap data) + Cardinality(Returns) <= entered
    BY <1>1 DEF PagesInv, RepeatsAreFew
  <2>3. ASSUME NEW i \in Returns' \ Returns
        PROVE  /\ i \in Pages!Rows /\ i \in listed'
               /\ i # r => createdAt'[r] > createdAt'[i] /\ Rank(i)' = Boundary
               /\ Rank(i)' >= Boundary /\ Rank(i)' \in Nat
    <3>1. i \in Shown /\ i \in listed' /\ Rank(i)' >= Boundary /\ i \in Pages!Rows
      BY <1>f, <1>b DEF Returns
    <3>2. ASSUME i # r PROVE createdAt'[r] > createdAt'[i] /\ Rank(i)' = Boundary
      <4>1. i \in listed /\ Rank(i) < Boundary
        BY <1>u, <1>b, <1>2, <3>1, <3>2 DEF Returns
      <4>. QED  BY <1>b, <1>2, <3>1, <4>1
    <3>. QED  BY <1>2, <3>1, <3>2
  <2>l. /\ IsFiniteSet(listed') /\ \A j \in listed' : createdAt'[j] \in Int
        /\ listed' \subseteq Pages!Rows' /\ r \in listed'
    BY <1>f, <1>u, FS_AddElement
  <2>4. ASSUME NEW i \in Returns' \ Returns, NEW j \in Returns' \ Returns PROVE i = j
    <3>1. CASE i # r /\ j # r
      <4>1. createdAt'[i] = createdAt'[j]
        BY <2>3, <2>l, <3>1, RanksDiffer DEF Rank
      <4>. QED  BY <2>3, <2>l, <4>1 DEF Pages!Tied
    <3>2. ASSUME NEW k \in Returns' \ Returns, k # r, r \in Returns' \ Returns PROVE FALSE
      <4>1. Rank(r)' < Rank(k)'
        BY <2>3, <2>l, <3>2, RankIsStrict DEF Rank
      <4>. QED  BY <1>b, <2>3, <3>2, <4>1
    <3>. QED  BY <3>1, <3>2
  <2>5. Cardinality(Returns') <= Cardinality(Returns) + 1
    BY <2>1, <2>4, OneMore
  <2>. QED  BY <1>f, <2>1, <2>2, <2>5
<1>. QED  BY <1>6, <1>7

LEMMA RowLeaves ==
  ASSUME PagesInv, NEW r, Pages!Unmatch(r)
  PROVE  MissesAreFew' /\ RepeatsAreFew'
<1>f. /\ IsFiniteSet(listed) /\ listed \subseteq Pages!Rows /\ Shown \subseteq Pages!Rows
      /\ Cardinality(listed) \in Nat /\ throughout \subseteq listed
      /\ \A i \in Pages!Rows : createdAt[i] \in Int
      /\ Pages!Skip \in Nat /\ Limit \in Nat
      /\ total \in Nat /\ left \in Nat /\ entered \in Nat /\ repeats \in Nat /\ torn \in Nat
  <2>1. listed \in SUBSET Pages!Rows
    BY PagesFacts
  <2>. QED  BY <2>1, PagesFacts DEF Shown
<1>u. /\ UNCHANGED <<page, todo, data, total, seen, ended, repeats, listing, createdAt, entered, torn>>
      /\ r \in listed /\ listed' = listed \ {r} /\ throughout' = throughout \ {r} /\ left' = left + 1
  BY DEF Pages!Unmatch, Pages!client
<1>b. Boundary' = Boundary /\ Boundary \in Nat /\ Shown' = Shown
  BY <1>f, <1>u DEF Boundary, Pages!Skip, Shown
<1>1. \A i : Pages!Tied(i)' <=> Pages!Tied(i)
  BY <1>u DEF Pages!Tied, Pages!Rows
<1>2. \A i : /\ Rank(i)' \in Nat
             /\ Rank(i) = IF createdAt[r] > createdAt[i] THEN Rank(i)' + 1 ELSE Rank(i)'
  <2> TAKE i
  <2>1. IsFiniteSet(listed') /\ r \notin listed' /\ listed = listed' \cup {r}
    BY <1>f, <1>u, FS_RemoveElement
  <2>2. RankIn(listed' \cup {r}, createdAt, i)
          = IF createdAt[r] > createdAt[i]
              THEN RankIn(listed', createdAt, i) + 1 ELSE RankIn(listed', createdAt, i)
    BY <2>1, RankGrows
  <2>3. RankIn(listed', createdAt, i) \in Nat
    BY <2>1, RankIsNumber
  <2>. QED  BY <1>u, <2>1, <2>2, <2>3 DEF Rank
<1>3. /\ IsFiniteSet(Passed) /\ IsFiniteSet(Passed') /\ IsFiniteSet(Unseen) /\ IsFiniteSet(Returns)
      /\ Cardinality(Passed) \in Nat /\ Cardinality(Passed') \in Nat
      /\ Cardinality(Unseen) \in Nat /\ Cardinality(Returns) \in Nat
  <2>1. /\ Passed \in SUBSET Pages!Rows /\ Passed' \in SUBSET Pages!Rows
        /\ Unseen \in SUBSET Pages!Rows /\ Returns \in SUBSET Pages!Rows
    BY <1>f, <1>u DEF Passed, Unseen, Returns
  <2>. QED  BY <2>1, PagesFacts
<1>4. ASSUME NEW i \in Passed' \ Passed
      PROVE  i \in listed' /\ i \in Pages!Rows /\ ~Pages!Tied(i) /\ Rank(i)' = Boundary - 1
  <2>1. /\ i \in throughout \ Shown /\ i \in listed' /\ i \in Pages!Rows
        /\ ~Pages!Tied(i) /\ Rank(i)' < Boundary
    BY <1>f, <1>u, <1>b, <1>1 DEF Passed
  <2>2. ~(Rank(i) < Boundary)
    BY <2>1 DEF Passed
  <2>. QED  BY <1>b, <1>2, <2>1, <2>2
<1>5. ASSUME NEW i \in Passed' \ Passed, NEW j \in Passed' \ Passed PROVE i = j
  <2>1. IsFiniteSet(listed') /\ \A k \in listed' : createdAt'[k] \in Int
    BY <1>f, <1>u, FS_RemoveElement
  <2>2. createdAt'[i] = createdAt'[j]
    BY <1>4, <2>1, RanksDiffer DEF Rank
  <2>. QED  BY <1>u, <1>4, <2>2 DEF Pages!Tied
<1>6. Cardinality(Passed') <= Cardinality(Passed) + 1
  BY <1>3, <1>5, OneMore
<1>7. MissesAreFew'
  <2>1. Cardinality(listed') \in Nat /\ Cardinality(listed') <= Cardinality(listed)
    <3>1. IsFiniteSet(listed \ {r}) /\ Cardinality(listed \ {r}) = Cardinality(listed) - 1
      BY <1>f, <1>u, FS_RemoveElement
    <3>2. Cardinality(listed \ {r}) \in Nat
      BY <3>1, FS_CardinalityType
    <3>. QED  BY <1>f, <1>u, <3>1, <3>2
  <2>2. todo' = {"data"} => listing' = "parallel" /\ Cardinality(listed') <= total' + torn'
    BY <1>f, <1>u, <2>1 DEF PagesInv, MissesAreFew
  <2>3. todo' = {} /\ total' <= page' * Limit =>
          Cardinality(Unseen') <= left' + (IF listing' = "parallel" THEN torn' ELSE 0)
    <3> SUFFICES ASSUME todo = {}, total <= page * Limit
                 PROVE  Cardinality(Unseen') <= left + 1 + (IF listing = "parallel" THEN torn ELSE 0)
      BY <1>u
    <3>1. Cardinality(Unseen) <= left + (IF listing = "parallel" THEN torn ELSE 0)
      BY DEF PagesInv, MissesAreFew
    <3>2. Unseen' \subseteq Unseen
      BY <1>u, <1>b, <1>1 DEF Unseen
    <3>3. Cardinality(Unseen') <= Cardinality(Unseen) /\ Cardinality(Unseen') \in Nat
      BY <1>3, <3>2, FS_Subset, FS_CardinalityType
    <3>. QED  BY <1>f, <1>3, <3>1, <3>3
  <2>4. Cardinality(Passed') <= left'
    BY <1>f, <1>u, <1>3, <1>6 DEF PagesInv, MissesAreFew
  <2>. QED  BY <2>2, <2>3, <2>4 DEF MissesAreFew
<1>8. RepeatsAreFew'
  <2> SUFFICES ASSUME \A i \in Pages!Rows : ~Pages!Tied(i)
               PROVE  repeats + Cardinality(seen \cap data) + Cardinality(Returns') <= entered
    BY <1>u, <1>1 DEF RepeatsAreFew, Pages!Rows
  <2>1. repeats + Cardinality(seen \cap data) + Cardinality(Returns) <= entered
    BY DEF PagesInv, RepeatsAreFew
  <2>2. ASSUME NEW i \in Returns' PROVE i \in Returns
    <3>1. i \in Shown \cap listed /\ Rank(i)' >= Boundary
      BY <1>u, <1>b DEF Returns
    <3>2. Rank(i) >= Boundary
      BY <1>b, <1>2, <3>1
    <3>. QED  BY <3>1, <3>2 DEF Returns
  <2>3. Cardinality(Returns') <= Cardinality(Returns) /\ Cardinality(Returns') \in Nat
    BY <1>3, <2>2, FS_Subset, FS_CardinalityType
  <2>4. Cardinality(seen \cap data) \in Nat
    <3>1. seen \cap data \in SUBSET Pages!Rows
      BY PagesFacts
    <3>. QED  BY <3>1, PagesFacts
  <2>. QED  BY <1>f, <1>3, <2>1, <2>3, <2>4
<1>. QED  BY <1>7, <1>8

(***************************************************************************)
(* The client reads.                                                       *)
(***************************************************************************)
LEMMA PageIsRead ==
  ASSUME PagesInv, Pages!ReadData
  PROVE  MissesAreFew' /\ RepeatsAreFew'
<1>f. /\ IsFiniteSet(listed) /\ listed \subseteq Pages!Rows /\ seen \subseteq Pages!Rows
      /\ Cardinality(listed) \in Nat /\ throughout \subseteq listed
      /\ Pages!Skip \in Nat /\ Limit \in Nat /\ page * Limit = Pages!Skip + Limit
      /\ total \in Nat /\ left \in Nat /\ entered \in Nat /\ repeats \in Nat /\ torn \in Nat
  <2>1. listed \in SUBSET Pages!Rows
    BY PagesFacts
  <2>. QED  BY <2>1, PagesFacts
<1>u. /\ UNCHANGED <<page, total, seen, ended, repeats, listing, createdAt, listed, throughout,
                     left, entered, torn>>
      /\ "data" \in todo /\ todo' = todo \ {"data"}
  BY DEF Pages!ReadData, Pages!changes
<1>s. PICK S \in SUBSET listed : Pages!IsPage(S) /\ data' = S
  BY DEF Pages!ReadData
<1>b. /\ data = {} /\ Shown = seen /\ Boundary = Pages!Skip
      /\ Shown' = seen \cup S /\ Boundary' = Pages!Skip + Limit
  BY <1>f, <1>u, <1>s DEF PagesInv, PagesTyped, Boundary, Pages!Skip, Shown
<1>1. \A i : (Pages!Tied(i)' <=> Pages!Tied(i)) /\ Rank(i)' = Rank(i)
  BY <1>u DEF Pages!Tied, Pages!Rows, Rank
<1>2. \A i \in listed : ~Pages!Tied(i) =>
        /\ Rank(i) \in Nat
        /\ i \in S <=> Pages!Skip <= Rank(i) /\ Rank(i) < Pages!Skip + Limit
  BY <1>s, PageRanks
<1>3. Passed' \subseteq Passed
  <2> SUFFICES ASSUME NEW i \in Passed' PROVE i \in Passed
    OBVIOUS
  <2>1. /\ i \in throughout /\ i \notin seen /\ i \notin S /\ ~Pages!Tied(i)
        /\ Rank(i) < Pages!Skip + Limit /\ i \in listed
    BY <1>f, <1>u, <1>b, <1>1 DEF Passed
  <2>2. Rank(i) < Pages!Skip
    BY <1>f, <1>2, <2>1
  <2>. QED  BY <1>b, <2>1, <2>2 DEF Passed
<1>4. /\ IsFiniteSet(Passed) /\ IsFiniteSet(Unseen') /\ IsFiniteSet(Returns)
      /\ Cardinality(Passed) \in Nat /\ Cardinality(Unseen') \in Nat /\ Cardinality(Returns) \in Nat
  <2>1. Passed \in SUBSET Pages!Rows /\ Unseen' \in SUBSET Pages!Rows /\ Returns \in SUBSET Pages!Rows
    BY <1>f, <1>u DEF Passed, Unseen, Returns
  <2>. QED  BY <2>1, PagesFacts
<1>5. Cardinality(Passed') <= Cardinality(Passed) /\ Cardinality(Passed') \in Nat /\ IsFiniteSet(Passed')
  BY <1>3, <1>4, FS_Subset, FS_CardinalityType
<1>6. Cardinality(Passed) <= left
  BY DEF PagesInv, MissesAreFew
<1>7. ASSUME todo' = {}, total <= page * Limit
      PROVE  Cardinality(Unseen') <= left + (IF listing = "parallel" THEN torn ELSE 0)
  <2>1. todo = {"data"}
    BY <1>u, <1>7
  <2>2. listing = "parallel" /\ Cardinality(listed) <= total + torn
    BY <2>1 DEF PagesInv, MissesAreFew
  <2> DEFINE T == Unseen' \ Passed'
  <2>3. T \in SUBSET listed /\ T \in SUBSET Pages!Rows
    BY <1>f, <1>u DEF Unseen
  <2>4. \A i \in T : ~Pages!Tied(i) /\ Rank(i) >= Pages!Skip + Limit
    <3> TAKE i \in T
    <3>1. i \in throughout \ Shown' /\ ~Pages!Tied(i) /\ i \in listed
      BY <1>f, <1>u, <1>1 DEF Unseen
    <3>2. ~(Rank(i) < Pages!Skip + Limit)
      BY <1>u, <1>b, <1>1, <3>1 DEF Passed
    <3>3. Rank(i) \in Nat
      BY <1>2, <3>1
    <3>. QED  BY <1>f, <3>1, <3>2, <3>3
  <2>5. Cardinality(T) <= torn /\ IsFiniteSet(T) /\ Cardinality(T) \in Nat
    <3>0. IsFiniteSet(T) /\ Cardinality(T) \in Nat
      BY <2>3, PagesFacts
    <3>1. CASE T = {}
      BY <1>f, <3>0, <3>1, FS_EmptySet
    <3>2. CASE T # {}
      <4> HIDE DEF T
      <4>1. Cardinality(T) <= Cardinality(listed) - (Pages!Skip + Limit)
        BY <1>s, <2>3, <2>4, <3>2, PageRest
      <4>. QED  BY <1>f, <1>7, <2>2, <3>0, <4>1
    <3>. QED  BY <3>1, <3>2
  <2>6. Passed' \subseteq Unseen' /\ Unseen' = Passed' \cup T /\ Passed' \cap T = {}
    BY DEF Passed, Unseen
  <2> HIDE DEF T
  <2>7. Cardinality(Unseen') = Cardinality(Passed') + Cardinality(T) - Cardinality(Passed' \cap T)
    BY <1>5, <2>5, <2>6, FS_Union
  <2>8. Cardinality(Passed' \cap T) = 0
    BY <2>6, FS_EmptySet
  <2>. QED  BY <1>f, <1>4, <1>5, <1>6, <2>2, <2>5, <2>7, <2>8
<1>8. MissesAreFew'
  <2>1. todo' # {"data"}
    BY <1>u
  <2>2. Cardinality(Passed') <= left'
    BY <1>f, <1>u, <1>4, <1>5, <1>6
  <2>. QED  BY <1>u, <1>7, <2>1, <2>2 DEF MissesAreFew
<1>9. RepeatsAreFew'
  <2> SUFFICES ASSUME \A i \in Pages!Rows : ~Pages!Tied(i)
               PROVE  repeats + Cardinality(seen \cap S) + Cardinality(Returns') <= entered
    BY <1>u, <1>s, <1>1 DEF RepeatsAreFew, Pages!Rows
  <2>1. repeats + Cardinality(Returns) <= entered
    <3>1. repeats + Cardinality(seen \cap data) + Cardinality(Returns) <= entered
      BY DEF PagesInv, RepeatsAreFew
    <3>2. seen \cap data = {}
      BY <1>b
    <3>3. Cardinality(seen \cap data) = 0
      BY <3>2, FS_EmptySet
    <3>. QED  BY <1>f, <1>4, <3>1, <3>3
  <2>2. ASSUME NEW i \in seen \cap S PROVE i \in Returns /\ i \notin Returns'
    <3>1. i \in listed /\ ~Pages!Tied(i) /\ i \in Pages!Rows
      BY <1>f
    <3>2. Rank(i) \in Nat /\ Pages!Skip <= Rank(i) /\ Rank(i) < Pages!Skip + Limit
      BY <1>2, <3>1
    <3>3. i \in Returns
      BY <1>b, <3>1, <3>2 DEF Returns
    <3>4. ~(Rank(i)' >= Boundary')
      BY <1>f, <1>b, <1>1, <3>2
    <3>. QED  BY <3>3, <3>4 DEF Returns
  <2>3. ASSUME NEW i \in Returns' PROVE i \in Returns
    <3>1. i \in seen \cup S /\ i \in listed /\ Rank(i) >= Pages!Skip + Limit
      BY <1>u, <1>b, <1>1 DEF Returns
    <3>2. ~Pages!Tied(i)
      BY <1>f, <3>1
    <3>3. Rank(i) \in Nat /\ i \notin S
      BY <1>f, <1>2, <3>1, <3>2
    <3>4. Rank(i) >= Pages!Skip
      BY <1>f, <3>1, <3>3
    <3>. QED  BY <1>b, <3>1, <3>3, <3>4 DEF Returns
  <2>4. (seen \cap S) \cup Returns' \subseteq Returns /\ (seen \cap S) \cap Returns' = {}
    BY <2>2, <2>3
  <2>5. /\ IsFiniteSet(seen \cap S) /\ IsFiniteSet(Returns')
        /\ Cardinality(seen \cap S) \in Nat /\ Cardinality(Returns') \in Nat
    BY <1>4, <2>4, FS_Subset, FS_CardinalityType
  <2>6. Cardinality((seen \cap S) \cup Returns')
          = Cardinality(seen \cap S) + Cardinality(Returns') - Cardinality((seen \cap S) \cap Returns')
    BY <2>5, FS_Union
  <2>7. Cardinality((seen \cap S) \cap Returns') = 0
    BY <2>4, FS_EmptySet
  <2>8. Cardinality((seen \cap S) \cup Returns') <= Cardinality(Returns)
    BY <1>4, <2>4, FS_Subset
  <2>. QED  BY <1>f, <1>4, <2>1, <2>5, <2>6, <2>7, <2>8
<1>. QED  BY <1>8, <1>9

LEMMA TotalIsRead ==
  ASSUME PagesInv, Pages!ReadTotal
  PROVE  MissesAreFew' /\ RepeatsAreFew'
<1>f. /\ IsFiniteSet(listed) /\ listed \subseteq Pages!Rows
      /\ Cardinality(listed) \in Nat /\ throughout \subseteq listed
      /\ \A i \in Pages!Rows : createdAt[i] \in Int
      /\ Pages!Skip \in Nat /\ Limit \in Nat /\ page * Limit = Pages!Skip + Limit
      /\ left \in Nat /\ torn \in Nat
  <2>1. listed \in SUBSET Pages!Rows
    BY PagesFacts
  <2>. QED  BY <2>1, PagesFacts
<1>u. /\ UNCHANGED <<page, data, seen, ended, repeats, listing, createdAt, listed, throughout,
                     left, entered, torn>>
      /\ "total" \in todo /\ Pages!MayCount /\ todo' = todo \ {"total"}
      /\ total' = Cardinality(listed)
  BY PagesCardinality DEF Pages!ReadTotal, Pages!changes
<1>b. /\ "data" \in todo' <=> "data" \in todo
      /\ Shown' = Shown /\ Boundary' = Boundary /\ Pages!Rows' = Pages!Rows
  BY <1>u DEF Boundary, Pages!Skip, Shown, Pages!Rows
<1>1. \A i : (Pages!Tied(i)' <=> Pages!Tied(i)) /\ Rank(i)' = Rank(i)
  BY <1>u DEF Pages!Tied, Pages!Rows, Rank
<1>2. Passed' = Passed /\ Unseen' = Unseen /\ Returns' = Returns
  BY <1>u, <1>b, <1>1 DEF Passed, Unseen, Returns
<1>3. ASSUME todo' = {}, total' <= page * Limit
      PROVE  Cardinality(Unseen') <= left + (IF listing = "parallel" THEN torn ELSE 0)
  <2>1. Boundary = page * Limit
    BY <1>f, <1>u, <1>3 DEF Boundary
  <2>2. ASSUME NEW i \in Unseen PROVE i \in Passed
    <3>1. i \in listed /\ \A j \in listed : createdAt[j] \in Int
      BY <1>f DEF Unseen
    <3>2. Rank(i) < Cardinality(listed) /\ Rank(i) \in Nat
      BY <1>f, <3>1, RankIsSmall, RankIsNumber DEF Rank
    <3>3. Rank(i) < Boundary
      BY <1>f, <1>u, <1>3, <2>1, <3>2
    <3>. QED  BY <3>3 DEF Unseen, Passed
  <2>3. Unseen = Passed
    BY <2>2 DEF Unseen, Passed
  <2>4. Cardinality(Unseen) <= left /\ Cardinality(Unseen) \in Nat
    <3>1. Unseen \in SUBSET Pages!Rows
      BY <1>f DEF Unseen
    <3>. QED  BY <2>3, <3>1, PagesFacts DEF PagesInv, MissesAreFew
  <2>. QED  BY <1>f, <1>2, <2>4
<1>4. ASSUME todo' = {"data"}
      PROVE  listing' = "parallel" /\ Cardinality(listed') <= total' + torn'
  <2>1. "data" \in todo
    BY <1>4, <1>b
  <2>. QED  BY <1>f, <1>u, <2>1 DEF Pages!MayCount
<1>5. MissesAreFew'
  BY <1>u, <1>2, <1>3, <1>4 DEF MissesAreFew, PagesInv
<1>6. RepeatsAreFew'
  BY <1>u, <1>b, <1>1, <1>2 DEF RepeatsAreFew, PagesInv
<1>. QED  BY <1>5, <1>6

LEMMA PageIsAnswered ==
  ASSUME PagesInv, Pages!Answer
  PROVE  MissesAreFew' /\ RepeatsAreFew'
<1>f. /\ seen \subseteq Pages!Rows /\ Cardinality(seen \cap data) \in Nat
      /\ Pages!Skip \in Nat /\ Limit \in Nat /\ page * Limit = Pages!Skip + Limit
      /\ total \in Nat /\ left \in Nat /\ repeats \in Nat /\ torn \in Nat /\ page \in Nat
  <2>1. seen \cap data \in SUBSET Pages!Rows
    BY PagesFacts
  <2>. QED  BY <2>1, PagesFacts
<1>u. /\ UNCHANGED <<listing, createdAt, listed, throughout, left, entered, torn>>
      /\ todo = {} /\ seen' = seen \cup data /\ data' = {} /\ total' = 0
      /\ repeats' = repeats + Cardinality(seen \cap data)
  BY PagesCardinality DEF Pages!Answer, Pages!changes
<1>n. \/ page * Limit < total /\ page' = page + 1 /\ todo' = {"data", "total"}
      \/ ~(page * Limit < total) /\ page' = page /\ todo' = todo
  BY DEF Pages!Answer
<1>b. Shown' = Shown /\ Boundary' = Boundary /\ Pages!Rows' = Pages!Rows
  <2>1. Shown' = Shown /\ Pages!Rows' = Pages!Rows
    BY <1>u DEF Shown, Pages!Rows
  <2>2. Boundary = Pages!Skip + Limit
    BY <1>u DEF Boundary
  <2>3. CASE page' = page + 1 /\ todo' = {"data", "total"}
    <3>1. Pages!Skip' = page * Limit
      BY <1>f, <2>3 DEF Pages!Skip
    <3>2. Boundary' = Pages!Skip' + 0
      BY <2>3 DEF Boundary
    <3>. QED  BY <1>f, <2>1, <2>2, <3>1, <3>2
  <2>4. CASE page' = page /\ todo' = todo
    BY <2>1, <2>4 DEF Boundary, Pages!Skip
  <2>. QED  BY <1>n, <2>3, <2>4
<1>1. \A i : (Pages!Tied(i)' <=> Pages!Tied(i)) /\ Rank(i)' = Rank(i)
  BY <1>u DEF Pages!Tied, Pages!Rows, Rank
<1>2. Passed' = Passed /\ Unseen' = Unseen /\ Returns' = Returns
  BY <1>u, <1>b, <1>1 DEF Passed, Unseen, Returns
<1>3. ASSUME todo' = {}
      PROVE  Cardinality(Unseen') <= left + (IF listing = "parallel" THEN torn ELSE 0)
  <2>1. total <= page * Limit
    BY <1>f, <1>n, <1>3
  <2>. QED  BY <1>u, <1>2, <2>1 DEF PagesInv, MissesAreFew
<1>4. MissesAreFew'
  <2>1. todo' # {"data"}
    BY <1>u, <1>n
  <2>. QED  BY <1>u, <1>2, <1>3, <2>1 DEF MissesAreFew, PagesInv
<1>5. RepeatsAreFew'
  <2>1. Cardinality(seen' \cap data') = 0
    BY <1>u, FS_EmptySet
  <2>2. Returns \in SUBSET Pages!Rows
    <3>1. listed \subseteq Pages!Rows
      BY PagesFacts
    <3>. QED  BY <3>1 DEF Returns
  <2>3. Cardinality(Returns) \in Nat
    BY <2>2, PagesFacts
  <2>. QED  BY <1>f, <1>u, <1>b, <1>1, <1>2, <2>1, <2>3 DEF RepeatsAreFew, PagesInv
<1>. QED  BY <1>4, <1>5

(***************************************************************************)
(* The inductive invariant of Listings.                                    *)
(***************************************************************************)
PagesShape == Pages!TypeOK /\ PagesTyped

\* A row that comes keeps the variables' types, if the creation times keep theirs.
LEMMA ListsTyped ==
  ASSUME PagesInv, NEW r \in Pages!Rows', Pages!Lists(r), Pages!Rows \subseteq Pages!Rows',
         \E n \in 0..MaxRows : createdAt' \in [1..n -> 0..MaxRows],
         \A i \in Pages!Rows' : createdAt'[i] <= i - 1
  PROVE  PagesShape'
<1>u. /\ UNCHANGED <<listing, page, todo, data, total, seen, ended, repeats, throughout, left>>
      /\ ~ended /\ listed' = listed \cup {r} /\ entered' = entered + 1
      /\ torn' = IF todo = {"data"} THEN torn + 1 ELSE torn
  BY DEF Pages!Lists, Pages!client
<1>1. PagesTyped'
  BY <1>u DEF PagesInv, PagesTyped
<1>2. createdAt' \in UNION {[1..n -> 0..MaxRows] : n \in 0..MaxRows}
  OBVIOUS
<1>3. /\ listed' \subseteq Pages!Rows' /\ data' \subseteq Pages!Rows' /\ seen' \subseteq Pages!Rows'
      /\ throughout' \subseteq listed'
  BY <1>u, PagesFacts
<1>4. torn' \in 0..entered' /\ entered' \in Nat
  BY <1>u DEF PagesInv, Pages!TypeOK
<1>5. /\ listing' \in {"parallel", "awaited"} /\ page' \in Nat \ {0} /\ todo' \subseteq {"data", "total"}
      /\ total' \in 0..MaxRows /\ ended' \in BOOLEAN /\ repeats' \in Nat /\ left' \in Nat
  BY <1>u DEF PagesInv, Pages!TypeOK
<1>. QED  BY <1>1, <1>2, <1>3, <1>4, <1>5 DEF PagesShape, Pages!TypeOK

LEMMA PagesStep == PagesInv /\ [Pages!Next]_pageVars => PagesInv'
<1> SUFFICES ASSUME PagesInv, [Pages!Next]_pageVars PROVE PagesInv'
  OBVIOUS
<1>t. /\ listing \in {"parallel", "awaited"} /\ page \in Nat \ {0} /\ todo \subseteq {"data", "total"}
      /\ total \in 0..MaxRows /\ ended \in BOOLEAN /\ repeats \in Nat /\ left \in Nat
      /\ entered \in Nat /\ torn \in 0..entered /\ MaxRows \in Nat
      /\ createdAt \in UNION {[1..n -> 0..MaxRows] : n \in 0..MaxRows}
      /\ listed \subseteq Pages!Rows /\ data \subseteq Pages!Rows /\ seen \subseteq Pages!Rows
      /\ throughout \subseteq listed
  BY PagesFacts DEF PagesInv, Pages!TypeOK
<1>i. \A i \in Pages!Rows : createdAt[i] \in 0..MaxRows /\ createdAt[i] <= i - 1
  BY PagesFacts DEF PagesInv, PagesTyped
<1>e. PagesTyped
  BY DEF PagesInv
<1>1. CASE Pages!CreateRow
  <2> DEFINE r == Cardinality(Pages!Rows) + 1
  <2>1. Cardinality(Pages!Rows) < MaxRows
    BY <1>1, PagesCardinality DEF Pages!CreateRow
  <2>2. PICK t \in Pages!TimesOf(r, createdAt) :
          createdAt' = [i \in 1..r |-> IF i = r THEN t ELSE createdAt[i]]
    BY <1>1, PagesCardinality DEF Pages!CreateRow
  <2>3. Pages!Lists(r)
    BY <1>1, PagesCardinality DEF Pages!CreateRow
  <2>4. r \in Nat /\ r \in 1..MaxRows /\ Pages!Rows = 1..(r - 1)
    <3>1. Cardinality(Pages!Rows) \in Nat /\ Pages!Rows = 1..Cardinality(Pages!Rows)
      BY <1>t, PagesFacts
    <3>2. r - 1 = Cardinality(Pages!Rows)
      BY <3>1
    <3>. QED  BY <1>t, <2>1, <3>1, <3>2
  <2> HIDE DEF r
  <2>5. t \in 0..MaxRows /\ t <= r - 1
    <3>1. CASE r = 1
      BY <1>t, <2>2, <2>4, <3>1 DEF Pages!TimesOf
    <3>2. CASE r # 1
      <4>1. r - 1 \in Pages!Rows
        BY <2>4, <3>2
      <4>2. createdAt[r - 1] \in Nat /\ createdAt[r - 1] <= r - 2
        BY <1>i, <2>4, <4>1
      <4>3. t = createdAt[r - 1] \/ t = createdAt[r - 1] + 1
        BY <2>2, <3>2 DEF Pages!TimesOf
      <4>. QED  BY <1>t, <2>4, <4>2, <4>3
    <3>. QED  BY <3>1, <3>2
  <2>6. \A i \in 1..r : i # r => i \in Pages!Rows
    BY <2>4
  <2>7. createdAt' \in [1..r -> 0..MaxRows] /\ Pages!Rows' = 1..r
    BY <1>i, <2>2, <2>5, <2>6 DEF Pages!Rows
  <2>8. \A i \in Pages!Rows' : createdAt'[i] <= i - 1 /\ createdAt'[i] \in Int
    <3> TAKE i \in Pages!Rows'
    <3>1. CASE i = r
      BY <2>2, <2>5, <2>7, <3>1
    <3>2. CASE i # r
      <4>1. createdAt'[i] = createdAt[i] /\ i \in Pages!Rows
        BY <2>2, <2>6, <2>7, <3>2
      <4>. QED  BY <1>i, <4>1
    <3>. QED  BY <3>1, <3>2
  <2>9. \A i \in Pages!Rows : i \in 1..r /\ i # r
    BY <2>4
  <2>10. /\ Pages!Rows \subseteq Pages!Rows' /\ r \in Pages!Rows' /\ r \notin listed
         /\ \A i \in Pages!Rows : createdAt'[i] = createdAt[i]
    BY <1>t, <2>2, <2>4, <2>7, <2>9
  <2>11. PagesShape'
    <3>1. \E n \in 0..MaxRows : createdAt' \in [1..n -> 0..MaxRows]
      BY <2>4, <2>7
    <3>. QED  BY <2>3, <2>8, <2>10, <3>1, ListsTyped
  <2>12. MissesAreFew' /\ RepeatsAreFew'
    BY <2>3, <2>8, <2>10, RowComes
  <2>. QED  BY <2>11, <2>12 DEF PagesInv, PagesShape
<1>2. ASSUME NEW r \in 1..MaxRows, Pages!Match(r) PROVE PagesInv'
  <2>1. /\ r \in Pages!Rows' /\ r \notin listed /\ Pages!Lists(r)
        /\ createdAt' = createdAt /\ Pages!Rows' = Pages!Rows
    BY <1>2 DEF Pages!Match, Pages!Rows
  <2>2. /\ \E n \in 0..MaxRows : createdAt' \in [1..n -> 0..MaxRows]
        /\ \A i \in Pages!Rows' : createdAt'[i] <= i - 1
    BY <1>e, <2>1 DEF PagesTyped
  <2>3. PagesShape'
    BY <2>1, <2>2, ListsTyped
  <2>4. \A i \in Pages!Rows' : createdAt'[i] \in Int
    BY <1>i, <2>1
  <2>5. MissesAreFew' /\ RepeatsAreFew'
    BY <2>1, <2>4, RowComes
  <2>. QED  BY <2>3, <2>5 DEF PagesInv, PagesShape
<1>3. ASSUME NEW r \in 1..MaxRows, Pages!Unmatch(r) PROVE PagesInv'
  <2>1. /\ UNCHANGED <<page, todo, data, total, seen, ended, repeats, listing, createdAt, entered, torn>>
        /\ listed' = listed \ {r} /\ throughout' = throughout \ {r} /\ left' = left + 1
        /\ Pages!Rows' = Pages!Rows
    BY <1>3 DEF Pages!Unmatch, Pages!client, Pages!Rows
  <2>2. PagesTyped'
    BY <1>e, <2>1 DEF PagesTyped
  <2>3. Pages!TypeOK'
    BY <1>t, <2>1 DEF Pages!TypeOK
  <2>4. MissesAreFew' /\ RepeatsAreFew'
    BY <1>3, RowLeaves
  <2>. QED  BY <2>2, <2>3, <2>4 DEF PagesInv
<1>4. CASE Pages!ReadData
  <2>1. /\ UNCHANGED <<page, total, seen, ended, repeats, listing, createdAt, listed, throughout,
                       left, entered, torn>>
        /\ "data" \in todo /\ todo' = todo \ {"data"} /\ Pages!Rows' = Pages!Rows
        /\ data' \subseteq listed
    BY <1>4 DEF Pages!ReadData, Pages!changes, Pages!Rows
  <2>2. PagesTyped'
    BY <1>e, <2>1 DEF PagesTyped
  <2>3. Pages!TypeOK'
    BY <1>t, <2>1 DEF Pages!TypeOK
  <2>4. MissesAreFew' /\ RepeatsAreFew'
    BY <1>4, PageIsRead
  <2>. QED  BY <2>2, <2>3, <2>4 DEF PagesInv
<1>5. CASE Pages!ReadTotal
  <2>1. /\ UNCHANGED <<page, data, seen, ended, repeats, listing, createdAt, listed, throughout,
                       left, entered, torn>>
        /\ "total" \in todo /\ todo' = todo \ {"total"} /\ Pages!Rows' = Pages!Rows
        /\ total' = Cardinality(listed)
    BY <1>5, PagesCardinality DEF Pages!ReadTotal, Pages!changes, Pages!Rows
  <2>2. PagesTyped'
    BY <1>e, <2>1 DEF PagesTyped
  <2>3. total' \in 0..MaxRows
    <3>1. listed \in SUBSET Pages!Rows
      BY <1>t
    <3>2. Cardinality(listed) \in Nat /\ Cardinality(listed) <= MaxRows
      BY <3>1, PagesFacts
    <3>. QED  BY <1>t, <2>1, <3>2
  <2>4. Pages!TypeOK'
    BY <1>t, <2>1, <2>3 DEF Pages!TypeOK
  <2>5. MissesAreFew' /\ RepeatsAreFew'
    BY <1>5, TotalIsRead
  <2>. QED  BY <2>2, <2>4, <2>5 DEF PagesInv
<1>6. CASE Pages!Answer
  <2>1. /\ UNCHANGED <<listing, createdAt, listed, throughout, left, entered, torn>>
        /\ todo = {} /\ ~ended /\ seen' = seen \cup data /\ data' = {} /\ total' = 0
        /\ repeats' = repeats + Cardinality(seen \cap data) /\ Pages!Rows' = Pages!Rows
    BY <1>6, PagesCardinality DEF Pages!Answer, Pages!changes, Pages!Rows
  <2>2. \/ page' = page + 1 /\ todo' = {"data", "total"} /\ ended' = ended
        \/ page' = page /\ todo' = {} /\ ended' = TRUE
    BY <1>6, <2>1 DEF Pages!Answer
  <2>3. PagesTyped'
    BY <1>e, <2>1, <2>2 DEF PagesTyped
  <2>4. repeats' \in Nat
    <3>1. seen \cap data \in SUBSET Pages!Rows
      BY <1>t
    <3>2. Cardinality(seen \cap data) \in Nat
      BY <3>1, PagesFacts
    <3>. QED  BY <1>t, <2>1, <3>2
  <2>5. page' \in Nat \ {0} /\ todo' \subseteq {"data", "total"}
    BY <1>t, <2>2
  <2>6. ended' \in BOOLEAN
    BY <1>t, <2>2
  <2>7. total' \in 0..MaxRows
    BY <1>t, <2>1
  <2>8. Pages!TypeOK'
    BY <1>t, <2>1, <2>4, <2>5, <2>6, <2>7 DEF Pages!TypeOK
  <2>9. MissesAreFew' /\ RepeatsAreFew'
    BY <1>6, PageIsAnswered
  <2>. QED  BY <2>3, <2>8, <2>9 DEF PagesInv
<1>7. CASE UNCHANGED pageVars
  <2>1. /\ UNCHANGED <<page, todo, data, total, seen, ended, repeats, listing, createdAt, listed,
                       throughout, left, entered, torn>>
        /\ Pages!Rows' = Pages!Rows
    BY <1>7 DEF pageVars, Pages!Rows
  <2>2. Pages!TypeOK'
    BY <1>t, <2>1 DEF Pages!TypeOK
  <2>3. PagesTyped'
    BY <1>e, <2>1 DEF PagesTyped
  <2>4. Shown' = Shown /\ Boundary' = Boundary
    BY <2>1 DEF Shown, Boundary, Pages!Skip
  <2>5. \A i : (Pages!Tied(i)' <=> Pages!Tied(i)) /\ Rank(i)' = Rank(i)
    BY <2>1 DEF Pages!Tied, Rank
  <2>6. Passed' = Passed /\ Unseen' = Unseen /\ Returns' = Returns
    BY <2>1, <2>4, <2>5 DEF Passed, Unseen, Returns
  <2>7. MissesAreFew'
    BY <2>1, <2>6 DEF PagesInv, MissesAreFew
  <2>8. RepeatsAreFew'
    BY <2>1, <2>5, <2>6 DEF PagesInv, RepeatsAreFew
  <2>. QED  BY <2>2, <2>3, <2>7, <2>8 DEF PagesInv
<1>. QED  BY <1>1, <1>2, <1>3, <1>4, <1>5, <1>6, <1>7 DEF Pages!Next

LEMMA PagesInit == Pages!Init => PagesInv
<1> SUFFICES ASSUME Pages!Init PROVE PagesInv
  OBVIOUS
<1>1. PICK n \in 0..MaxRows : createdAt \in [1..n -> 0..MaxRows]
  BY DEF Pages!Init, Pages!Histories
<1>2. MaxRows \in Nat /\ Limit \in Nat
  BY PageBounds DEF Pages!ListingAssumption
<1>3. Pages!Rows = 1..n /\ \A r \in 1..n : createdAt[r] \in Pages!TimesOf(r, createdAt)
  BY <1>1 DEF Pages!Init, Pages!Histories, Pages!Rows
<1>4. \A r \in Pages!Rows : createdAt[r] <= r - 1
  <2> DEFINE T == {k \in Nat : k + 1 \in 1..n => createdAt[k + 1] <= k}
  <2>1. 0 \in T
    <3>1. ASSUME 1 \in 1..n PROVE createdAt[1] = 0
      BY <1>3, <3>1 DEF Pages!TimesOf
    <3>. QED  BY <3>1
  <2>2. ASSUME NEW k \in Nat, k \in T PROVE k + 1 \in T
    <3> SUFFICES ASSUME (k + 1) + 1 \in 1..n PROVE createdAt[(k + 1) + 1] <= k + 1
      OBVIOUS
    <3>1. k + 1 \in 1..n /\ createdAt[k + 1] \in Nat
      BY <1>1, <1>2
    <3>2. createdAt[k + 1] <= k
      BY <2>2, <3>1
    <3>3. (k + 1) + 1 # 1 /\ ((k + 1) + 1) - 1 = k + 1
      OBVIOUS
    <3>4. createdAt[(k + 1) + 1] \in {createdAt[k + 1], createdAt[k + 1] + 1}
      BY <1>3, <3>3 DEF Pages!TimesOf
    <3>. QED  BY <3>1, <3>2, <3>4
  <2>3. Nat \subseteq T
    <3> HIDE DEF T
    <3>. QED  BY <2>1, <2>2, NatSetInduction
  <2>4. ASSUME NEW r \in 1..n PROVE createdAt[r] <= r - 1
    <3>1. r - 1 \in Nat /\ (r - 1) + 1 = r
      BY <1>2
    <3>2. r - 1 \in T
      BY <2>3, <3>1
    <3>. QED  BY <3>1, <3>2
  <2>. QED  BY <1>3, <2>4
<1>5. /\ listing \in {"parallel", "awaited"} /\ listed \subseteq Pages!Rows /\ page = 1
      /\ todo = {"data", "total"} /\ data = {} /\ total = 0 /\ seen = {} /\ ended = FALSE
      /\ throughout = listed /\ repeats = 0 /\ entered = 0 /\ left = 0 /\ torn = 0
  BY DEF Pages!Init
<1>6. Pages!TypeOK
  <2>1. createdAt \in UNION {[1..m -> 0..MaxRows] : m \in 0..MaxRows}
    BY <1>1
  <2>2. ended \in BOOLEAN
    BY <1>5
  <2>3. /\ page \in Nat \ {0} /\ total \in 0..MaxRows /\ repeats \in Nat /\ entered \in Nat
        /\ left \in Nat /\ torn \in 0..entered
    BY <1>2, <1>5
  <2>4. /\ listing \in {"parallel", "awaited"} /\ todo \subseteq {"data", "total"}
        /\ data \subseteq Pages!Rows /\ seen \subseteq Pages!Rows /\ throughout \subseteq listed
    BY <1>5
  <2>. QED  BY <1>5, <2>1, <2>2, <2>3, <2>4 DEF Pages!TypeOK
<1>7. PagesTyped
  BY <1>1, <1>4, <1>5 DEF PagesTyped
<1>8. Boundary = 0
  BY <1>2, <1>5 DEF Boundary, Pages!Skip
<1>9. IsFiniteSet(listed)
  <2>1. IsFiniteSet(1..n)
    BY <1>2, FS_Interval
  <2>. QED  BY <1>3, <1>5, <2>1, FS_Subset
<1>10. Passed = {}
  <2>1. \A i : Rank(i) \in Nat
    BY <1>9, RankIsNumber DEF Rank
  <2>. QED  BY <1>8, <2>1 DEF Passed
<1>11. Returns = {} /\ seen \cap data = {}
  BY <1>5 DEF Returns, Shown
<1>12. Cardinality(Passed) = 0 /\ Cardinality(Returns) = 0 /\ Cardinality(seen \cap data) = 0
  BY <1>10, <1>11, FS_EmptySet
<1>13. MissesAreFew
  BY <1>5, <1>12 DEF MissesAreFew
<1>14. RepeatsAreFew
  BY <1>5, <1>12 DEF RepeatsAreFew
<1>. QED  BY <1>6, <1>7, <1>13, <1>14 DEF PagesInv

\* What the runs check follows.
LEMMA PagesExplained == PagesInv => Pages!MissedAreExplained /\ Pages!RepeatsAreExplained
<1> SUFFICES ASSUME PagesInv PROVE Pages!MissedAreExplained /\ Pages!RepeatsAreExplained
  OBVIOUS
<1>1. Pages!MissedAreExplained
  <2> SUFFICES ASSUME ended
               PROVE  Cardinality({r \in throughout \ seen : ~Pages!Tied(r)})
                        <= left + (IF listing = "parallel" THEN torn ELSE 0)
    BY PagesCardinality DEF Pages!MissedAreExplained
  <2>1. todo = {} /\ data = {} /\ total = 0
    BY DEF PagesInv, PagesTyped
  <2>2. total <= page * Limit
    BY <2>1, PagesFacts
  <2>3. Unseen = {r \in throughout \ seen : ~Pages!Tied(r)}
    BY <2>1 DEF Unseen, Shown
  <2>. QED  BY <2>1, <2>2, <2>3 DEF PagesInv, MissesAreFew
<1>2. Pages!RepeatsAreExplained
  <2> SUFFICES ASSUME \A r \in Pages!Rows : ~Pages!Tied(r) PROVE repeats <= entered
    BY DEF Pages!RepeatsAreExplained
  <2>1. repeats + Cardinality(seen \cap data) + Cardinality(Returns) <= entered
    BY DEF PagesInv, RepeatsAreFew
  <2>2. listed \subseteq Pages!Rows /\ seen \subseteq Pages!Rows
    BY PagesFacts
  <2>3. seen \cap data \in SUBSET Pages!Rows /\ Returns \in SUBSET Pages!Rows
    BY <2>2 DEF Returns
  <2>4. Cardinality(seen \cap data) \in Nat /\ Cardinality(Returns) \in Nat
    BY <2>3, PagesFacts
  <2>5. repeats \in Nat /\ entered \in Nat
    BY PagesFacts
  <2>. QED  BY <2>1, <2>4, <2>5
<1>. QED  BY <1>1, <1>2

(***************************************************************************)
(* The four parts together.                                                *)
(***************************************************************************)
LEMMA OnePartWorks ==
  [Next]_vars => /\ [Contract!Next]_contractVars /\ [Rates!Next]_rateVars
                 /\ [Feed!Next]_feedVars /\ [Pages!Next]_pageVars
BY DEF Next, vars

CachesInv == ContractInv /\ RatesInv /\ FeedInv /\ PagesInv

LEMMA CachesAlways == Init /\ [][Next]_vars => []CachesInv
<1>1. Init => CachesInv
  BY ContractInit, RatesInit, FeedInit, PagesInit DEF Init, CachesInv
<1>2. CachesInv /\ [Next]_vars => CachesInv'
  BY OnePartWorks, ContractStep, RatesStep, FeedStep, PagesStep DEF CachesInv
<1>. QED  BY <1>1, <1>2, PTL

LEMMA CachesInvariant == Spec => []CachesInv
BY CachesAlways, PTL DEF Spec

\* The variables of the four parts keep their types.
THEOREM TypeCorrect == Spec => []TypeOK
<1>1. CachesInv => TypeOK
  BY ContractAnswers DEF CachesInv, RatesInv, FeedInv, PagesInv, TypeOK
<1>. QED  BY CachesInvariant, <1>1, PTL

\* The cached contract reads and getExchangeRates: no answer is older than the lifetimes
\* it was kept for and the time its read took.
THEOREM AnswersStayRecent == Spec => []AnswersAreRecent
<1>1. CachesInv => AnswersAreRecent
  BY ContractAnswers, RatesAnswers DEF CachesInv, RatesInv, AnswersAreRecent
<1>. QED  BY CachesInvariant, <1>1, PTL

\* registerUserToLiquidity, addSupportedToken: only a read that raced with a deletion
\* brings back what it deleted.
THEOREM DeletionsLast == Spec => []WriteSeenUnlessRaced
<1>1. CachesInv => WriteSeenUnlessRaced
  BY ContractAnswers DEF CachesInv, WriteSeenUnlessRaced
<1>. QED  BY CachesInvariant, <1>1, PTL

\* PragmaService: at no time are there two sockets that live, nor a socket and the timer
\* of the next.
THEOREM SubscriptionIsOne == Spec => []OneSubscription
<1>1. CachesInv => OneSubscription
  BY FeedLives DEF CachesInv, OneSubscription
<1>. QED  BY CachesInvariant, <1>1, PTL

\* connect: a socket that closes is followed by the next, if timers fire and closing
\* handshakes end.
LEMMA SocketIsFollowed ==
  ASSUME NEW s \in Feed!Sockets \ {MaxSockets}
  PROVE  Init /\ [][Next]_vars /\ Feed!TimerFires /\ Feed!ClosingEnds(s) /\ []FeedIsEnabled
         => Feed!TakenUp(s)
<1>1. FeedInv /\ [Next]_vars /\ state[s] = "closing"
        => (state[s] = "closing")' \/ (state[s] = "closed")'
  BY OnePartWorks, FeedCloses
<1>2. FeedInv /\ [Next]_vars /\ state[s] = "closing" /\ <<Feed!Closing(s)>>_(Feed!vars)
        => (state[s] = "closed")'
  BY OnePartWorks, FeedCloses
<1>3. FeedIsEnabled /\ state[s] = "closing" => ENABLED <<Feed!Closing(s)>>_(Feed!vars)
  BY DEF FeedIsEnabled
<1>4. state[s] = "closed" => WaitsAt(s) \/ state[s + 1] # "none"
  BY DEF WaitsAt
<1>5. FeedInv /\ [Next]_vars /\ WaitsAt(s) => WaitsAt(s)' \/ (state[s + 1] # "none")'
  BY OnePartWorks, FeedReconnects
<1>6. FeedInv /\ [Next]_vars /\ WaitsAt(s) /\ <<Feed!Reconnect>>_(Feed!vars)
        => (state[s + 1] # "none")'
  BY OnePartWorks, FeedReconnects
<1>7. FeedInv /\ FeedIsEnabled /\ WaitsAt(s) => ENABLED <<Feed!Reconnect>>_(Feed!vars)
  <2>1. FeedInv /\ WaitsAt(s) => timers > 0 /\ opened < MaxSockets
    BY FeedWaits
  <2>. QED  BY <2>1 DEF FeedIsEnabled
<1>8. CachesInv => FeedInv
  BY DEF CachesInv
<1>. QED
  BY <1>1, <1>2, <1>3, <1>4, <1>5, <1>6, <1>7, <1>8, CachesAlways, PTL
     DEF Feed!TimerFires, Feed!ClosingEnds, Feed!TakenUp

\* PragmaService: a subscription that broke is taken up again, by the next socket of
\* any number.
THEOREM SubscriptionIsTakenUp == Spec /\ []FeedIsEnabled => Resubscribes
BY SocketIsFollowed, Zenon DEF Spec, Feed!Fairness, Feed!Resubscribes, Resubscribes

\* findAll and its like: a client that reads to the last page missed no more untied rows
\* than left or came in between two statements, and met no more twice than came.
THEOREM PagesStayExplained == Spec => []PagesAreExplained
<1>1. CachesInv => PagesAreExplained
  BY PagesExplained DEF CachesInv, PagesAreExplained
<1>. QED  BY CachesInvariant, <1>1, PTL

=============================================================================
