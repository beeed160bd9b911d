---------------------------- MODULE ContractCache ----------------------------
(***************************************************************************)
(* The cached reads of the liquidity contract (registration, price, fee,   *)
(* fiat balance, supported token) and the calls of the server that change  *)
(* what they read.                                                         *)
(*                                                                         *)
(* What the contract would answer for a key is a version number that every *)
(* change raises.  A read looks in the cache, asks the contract on a miss  *)
(* and stores the answer with a lifetime; a registration or an addition of *)
(* a supported token waits for its transaction and deletes the entry.      *)
(* Other changes (swaps, the owner's calls, prices) delete nothing.        *)
(***************************************************************************)
EXTENDS Integers, Sequences

CONSTANTS
    Keys,          \* cache keys: one per method and argument
    TTL,           \* lifetime of a key's entry
    WriterKeys,    \* keys whose answer the server's own calls change
    Readers, Writers,
    MaxLatency,    \* a read takes at most so long from miss to store
    MaxTime, MaxVersion, MaxRestarts   \* bounds

CacheAssumption ==
    /\ TTL \in [Keys -> Nat \ {0}]
    /\ WriterKeys \subseteq Keys
    /\ MaxLatency \in Nat /\ MaxTime \in Nat /\ MaxVersion \in Nat /\ MaxRestarts \in Nat

VARIABLES
    clock,
    current,       \* version of the contract's answer
    replaced,      \* per key: when each version was replaced, oldest first
    entry,         \* the cached version and when it expires
    reader, writer,
    invalidated,   \* history: the latest version whose writer deleted the entry
    raced,         \* history: keys deleted while a reader held an older answer
    restarts

vars == <<clock, current, replaced, entry, reader, writer, invalidated, raced, restarts>>

NoEntry  == [version |-> -1, expires |-> 0]
NoReader == [pc |-> "idle", version |-> -1, began |-> 0]
NoWriter == [pc |-> "idle", version |-> -1]

Live(k) == entry[k].version >= 0 /\ clock < entry[k].expires

TypeOK ==
    /\ clock       \in 0..MaxTime
    /\ current     \in [Keys -> 0..MaxVersion]
    /\ replaced    \in [Keys -> Seq(0..MaxTime)]
    /\ \A k \in Keys : Len(replaced[k]) = current[k]
    /\ entry       \in [Keys -> [version : -1..MaxVersion, expires : Nat]]
    /\ reader      \in [Readers \X Keys -> [pc : {"idle", "read", "store"},
                                            version : -1..MaxVersion, began : 0..MaxTime]]
    /\ \A x \in Readers \X Keys : reader[x].pc = "store" => reader[x].version >= 0
    /\ writer      \in [Writers \X WriterKeys -> [pc : {"idle", "wait", "delete"},
                                                  version : -1..MaxVersion]]
    /\ invalidated \in [Keys -> 0..MaxVersion]
    /\ raced       \subseteq Keys
    /\ restarts    \in 0..MaxRestarts

Init ==
    /\ clock       = 0
    /\ current     = [k \in Keys |-> 0]
    /\ replaced    = [k \in Keys |-> <<>>]
    /\ entry       = [k \in Keys |-> NoEntry]
    /\ reader      = [x \in Readers \X Keys |-> NoReader]
    /\ writer      = [x \in Writers \X WriterKeys |-> NoWriter]
    /\ invalidated = [k \in Keys |-> 0]
    /\ raced       = {}
    /\ restarts    = 0

Tick ==
    /\ clock < MaxTime
    /\ \A x \in Readers \X Keys : reader[x].pc # "idle" => clock - reader[x].began < MaxLatency
    /\ clock' = clock + 1
    /\ UNCHANGED <<current, replaced, entry, reader, writer, invalidated, raced, restarts>>

Replace(k) ==
    /\ current[k] < MaxVersion
    /\ current'  = [current EXCEPT ![k] = @ + 1]
    /\ replaced' = [replaced EXCEPT ![k] = Append(@, clock)]

\* A swap, a call of the owner, a price: no entry is deleted.
ChangeElsewhere(k) ==
    /\ Replace(k)
    /\ UNCHANGED <<clock, entry, reader, writer, invalidated, raced, restarts>>

(***************************************************************************)
(* A cached read.  A hit returns the live entry and changes nothing.       *)
(***************************************************************************)
Miss(r, k) ==
    /\ reader[<<r, k>>].pc = "idle"
    /\ ~Live(k)
    /\ reader' = [reader EXCEPT ![<<r, k>>] = [pc |-> "read", version |-> -1, began |-> clock]]
    /\ UNCHANGED <<clock, current, replaced, entry, writer, invalidated, raced, restarts>>

\* Mutant: a failed call is cached as an answer.
ReadContractUnchecked(r, k) ==
    /\ reader[<<r, k>>].pc = "read"
    /\ \E v \in {current[k], -1} :
         reader' = [reader EXCEPT ![<<r, k>>] = [pc |-> "store", version |-> v, began |-> @.began]]
    /\ UNCHANGED <<clock, current, replaced, entry, writer, invalidated, raced, restarts>>

ReadContract(r, k) ==
    /\ reader[<<r, k>>].pc = "read"
    /\ \/ reader' = [reader EXCEPT ![<<r, k>>] =
                        [pc |-> "store", version |-> current[k], began |-> @.began]]
       \/ reader' = [reader EXCEPT ![<<r, k>>] = NoReader]     \* the call throws
    /\ UNCHANGED <<clock, current, replaced, entry, writer, invalidated, raced, restarts>>

Store(r, k) ==
    /\ reader[<<r, k>>].pc = "store"
    /\ entry' = [entry EXCEPT ![k] = [version |-> reader[<<r, k>>].version,
                                      expires |-> clock + TTL[k]]]
    /\ reader' = [reader EXCEPT ![<<r, k>>] = NoReader]
    /\ UNCHANGED <<clock, current, replaced, writer, invalidated, raced, restarts>>

(***************************************************************************)
(* A call of the server that changes what is cached.                       *)
(***************************************************************************)
Submit(w, k) ==
    /\ writer[<<w, k>>].pc = "idle"
    /\ writer' = [writer EXCEPT ![<<w, k>>] = [pc |-> "wait", version |-> -1]]
    /\ UNCHANGED <<clock, current, replaced, entry, reader, invalidated, raced, restarts>>

\* waitForTransaction: success; or the change happened and the node's answer is
\* lost, or it reverted, and nothing is deleted.
Executed(w, k) ==
    /\ writer[<<w, k>>].pc = "wait"
    /\ Replace(k)
    /\ \/ writer' = [writer EXCEPT ![<<w, k>>] = [pc |-> "delete", version |-> current[k] + 1]]
       \/ writer' = [writer EXCEPT ![<<w, k>>] = NoWriter]
    /\ UNCHANGED <<clock, entry, reader, invalidated, raced, restarts>>

Reverted(w, k) ==
    /\ writer[<<w, k>>].pc = "wait"
    /\ writer' = [writer EXCEPT ![<<w, k>>] = NoWriter]
    /\ UNCHANGED <<clock, current, replaced, entry, reader, invalidated, raced, restarts>>

NotRead(w, k) == \A r \in Readers :
    reader[<<r, k>>].pc = "store" => reader[<<r, k>>].version >= writer[<<w, k>>].version

\* Mutant: the entry deleted is another one.
InvalidateOther(w, k) ==
    /\ writer[<<w, k>>].pc = "delete"
    /\ invalidated' = [invalidated EXCEPT ![k] =
                         IF @ > writer[<<w, k>>].version THEN @ ELSE writer[<<w, k>>].version]
    /\ raced' = IF NotRead(w, k) THEN raced ELSE raced \cup {k}
    /\ writer' = [writer EXCEPT ![<<w, k>>] = NoWriter]
    /\ UNCHANGED <<clock, current, replaced, entry, reader, restarts>>

Invalidate(w, k) ==
    /\ writer[<<w, k>>].pc = "delete"
    /\ entry' = [entry EXCEPT ![k] = NoEntry]
    /\ invalidated' = [invalidated EXCEPT ![k] =
                         IF @ > writer[<<w, k>>].version THEN @ ELSE writer[<<w, k>>].version]
    /\ raced' = IF NotRead(w, k) THEN raced ELSE raced \cup {k}
    /\ writer' = [writer EXCEPT ![<<w, k>>] = NoWriter]
    /\ UNCHANGED <<clock, current, replaced, reader, restarts>>

\* The server restarts; the store is in its memory, or is Redis and survives.
Restart ==
    /\ restarts < MaxRestarts
    /\ restarts' = restarts + 1
    /\ reader' = [x \in Readers \X Keys |-> NoReader]
    /\ writer' = [x \in Writers \X WriterKeys |-> NoWriter]
    /\ entry' \in {entry, [k \in Keys |-> NoEntry]}
    /\ UNCHANGED <<clock, current, replaced, invalidated, raced>>

Next ==
    \/ Tick
    \/ \E k \in Keys :
         \/ ChangeElsewhere(k)
         \/ \E r \in Readers : Miss(r, k) \/ ReadContract(r, k) \/ Store(r, k)
    \/ \E k \in WriterKeys, w \in Writers :
         Submit(w, k) \/ Executed(w, k) \/ Reverted(w, k) \/ Invalidate(w, k)
    \/ Restart

Spec == Init /\ [][Next]_vars

(***************************************************************************)
(* Properties.                                                             *)
(***************************************************************************)

\* What a cached read answers was the contract's answer less long ago than the
\* key's lifetime and the time one read takes: whoever changed the contract, in
\* whatever order reads were stored, before or after a restart.
StalenessBounded ==
    \A k \in Keys :
      Live(k) /\ entry[k].version < current[k]
        => clock - replaced[k][entry[k].version + 1] < TTL[k] + MaxLatency

\* After a call of the server deleted the entry, reads answer with its change or
\* a later one, unless a read that had asked the contract before the change
\* stores its answer after the deletion.
WriteSeenUnlessRaced ==
    \A k \in Keys \ raced : Live(k) => entry[k].version >= invalidated[k]

=============================================================================
