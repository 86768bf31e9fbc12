------------------------------ MODULE Seqlock ------------------------------
(***************************************************************************)
(* The odd/even seqlock of one producer slot of the shared sensor region:  *)
(* write_slot and read_slot of crates/aster-hwstats/src/slot.rs, the       *)
(* producers that drive the former (SharedMemoryWriter of aster-sysinfo,   *)
(* WriteSharedMemory of HwBridge) and the poll of asterctl that drives the *)
(* latter (SharedMemoryProvider::update).  Every load and store of a field *)
(* is a step of its own, and the producer may be killed between any two of *)
(* them and started again, as the launcher does to apply a menu choice.    *)
(*                                                                         *)
(* Data is abstracted to its origin: a field holds the number of the write *)
(* that last stored it, 0 being the zeroed memory of a fresh region, and   *)
(* the payload is MaxPayload words that are copied one by one.  A snapshot *)
(* is whole when everything in it comes from one write.                    *)
(***************************************************************************)
EXTENDS Naturals

CONSTANTS
  MaxPayload,   \* words of a slot's payload (MAX_PAYLOAD)
  MaxAttempts,  \* tries of one read_slot call
  MaxWrites,    \* bound: snapshots the producers start to write
  MaxRestarts   \* bound: times a producer is started again

ASSUME SeqlockAssumption ==
  /\ MaxPayload \in Nat \ {0}
  /\ MaxAttempts \in Nat \ {0}
  /\ MaxWrites \in Nat
  /\ MaxRestarts \in Nat

VARIABLES
  \* the slot
  seq,        \* the sequence word
  header,     \* header[f]: the write that last stored header field f
  size,       \* the number in the payload_len field
  word,       \* word[i]: the write that last stored payload word i
  \* the producer process
  wpc,        \* "idle", "copy" between its two stores of seq, "dead"
  wseq,       \* SharedMemoryWriter.sequence
  wlen,       \* words of the payload it is writing
  fieldsLeft, \* header fields it has not stored yet
  wordsLeft,  \* payload words it has not stored yet
  \* asterctl's read_slot call and what the provider keeps between calls
  rpc,        \* the next load: "magic", "version", "seq1", "len", "copy", "time", "seq2"
  attempt,    \* tries this call has used up
  rseq,       \* seq1
  rlen,       \* payload length loaded
  rwords,     \* payload words not copied yet
  seen,       \* the writes that the data copied in this try comes from
  outcome,    \* how the last call ended, with its snapshot
  lastSeq,    \* last_sequences of the provider
  merged,     \* the snapshot whose values the provider merged last
  \* history: used by properties, never by a guard of the code's own steps
  writes,     \* snapshots started so far; the number of the newest one
  published,  \* the newest complete snapshot
  life,       \* how often the producer was started again
  owner,      \* the producer life that stored seq last
  rowner      \* the value of owner when seq1 was loaded

slotVars == <<seq, header, size, word>>
writerVars == <<wpc, wseq, wlen, fieldsLeft, wordsLeft, writes, published, life, owner>>
tryVars == <<rseq, rlen, rwords, seen, rowner>>
providerVars == <<outcome, lastSeq, merged>>
readerVars == <<rpc, attempt, tryVars, providerVars>>
vars == <<slotVars, writerVars, readerVars>>

HeaderField == {"magic", "version", "timestamp", "len"}
Word == 1..MaxPayload
Even(n) == n % 2 = 0

\* The producer lives and is between its two stores of the sequence word.
Writing == wpc = "copy"

SnapshotData == [ids : SUBSET (0..MaxWrites), len : 0..MaxPayload]

Outcome ==
  [kind : {"none", "version", "contended", "snapshot"},
   ids : SUBSET (0..MaxWrites), len : 0..MaxPayload, sameWriter : BOOLEAN]

Failure(kind) == [kind |-> kind, ids |-> {}, len |-> 0, sameWriter |-> TRUE]

-----------------------------------------------------------------------------
(* The region is zeroed, the producer and the provider were just started.  *)

Init ==
  /\ seq = 0
  /\ header = [f \in HeaderField |-> 0]
  /\ size = 0
  /\ word = [i \in Word |-> 0]
  /\ wpc = "idle"
  /\ wseq = 0
  /\ wlen = 0
  /\ fieldsLeft = {}
  /\ wordsLeft = {}
  /\ rpc = "magic"
  /\ attempt = 0
  /\ rseq = 0
  /\ rlen = 0
  /\ rwords = {}
  /\ seen = {}
  /\ outcome = Failure("none")
  /\ lastSeq = 0
  /\ merged = [ids |-> {}, len |-> 0]
  /\ writes = 0
  /\ published = [id |-> 0, len |-> 0]
  /\ life = 0
  /\ owner = 0
  /\ rowner = 0

-----------------------------------------------------------------------------
(* The producer.                                                           *)

\* Fault: the length limit is forgotten.
NotTruncated(n) == n

\* A payload longer than the slot is cut.
Truncated(n) == IF n > MaxPayload THEN MaxPayload ELSE n

\* The value of the sequence word while snapshot number s is being written.
InProgress(s) == s - 1

\* SharedMemoryWriter.write up to the first store of write_slot.
WriteBegin(n) ==
  /\ wpc = "idle"
  /\ writes < MaxWrites
  /\ wseq' = wseq + 2
  /\ seq' = InProgress(wseq')
  /\ wlen' = Truncated(n)
  /\ fieldsLeft' = HeaderField
  /\ wordsLeft' = 1..wlen'
  /\ wpc' = "copy"
  /\ writes' = writes + 1
  /\ owner' = life
  /\ UNCHANGED <<header, size, word, published, life, readerVars>>

(* The plain stores between the two stores of seq: write_slot and          *)
(* WriteSharedMemory have them in different orders, and a compiler may     *)
(* reorder them, so any order is possible.                                 *)
StoreField(f) ==
  /\ Writing
  /\ f \in fieldsLeft
  /\ header' = [header EXCEPT ![f] = writes]
  /\ size' = IF f = "len" THEN wlen ELSE size
  /\ fieldsLeft' = fieldsLeft \ {f}
  /\ UNCHANGED <<seq, word, wpc, wseq, wlen, wordsLeft, writes, published, life, owner,
                 readerVars>>

StoreWord(i) ==
  /\ Writing
  /\ i \in wordsLeft
  /\ word' = [word EXCEPT ![i] = writes]
  /\ wordsLeft' = wordsLeft \ {i}
  /\ UNCHANGED <<seq, header, size, wpc, wseq, wlen, fieldsLeft, writes, published, life,
                 owner, readerVars>>

\* Fault: the even value is stored before the payload is complete.
HeaderDone == fieldsLeft = {}

\* The even value may be stored once nothing is left to copy.
CopyDone == fieldsLeft = {} /\ wordsLeft = {}

WriteEnd ==
  /\ Writing
  /\ CopyDone
  /\ seq' = wseq
  /\ wpc' = "idle"
  /\ published' = [id |-> writes, len |-> wlen]
  /\ UNCHANGED <<header, size, word, wseq, wlen, fieldsLeft, wordsLeft, writes, life, owner,
                 readerVars>>

\* TerminateProcess or SIGKILL: the slot stays as it is.
Kill ==
  /\ wpc # "dead"
  /\ wpc' = "dead"
  /\ fieldsLeft' = {}
  /\ wordsLeft' = {}
  /\ UNCHANGED <<slotVars, wseq, wlen, writes, published, life, owner, readerVars>>

\* The launcher starts the process again, and SharedMemoryWriter::new counts from 0.
Respawn ==
  /\ wpc = "dead"
  /\ life < MaxRestarts
  /\ wpc' = "idle"
  /\ wseq' = 0
  /\ life' = life + 1
  /\ UNCHANGED <<slotVars, wlen, fieldsLeft, wordsLeft, writes, published, owner, readerVars>>

-----------------------------------------------------------------------------
(* The reader.  A call that ends leaves its local state behind it.         *)

Return(o) ==
  /\ outcome' = o
  /\ rpc' = "magic"
  /\ attempt' = 0

ReadMagic ==
  /\ rpc = "magic"
  /\ IF header["magic"] = 0
       THEN Return(Failure("none"))
       ELSE rpc' = "version" /\ UNCHANGED <<attempt, outcome>>
  /\ UNCHANGED <<slotVars, writerVars, tryVars, lastSeq, merged>>

\* All producers write the same version, so a mismatch is a version not written yet.
ReadVersion ==
  /\ rpc = "version"
  /\ IF header["version"] = 0
       THEN Return(Failure("version"))
       ELSE rpc' = "seq1" /\ UNCHANGED <<attempt, outcome>>
  /\ UNCHANGED <<slotVars, writerVars, tryVars, lastSeq, merged>>

\* `continue`: the next of the MaxAttempts tries, or Contended after the last one.
Retry ==
  \/ /\ attempt + 1 < MaxAttempts
     /\ attempt' = attempt + 1
     /\ rpc' = "seq1"
     /\ UNCHANGED outcome
  \/ /\ attempt + 1 = MaxAttempts
     /\ Return(Failure("contended"))

ReadSeq1 ==
  /\ rpc = "seq1"
  /\ IF Even(seq)
       THEN rpc' = "len" /\ UNCHANGED <<attempt, outcome>>
       ELSE Retry
  /\ rseq' = seq
  /\ rowner' = owner
  /\ UNCHANGED <<slotVars, writerVars, rlen, rwords, seen, lastSeq, merged>>

(* The length is loaded byte by byte: while the producer has yet to store  *)
(* it, the load may overlap the store and give any number.                 *)
LengthLoaded(n) == n = size \/ (Writing /\ "len" \in fieldsLeft)

ReadLen(n) ==
  /\ rpc = "len"
  /\ LengthLoaded(n)
  /\ IF n > MaxPayload
       THEN Retry /\ UNCHANGED <<rlen, rwords, seen>>
       ELSE /\ rpc' = "copy"
            /\ rlen' = n
            /\ rwords' = 1..n
            /\ seen' = {header["len"]}
            /\ UNCHANGED <<attempt, outcome>>
  /\ UNCHANGED <<slotVars, writerVars, rseq, rowner, lastSeq, merged>>

CopyWord(i) ==
  /\ rpc = "copy"
  /\ i \in rwords
  /\ seen' = seen \union {word[i]}
  /\ rwords' = rwords \ {i}
  /\ UNCHANGED <<slotVars, writerVars, rpc, attempt, rseq, rlen, rowner, providerVars>>

ReadTimestamp ==
  /\ rpc = "copy"
  /\ rwords = {}
  /\ seen' = seen \union {header["timestamp"]}
  /\ rpc' = "seq2"
  /\ UNCHANGED <<slotVars, writerVars, attempt, rseq, rlen, rwords, rowner, providerVars>>

\* Fault: the two loads of the sequence are not compared.
AcceptsEven(s) == Even(s)

\* What the second load of seq must show for the copied data to be accepted.
Accepts(s) == s = rseq /\ Even(s)

\* Fault: only the first snapshot is new.
IsNewOnce(s) == lastSeq = 0

\* The provider merges a snapshot unless its sequence is the one it merged last.
IsNew(s) == s # lastSeq

\* The second load, with the provider's use of an accepted snapshot.
ReadSeq2 ==
  /\ rpc = "seq2"
  /\ IF Accepts(seq)
       THEN /\ Return([kind |-> "snapshot", ids |-> seen, len |-> rlen,
                       sameWriter |-> owner = rowner])
            /\ IF IsNew(rseq)
                 THEN merged' = [ids |-> seen, len |-> rlen] /\ lastSeq' = rseq
                 ELSE UNCHANGED <<merged, lastSeq>>
       ELSE Retry /\ UNCHANGED <<merged, lastSeq>>
  /\ UNCHANGED <<slotVars, writerVars, tryVars>>

-----------------------------------------------------------------------------
Producer ==
  \/ \E n \in 1..MaxPayload + 1 : WriteBegin(n)
  \/ \E f \in HeaderField : StoreField(f)
  \/ \E i \in Word : StoreWord(i)
  \/ WriteEnd

Reader ==
  \/ ReadMagic
  \/ ReadVersion
  \/ ReadSeq1
  \/ \E n \in 0..MaxPayload + 1 : ReadLen(n)
  \/ \E i \in Word : CopyWord(i)
  \/ ReadTimestamp
  \/ ReadSeq2

Next == Producer \/ Reader \/ Kill \/ Respawn

Spec == Init /\ [][Next]_vars

(* The producer and asterctl are processes the operating system schedules; *)
(* nothing obliges anyone to kill or to restart the producer.              *)
FairSpec == Spec /\ WF_vars(Producer) /\ WF_vars(Reader)

-----------------------------------------------------------------------------
(* Properties.                                                             *)

TypeOK ==
  /\ seq \in Nat /\ wseq \in Nat /\ rseq \in Nat /\ lastSeq \in Nat
  /\ writes \in 0..MaxWrites
  /\ header \in [HeaderField -> 0..MaxWrites]
  /\ word \in [Word -> 0..MaxWrites]
  /\ size \in 0..MaxPayload /\ wlen \in 0..MaxPayload /\ rlen \in 0..MaxPayload
  /\ wpc \in {"idle", "copy", "dead"}
  /\ fieldsLeft \in SUBSET HeaderField
  /\ wordsLeft \in SUBSET Word /\ rwords \in SUBSET Word
  /\ rpc \in {"magic", "version", "seq1", "len", "copy", "seq2"}
  /\ attempt \in 0..MaxAttempts - 1
  /\ seen \in SUBSET (0..MaxWrites)
  /\ outcome \in Outcome
  /\ merged \in SnapshotData
  /\ published \in [id : 0..MaxWrites, len : 0..MaxPayload]
  /\ life \in 0..MaxRestarts /\ owner \in 0..life /\ rowner \in 0..life

(* slot.rs: "Readers never observe a torn snapshot because they reject odd *)
(* and racing sequence values".  Whatever the producer did meanwhile, and  *)
(* also when it was killed in the middle of a write, an accepted snapshot  *)
(* holds the data of one write, as long as one producer life stored both   *)
(* sequence values that were compared.                                     *)
NoTornSnapshot ==
  outcome.kind = "snapshot" /\ outcome.sameWriter => \E id \in 1..MaxWrites : outcome.ids = {id}

(* When read_slot accepts, what it returns is the newest snapshot that was *)
(* published, at full length: it never hands out data that was replaced    *)
(* before the second load of the sequence.                                 *)
AcceptedIsNewest ==
  [][rpc = "seq2" /\ rpc' = "magic" /\ outcome'.kind = "snapshot" /\ outcome'.sameWriter
       => outcome'.ids = {published.id} /\ outcome'.len = published.len]_vars

(* lib.rs: "Readers detect new data by comparing sequence to the           *)
(* previously seen value".  After a successful read, the values that the   *)
(* provider merged last are those of the snapshot just read, as long as    *)
(* the producer was not started again: its successor counts from 0 and may *)
(* come to the number that was merged last.                                *)
SequenceNamesSnapshot ==
  life = 0 /\ outcome.kind = "snapshot" =>
    merged = [ids |-> outcome.ids, len |-> outcome.len]

(* When the producer of the only life stops writing and lives, asterctl    *)
(* ends up with the newest snapshot merged.                                *)
NewestIsMerged ==
  ([](life = 0) /\ <>[](wpc = "idle") /\ <>[](writes > 0)) => <>[](merged.ids = {published.id})

-----------------------------------------------------------------------------
(* The slot is an atomic register for its consumer while one producer life *)
(* lasts.  Torn data would be no snapshot of the register.                 *)
MergedSnapshot ==
  CASE merged.ids = {} -> [id |-> 0, len |-> 0]
    [] \E id \in 1..MaxWrites : merged.ids = {id} ->
         [id |-> CHOOSE id \in 1..MaxWrites : merged.ids = {id}, len |-> merged.len]
    [] OTHER -> [id |-> MaxWrites + 1, len |-> 0]

Slot == INSTANCE SnapshotSlot WITH delivered <- MergedSnapshot

\* Every step of the seqlock publishes, delivers the newest snapshot, or is invisible to the
\* consumer, until the producer is started again: slot.rs implements the register of
\* SnapshotSlot for one producer life.
SlotSpec == Slot!Init /\ [][life' = 0 => Slot!Next]_(Slot!vars)
=============================================================================
