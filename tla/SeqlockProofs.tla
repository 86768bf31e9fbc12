--------------------------- MODULE SeqlockProofs ---------------------------
(***************************************************************************)
(* Theorems about the seqlock of one producer slot, for every payload      *)
(* size, number of tries, number of writes and number of restarts.         *)
(***************************************************************************)
EXTENDS Seqlock, TLAPS

\* The slot holds all of snapshot id, which is n words long.
Holds(id, n) ==
  /\ \A f \in HeaderField : header[f] = id
  /\ size = n
  /\ \A i \in 1..n : word[i] = id

\* While a producer copies, what it has stored already is its own.
CopyInv ==
  Writing =>
    /\ seq = wseq - 1 /\ wseq >= 2
    /\ owner = life
    /\ writes > published.id
    /\ \A f \in HeaderField \ fieldsLeft : header[f] = writes
    /\ "len" \notin fieldsLeft => size = wlen
    /\ wordsLeft \subseteq 1..wlen
    /\ \A i \in (1..wlen) \ wordsLeft : word[i] = writes

\* An even sequence means that the newest complete snapshot is in the slot.
SlotInv ==
  /\ Even(wseq)
  /\ wpc = "idle" /\ owner = life => seq = wseq
  /\ Even(seq) => Holds(published.id, published.len)
  /\ published.id <= writes

(* A try whose first load is still the slot's sequence has copied nothing  *)
(* but the newest snapshot; a sequence that moved on never comes back      *)
(* while the producer lives.                                               *)
TryInv ==
  /\ rpc # "magic" => header["magic"] # 0
  /\ rpc \in {"len", "copy", "seq2"} =>
       /\ Even(rseq)
       /\ rowner <= owner
       /\ rowner = owner => rseq <= seq
       /\ rwords \subseteq 1..rlen \/ rpc = "len"
       /\ rowner = owner /\ rseq = seq /\ rpc # "len" =>
            seen = {published.id} /\ rlen = published.len

\* The strengthening of NoTornSnapshot that every step preserves.
SeqlockInv == TypeOK /\ CopyInv /\ SlotInv /\ TryInv /\ NoTornSnapshot

-----------------------------------------------------------------------------
LEMMA Parity ==
  ASSUME NEW n \in Nat, Even(n)
  PROVE  Even(n + 2) /\ ~Even(n + 1) /\ (n >= 1 => ~Even(n - 1))
BY DEF Even

LEMMA TypeInit == Init => TypeOK
BY SeqlockAssumption DEF Init, TypeOK, Word, HeaderField, Outcome, SnapshotData, Failure

LEMMA FailureType ==
  ASSUME NEW kind \in {"none", "version", "contended"}
  PROVE  Failure(kind) \in Outcome
BY SeqlockAssumption DEF Failure, Outcome

LEMMA RetryType ==
  ASSUME TypeOK, Retry
  PROVE  /\ attempt' \in 0..MaxAttempts - 1
         /\ outcome' \in Outcome
         /\ rpc' \in {"magic", "seq1"}
BY SeqlockAssumption, FailureType DEF TypeOK, Retry, Return

LEMMA TypeNext == TypeOK /\ [Next]_vars => TypeOK'
<1> SUFFICES ASSUME TypeOK, [Next]_vars
             PROVE  TypeOK'
  OBVIOUS
<1> USE SeqlockAssumption DEF TypeOK, Word, vars, slotVars, writerVars, readerVars, tryVars,
        providerVars
<1>1. ASSUME NEW n \in 1..MaxPayload + 1, WriteBegin(n)
      PROVE  TypeOK'
  BY <1>1 DEF WriteBegin, InProgress, Truncated, HeaderField, Outcome, SnapshotData
<1>2. ASSUME NEW f \in HeaderField, StoreField(f)
      PROVE  TypeOK'
  BY <1>2 DEF StoreField, Writing, HeaderField, Outcome, SnapshotData
<1>3. ASSUME NEW i \in Word, StoreWord(i)
      PROVE  TypeOK'
  BY <1>3 DEF StoreWord, Writing, HeaderField, Outcome, SnapshotData
<1>4. ASSUME WriteEnd
      PROVE  TypeOK'
  BY <1>4 DEF WriteEnd, CopyDone, Writing, HeaderField, Outcome, SnapshotData
<1>5. ASSUME Kill
      PROVE  TypeOK'
  BY <1>5 DEF Kill, HeaderField, Outcome, SnapshotData
<1>6. ASSUME Respawn
      PROVE  TypeOK'
  BY <1>6 DEF Respawn, HeaderField, Outcome, SnapshotData
<1>7. ASSUME ReadMagic
      PROVE  TypeOK'
  BY <1>7, FailureType DEF ReadMagic, Return
<1>8. ASSUME ReadVersion
      PROVE  TypeOK'
  BY <1>8, FailureType DEF ReadVersion, Return
<1>9. ASSUME ReadSeq1
      PROVE  TypeOK'
  BY <1>9, RetryType DEF ReadSeq1
<1>10. ASSUME NEW n \in 0..MaxPayload + 1, ReadLen(n)
      PROVE  TypeOK'
  <2>1. CASE n > MaxPayload
    BY <1>10, <2>1, RetryType DEF ReadLen
  <2>2. CASE ~(n > MaxPayload)
    BY <1>10, <2>2 DEF ReadLen, HeaderField
  <2> QED
    BY <2>1, <2>2
<1>11. ASSUME NEW i \in Word, CopyWord(i)
      PROVE  TypeOK'
  BY <1>11 DEF CopyWord, HeaderField, Outcome, SnapshotData
<1>12. ASSUME ReadTimestamp
      PROVE  TypeOK'
  BY <1>12 DEF ReadTimestamp, HeaderField, Outcome, SnapshotData
<1>13. ASSUME ReadSeq2
      PROVE  TypeOK'
  <2>1. [kind |-> "snapshot", ids |-> seen, len |-> rlen, sameWriter |-> owner = rowner]
          \in Outcome
    BY DEF Outcome
  <2>2. [ids |-> seen, len |-> rlen] \in SnapshotData
    BY DEF SnapshotData
  <2>3. outcome' \in Outcome /\ attempt' \in 0..MaxAttempts - 1 /\ rpc' \in {"magic", "seq1"}
    BY <1>13, <2>1, RetryType DEF ReadSeq2, Return
  <2>4. merged' \in SnapshotData /\ lastSeq' \in Nat
    BY <1>13, <2>2 DEF ReadSeq2
  <2> QED
    BY <1>13, <2>3, <2>4 DEF ReadSeq2
<1>14. CASE UNCHANGED vars
  BY <1>14
<1>15. QED
  BY <1>1, <1>2, <1>3, <1>4, <1>5, <1>6, <1>7, <1>8, <1>9, <1>10, <1>11, <1>12, <1>13, <1>14 DEF Next, Producer, Reader

THEOREM TypeCorrect == Spec => []TypeOK
<1>1. Init => TypeOK
  BY TypeInit
<1>2. TypeOK /\ [Next]_vars => TypeOK'
  BY TypeNext
<1> QED
  BY <1>1, <1>2, PTL DEF Spec

-----------------------------------------------------------------------------
LEMMA InvInit == Init => SeqlockInv
<1> SUFFICES ASSUME Init
             PROVE  SeqlockInv
  OBVIOUS
<1>1. TypeOK
  BY TypeInit
<1>2. CopyInv /\ TryInv /\ NoTornSnapshot
  BY DEF Init, CopyInv, TryInv, NoTornSnapshot, Writing, Failure
<1>3. SlotInv
  BY DEF Init, SlotInv, Holds, Even
<1> QED
  BY <1>1, <1>2, <1>3 DEF SeqlockInv

\* What the three parts of the invariant say of the producer's steps.
LEMMA ProducerKeepsInv ==
  ASSUME SeqlockInv, TypeOK', Producer \/ Kill \/ Respawn
  PROVE  CopyInv' /\ SlotInv' /\ TryInv' /\ NoTornSnapshot'
<1> USE SeqlockAssumption DEF SeqlockInv, TypeOK, Word
<1>1. ASSUME NEW n \in 1..MaxPayload + 1, WriteBegin(n)
      PROVE  CopyInv' /\ SlotInv' /\ TryInv' /\ NoTornSnapshot'
  <2> USE <1>1 DEF WriteBegin, InProgress, readerVars, tryVars, providerVars
  <2>1. Even(wseq') /\ ~Even(seq') /\ seq' = wseq + 1 /\ seq' \in Nat
    <3>1. wseq' = wseq + 2 /\ seq' = wseq + 1
      OBVIOUS
    <3>2. Even(wseq + 2) /\ ~Even(wseq + 1)
      BY Parity DEF SlotInv
    <3> QED
      BY <3>1, <3>2
  <2>2. CopyInv'
    <3>1. writes' > published'.id /\ wseq' >= 2 /\ seq' = wseq' - 1
      BY DEF SlotInv
    <3>2. fieldsLeft' = HeaderField /\ wordsLeft' = 1..wlen' /\ owner' = life'
      OBVIOUS
    <3> QED
      BY <3>1, <3>2 DEF CopyInv, HeaderField
  <2>3. SlotInv'
    BY <2>1 DEF SlotInv
  <2>4. TryInv'
    <3>1. ASSUME rowner' = owner'
          PROVE  rpc \in {"len", "copy", "seq2"} => rseq < seq'
      BY <2>1, <3>1 DEF TryInv, SlotInv
    <3> QED
      BY <2>1, <3>1 DEF TryInv
  <2>5. NoTornSnapshot'
    BY DEF NoTornSnapshot
  <2> QED
    BY <2>2, <2>3, <2>4, <2>5
<1>2. ASSUME NEW f \in HeaderField, StoreField(f)
      PROVE  CopyInv' /\ SlotInv' /\ TryInv' /\ NoTornSnapshot'
  <2> USE <1>2 DEF StoreField, readerVars, tryVars, providerVars
  <2>1. ~Even(seq)
    BY Parity DEF CopyInv, SlotInv
  <2>2. CopyInv'
    BY DEF CopyInv, Writing
  <2>3. SlotInv' /\ NoTornSnapshot'
    BY <2>1 DEF SlotInv, NoTornSnapshot, Writing
  <2>4. TryInv'
    BY <2>1 DEF TryInv, CopyInv
  <2> QED
    BY <2>2, <2>3, <2>4
<1>3. ASSUME NEW i \in Word, StoreWord(i)
      PROVE  CopyInv' /\ SlotInv' /\ TryInv' /\ NoTornSnapshot'
  <2> USE <1>3 DEF StoreWord, readerVars, tryVars, providerVars
  <2>1. ~Even(seq)
    BY Parity DEF CopyInv, SlotInv
  <2>2. CopyInv'
    BY DEF CopyInv, Writing
  <2>3. SlotInv' /\ NoTornSnapshot'
    BY <2>1 DEF SlotInv, NoTornSnapshot, Writing
  <2>4. TryInv'
    BY <2>1 DEF TryInv
  <2> QED
    BY <2>2, <2>3, <2>4
<1>4. ASSUME WriteEnd
      PROVE  CopyInv' /\ SlotInv' /\ TryInv' /\ NoTornSnapshot'
  <2> USE <1>4 DEF WriteEnd, readerVars, tryVars, providerVars
  <2>1. ~Even(seq) /\ seq' = seq + 1
    BY Parity DEF CopyInv, SlotInv
  <2>2. CopyInv' /\ NoTornSnapshot'
    BY DEF CopyInv, Writing, NoTornSnapshot
  <2>3. SlotInv'
    BY DEF SlotInv, CopyInv, CopyDone, Holds
  <2>4. TryInv'
    BY <2>1 DEF TryInv
  <2> QED
    BY <2>2, <2>3, <2>4
<1>5. ASSUME Kill
      PROVE  CopyInv' /\ SlotInv' /\ TryInv' /\ NoTornSnapshot'
  BY <1>5 DEF Kill, CopyInv, SlotInv, Holds, TryInv, NoTornSnapshot, Writing, slotVars,
     readerVars, tryVars, providerVars
<1>6. ASSUME Respawn
      PROVE  CopyInv' /\ SlotInv' /\ TryInv' /\ NoTornSnapshot'
  <2>1. Even(0)
    BY DEF Even
  <2> QED
    BY <1>6, <2>1 DEF Respawn, CopyInv, SlotInv, Holds, TryInv, NoTornSnapshot, Writing, slotVars,
       readerVars, tryVars, providerVars
<1> QED
  BY <1>1, <1>2, <1>3, <1>4, <1>5, <1>6 DEF Producer

LEMMA ReaderKeepsInv ==
  ASSUME SeqlockInv, TypeOK', Reader
  PROVE  CopyInv' /\ SlotInv' /\ TryInv' /\ NoTornSnapshot'
<1> USE SeqlockAssumption DEF SeqlockInv, TypeOK, Word, slotVars, writerVars, tryVars,
        providerVars
<1>1. UNCHANGED <<slotVars, writerVars>>
  BY DEF Reader, ReadMagic, ReadVersion, ReadSeq1, ReadLen, CopyWord, ReadTimestamp, ReadSeq2
<1>2. CopyInv' /\ SlotInv'
  BY <1>1 DEF CopyInv, SlotInv, Holds, Writing
<1>3. Even(seq) => ~Writing
  <2> SUFFICES ASSUME Writing
               PROVE  ~Even(seq)
    OBVIOUS
  <2>1. seq = wseq - 1 /\ Even(wseq) /\ wseq >= 1
    BY DEF CopyInv, SlotInv
  <2>2. ~Even(wseq - 1)
    BY <2>1, Parity
  <2> QED
    BY <2>1, <2>2
<1>4. ASSUME ReadMagic
      PROVE  TryInv' /\ NoTornSnapshot'
  BY <1>4 DEF ReadMagic, Return, Failure, TryInv, NoTornSnapshot
<1>5. ASSUME ReadVersion
      PROVE  TryInv' /\ NoTornSnapshot'
  BY <1>5 DEF ReadVersion, Return, Failure, TryInv, NoTornSnapshot
<1>6. ASSUME Retry
      PROVE  /\ rpc' = "magic" \/ (rpc' = "seq1" /\ outcome' = outcome)
             /\ outcome' = outcome \/ outcome'.kind = "contended"
  <2>1. CASE rpc' = "seq1" /\ outcome' = outcome
    BY <2>1
  <2>2. CASE Return(Failure("contended"))
    BY <2>2 DEF Return, Failure
  <2> QED
    BY <1>6, <2>1, <2>2 DEF Retry
<1>7. ASSUME ReadSeq1
      PROVE  TryInv' /\ NoTornSnapshot'
  BY <1>6, <1>7 DEF ReadSeq1, TryInv, NoTornSnapshot
<1>8. ASSUME NEW n \in 0..MaxPayload + 1, ReadLen(n)
      PROVE  TryInv' /\ NoTornSnapshot'
  <2>1. CASE n > MaxPayload
    BY <1>6, <1>8, <2>1 DEF ReadLen, TryInv, NoTornSnapshot
  <2>2. CASE ~(n > MaxPayload)
    <3>1. NoTornSnapshot'
      BY <1>8, <2>2 DEF ReadLen, NoTornSnapshot
    <3>2. rowner' = owner' /\ rseq' = seq' => seen' = {published'.id} /\ rlen' = published'.len
      BY <1>3, <1>8, <2>2 DEF ReadLen, LengthLoaded, TryInv, SlotInv, Holds, HeaderField
    <3> QED
      BY <1>8, <2>2, <3>1, <3>2 DEF ReadLen, TryInv
  <2> QED
    BY <2>1, <2>2
<1>9. ASSUME NEW i \in Word, CopyWord(i)
      PROVE  TryInv' /\ NoTornSnapshot'
  BY <1>9 DEF CopyWord, TryInv, NoTornSnapshot, SlotInv, Holds
<1>10. ASSUME ReadTimestamp
       PROVE  TryInv' /\ NoTornSnapshot'
  BY <1>10 DEF ReadTimestamp, TryInv, NoTornSnapshot, SlotInv, Holds, HeaderField
<1>11. ASSUME ReadSeq2
       PROVE  TryInv' /\ NoTornSnapshot'
  <2>1. CASE Accepts(seq)
    <3>1. TryInv'
      BY <1>11, <2>1 DEF ReadSeq2, Return, TryInv
    <3>2. ASSUME owner = rowner
          PROVE  seen = {published.id} /\ published.id \in 1..MaxWrites
      BY <1>11, <2>1, <3>2 DEF ReadSeq2, Accepts, TryInv, SlotInv, Holds, HeaderField
    <3>3. outcome' = [kind |-> "snapshot", ids |-> seen, len |-> rlen,
                      sameWriter |-> owner = rowner]
      BY <1>11, <2>1 DEF ReadSeq2, Return
    <3>4. NoTornSnapshot'
      BY <3>2, <3>3 DEF NoTornSnapshot
    <3> QED
      BY <3>1, <3>4
  <2>2. CASE ~Accepts(seq)
    BY <1>6, <1>11, <2>2 DEF ReadSeq2, TryInv, NoTornSnapshot
  <2> QED
    BY <2>1, <2>2
<1> QED
  BY <1>2, <1>4, <1>5, <1>7, <1>8, <1>9, <1>10, <1>11 DEF Reader

LEMMA InvNext == SeqlockInv /\ [Next]_vars => SeqlockInv'
<1> SUFFICES ASSUME SeqlockInv, [Next]_vars
             PROVE  SeqlockInv'
  OBVIOUS
<1>1. TypeOK'
  BY TypeNext DEF SeqlockInv
<1>2. CASE Next
  BY <1>1, <1>2, ProducerKeepsInv, ReaderKeepsInv DEF Next, SeqlockInv
<1>3. CASE UNCHANGED vars
  BY <1>1, <1>3 DEF vars, slotVars, writerVars, readerVars, tryVars, providerVars, SeqlockInv,
     CopyInv, SlotInv, Holds, TryInv, NoTornSnapshot, Writing
<1> QED
  BY <1>2, <1>3

THEOREM SeqlockInvariance == Spec => []SeqlockInv
<1>1. Init => SeqlockInv
  BY InvInit
<1>2. SeqlockInv /\ [Next]_vars => SeqlockInv'
  BY InvNext
<1> QED
  BY <1>1, <1>2, PTL DEF Spec

\* slot.rs: "Readers never observe a torn snapshot", for one life of the producer.
THEOREM NeverTorn == Spec => []NoTornSnapshot
<1>1. SeqlockInv => NoTornSnapshot
  BY DEF SeqlockInv
<1> QED
  BY <1>1, SeqlockInvariance, PTL

\* What read_slot accepts is the newest published snapshot, whole.
THEOREM AcceptsNewest == Spec => AcceptedIsNewest
<1> DEFINE A == rpc = "seq2" /\ rpc' = "magic" /\ outcome'.kind = "snapshot" /\ outcome'.sameWriter
                  => outcome'.ids = {published.id} /\ outcome'.len = published.len
<1>1. SeqlockInv /\ [Next]_vars => [A]_vars
  <2> SUFFICES ASSUME SeqlockInv, Next, rpc = "seq2", rpc' = "magic",
                      outcome'.kind = "snapshot", outcome'.sameWriter
               PROVE  outcome'.ids = {published.id} /\ outcome'.len = published.len
    OBVIOUS
  <2>1. ReadSeq2
    BY DEF Next, Producer, Reader, WriteBegin, StoreField, StoreWord, WriteEnd, Kill, Respawn,
       readerVars, ReadMagic, ReadVersion, ReadSeq1, ReadLen, CopyWord, ReadTimestamp
  <2>2. Accepts(seq)
    BY <2>1 DEF ReadSeq2, Retry, Return, Failure
  <2>3. outcome' = [kind |-> "snapshot", ids |-> seen, len |-> rlen,
                    sameWriter |-> owner = rowner]
    BY <2>1, <2>2 DEF ReadSeq2, Return
  <2>4. owner = rowner
    BY <2>3
  <2>5. seen = {published.id} /\ rlen = published.len
    BY <2>2, <2>4 DEF Accepts, SeqlockInv, TryInv
  <2> QED
    BY <2>3, <2>5
<1>2. [][Next]_vars /\ []SeqlockInv => [][A]_vars
  BY <1>1, PTL
<1> QED
  BY <1>2, SeqlockInvariance, PTL DEF Spec, AcceptedIsNewest

-----------------------------------------------------------------------------
(* Until the producer is started again its sequence only grows, so that a  *)
(* sequence number names one snapshot.                                     *)
FirstLife ==
  /\ writes > 0 => seq > 0
  /\ lastSeq <= seq
  /\ lastSeq = 0 => merged = [ids |-> {}, len |-> 0]
  /\ lastSeq # 0 => \E id \in 1..MaxWrites : merged.ids = {id}
  /\ lastSeq # 0 /\ lastSeq = seq =>
       merged = [ids |-> {published.id}, len |-> published.len]
  /\ SequenceNamesSnapshot

LifeInv == life = 0 => FirstLife

\* An accepted snapshot of the only producer life.
LEMMA AcceptedData ==
  ASSUME life = 0, SeqlockInv, LifeInv, ReadSeq2, Accepts(seq)
  PROVE  /\ seen = {published.id} /\ rlen = published.len /\ published.id \in 1..MaxWrites
         /\ rseq = seq /\ rseq # 0
         /\ outcome' = [kind |-> "snapshot", ids |-> seen, len |-> rlen, sameWriter |-> TRUE]
<1>1. owner = rowner
  BY DEF SeqlockInv, TypeOK
<1>2. seen = {published.id} /\ rlen = published.len /\ rseq = seq /\ Even(seq)
      /\ header["magic"] # 0
  BY <1>1 DEF ReadSeq2, Accepts, SeqlockInv, TryInv
<1>3. published.id \in 1..MaxWrites
  BY <1>2, SeqlockAssumption DEF SeqlockInv, TypeOK, SlotInv, Holds, HeaderField
<1>4. rseq # 0
  BY <1>2, <1>3 DEF SeqlockInv, TypeOK, SlotInv, LifeInv, FirstLife
<1> QED
  BY <1>1, <1>2, <1>3, <1>4 DEF ReadSeq2, Return

\* A step that ends in the first life began in it, and is no restart.
LEMMA FirstLifeBefore ==
  ASSUME SeqlockInv, [Next]_vars, life' = 0
  PROVE  life = 0 /\ ~Respawn
<1> USE DEF slotVars, writerVars, tryVars, providerVars, readerVars
<1>1. ~Respawn
  BY DEF Respawn, SeqlockInv, TypeOK
<1>2. life' = life
  BY <1>1 DEF Next, Producer, WriteBegin, StoreField, StoreWord, WriteEnd, Kill, Reader, ReadMagic,
     ReadVersion, ReadSeq1, ReadLen, CopyWord, ReadTimestamp, ReadSeq2, vars
<1> QED
  BY <1>1, <1>2

LEMMA LifeNext ==
  ASSUME SeqlockInv, LifeInv, [Next]_vars
  PROVE  LifeInv'
<1> USE SeqlockAssumption DEF slotVars, writerVars, tryVars, providerVars, readerVars
<1> SUFFICES ASSUME life = 0, ~Respawn, FirstLife
             PROVE  FirstLife'
  BY FirstLifeBefore DEF LifeInv
<1>1. ASSUME NEW n \in 1..MaxPayload + 1, WriteBegin(n)
      PROVE  FirstLife'
  <2>1. seq' = seq + 1 /\ seq \in Nat /\ lastSeq \in Nat
    BY <1>1 DEF WriteBegin, InProgress, SeqlockInv, TypeOK, SlotInv
  <2> QED
    BY <1>1, <2>1 DEF WriteBegin, FirstLife, SequenceNamesSnapshot
<1>2. ASSUME NEW f \in HeaderField, StoreField(f)
      PROVE  FirstLife'
  BY <1>2 DEF StoreField, FirstLife, SequenceNamesSnapshot
<1>3. ASSUME NEW i \in Word, StoreWord(i)
      PROVE  FirstLife'
  BY <1>3 DEF StoreWord, FirstLife, SequenceNamesSnapshot
<1>4. ASSUME WriteEnd
      PROVE  FirstLife'
  <2>1. seq' = seq + 1 /\ seq \in Nat /\ lastSeq \in Nat
    BY <1>4 DEF WriteEnd, SeqlockInv, TypeOK, CopyInv
  <2> QED
    BY <1>4, <2>1 DEF WriteEnd, FirstLife, SequenceNamesSnapshot
<1>5. ASSUME Kill
      PROVE  FirstLife'
  BY <1>5 DEF Kill, FirstLife, SequenceNamesSnapshot
<1>7. ASSUME Retry, UNCHANGED <<slotVars, writerVars, lastSeq, merged>>
      PROVE  FirstLife'
  <2>1. outcome' = outcome \/ outcome'.kind # "snapshot"
    BY <1>7 DEF Retry, Return, Failure
  <2> QED
    BY <1>7, <2>1 DEF FirstLife, SequenceNamesSnapshot
<1>8. ASSUME Reader, ~ReadSeq2
      PROVE  FirstLife'
  <2>1. UNCHANGED <<slotVars, writerVars, lastSeq, merged>>
    BY <1>8 DEF Reader, ReadMagic, ReadVersion, ReadSeq1, ReadLen, CopyWord, ReadTimestamp
  <2>2. outcome' = outcome \/ Retry \/ outcome'.kind # "snapshot"
    BY <1>8 DEF Reader, ReadMagic, ReadVersion, ReadSeq1, ReadLen, CopyWord, ReadTimestamp,
       Return, Failure
  <2> QED
    BY <1>7, <2>1, <2>2 DEF FirstLife, SequenceNamesSnapshot
<1>9. ASSUME ReadSeq2
      PROVE  FirstLife'
  <2>1. CASE ~Accepts(seq)
    BY <1>7, <1>9, <2>1 DEF ReadSeq2
  <2>2. CASE Accepts(seq) /\ IsNew(rseq)
    <3>1. merged' = [ids |-> {published.id}, len |-> published.len] /\ lastSeq' = seq
      BY <1>9, <2>2, AcceptedData DEF LifeInv, ReadSeq2
    <3> QED
      BY <1>9, <2>2, <3>1, AcceptedData DEF LifeInv, ReadSeq2, FirstLife, SequenceNamesSnapshot, SeqlockInv,
         TypeOK
  <2>3. CASE Accepts(seq) /\ ~IsNew(rseq)
    BY <1>9, <2>3, AcceptedData DEF LifeInv, ReadSeq2, IsNew, FirstLife, SequenceNamesSnapshot
  <2> QED
    BY <2>1, <2>2, <2>3
<1>10. CASE UNCHANGED vars
  BY <1>10 DEF vars, FirstLife, SequenceNamesSnapshot
<1> QED
  BY <1>1, <1>2, <1>3, <1>4, <1>5, <1>8, <1>9, <1>10 DEF Next, Producer

(* Until the producer is started again the values merged are those of the  *)
(* snapshot read last, so that no snapshot is taken for an older one.      *)
THEOREM SequenceNames == Spec => []SequenceNamesSnapshot
<1>1. Init => LifeInv
  BY DEF Init, LifeInv, FirstLife, SequenceNamesSnapshot, Failure
<1>2. SeqlockInv /\ LifeInv /\ [Next]_vars => LifeInv'
  BY LifeNext
<1>3. LifeInv => SequenceNamesSnapshot
  BY DEF LifeInv, FirstLife, SequenceNamesSnapshot
<1> QED
  BY <1>1, <1>2, <1>3, SeqlockInvariance, PTL DEF Spec

\* What the refinement mapping makes of the values merged last.
LEMMA MergedNothing ==
  ASSUME merged = [ids |-> {}, len |-> 0]
  PROVE  MergedSnapshot = [id |-> 0, len |-> 0]
BY DEF MergedSnapshot

LEMMA MergedValueNext ==
  ASSUME NEW id \in 1..MaxWrites, NEW n, merged' = [ids |-> {id}, len |-> n]
  PROVE  MergedSnapshot' = [id |-> id, len |-> n]
<1>1. merged'.ids = {id} /\ merged'.len = n /\ merged'.ids # {}
  OBVIOUS
<1>2. id = CHOOSE x \in 1..MaxWrites : merged'.ids = {x}
  BY <1>1
<1> QED
  BY <1>1, <1>2 DEF MergedSnapshot

(* Every step of the seqlock is a step of the atomic register or leaves it *)
(* as it is.                                                               *)
LEMMA StepSimulates ==
  ASSUME SeqlockInv, LifeInv, TypeOK', [Next]_vars, life' = 0
  PROVE  [Slot!Next]_(Slot!vars)
<1> USE DEF slotVars, writerVars, tryVars, providerVars, readerVars
<1>0. life = 0 /\ ~Respawn
  BY FirstLifeBefore
<1>1. ASSUME UNCHANGED <<published, merged>>
      PROVE  UNCHANGED Slot!vars
  BY <1>1 DEF Slot!vars, MergedSnapshot
<1>2. CASE WriteEnd
  <2>1. published' \in [id : 0..MaxWrites, len : 0..MaxPayload] /\ published'.id = writes
        /\ writes > published.id
    BY <1>2 DEF WriteEnd, SeqlockInv, CopyInv, TypeOK
  <2>2. MergedSnapshot' = MergedSnapshot
    BY <1>2 DEF WriteEnd, MergedSnapshot
  <2> QED
    BY <2>1, <2>2 DEF Slot!Next, Slot!Publish, Slot!Snapshot
<1>3. CASE ReadSeq2
  <2>1. CASE Accepts(seq) /\ IsNew(rseq)
    <3>1. merged' = [ids |-> {published.id}, len |-> published.len] /\ published' = published
          /\ published.id \in 1..MaxWrites
      BY <1>0, <1>3, <2>1, AcceptedData DEF ReadSeq2
    <3>2. MergedSnapshot' = [id |-> published.id, len |-> published.len]
      BY <3>1, MergedValueNext
    <3>3. published = [id |-> published.id, len |-> published.len]
      BY DEF SeqlockInv, TypeOK
    <3>4. published # [id |-> 0, len |-> 0]
      BY <3>1
    <3> QED
      BY <3>1, <3>2, <3>3, <3>4 DEF Slot!Next, Slot!Deliver, Slot!Unwritten
  <2>2. CASE ~(Accepts(seq) /\ IsNew(rseq))
    BY <1>1, <1>3, <2>2 DEF ReadSeq2
  <2> QED
    BY <2>1, <2>2
<1>4. CASE Producer /\ ~WriteEnd
  BY <1>1, <1>4 DEF Producer, WriteBegin, StoreField, StoreWord
<1>5. CASE Kill
  BY <1>1, <1>5 DEF Kill
<1>6. CASE Reader /\ ~ReadSeq2
  BY <1>1, <1>6 DEF Reader, ReadMagic, ReadVersion, ReadSeq1, ReadLen, CopyWord, ReadTimestamp
<1>7. CASE UNCHANGED vars
  BY <1>1, <1>7 DEF vars
<1> QED
  BY <1>0, <1>2, <1>3, <1>4, <1>5, <1>6, <1>7 DEF Next

(* The seqlock implements the atomic snapshot register until the producer  *)
(* is started again.                                                       *)
THEOREM SeqlockImplementsSlot == Spec => SlotSpec
<1>1. Init => LifeInv
  BY DEF Init, LifeInv, FirstLife, SequenceNamesSnapshot, Failure
<1>2. SeqlockInv /\ LifeInv /\ [Next]_vars => LifeInv'
  BY LifeNext
<1>3. Init => Slot!Init
  BY MergedNothing DEF Init, Slot!Init, Slot!Unwritten
<1>4. SeqlockInv /\ SeqlockInv' /\ LifeInv /\ [Next]_vars => [life' = 0 => Slot!Next]_(Slot!vars)
  BY StepSimulates DEF SeqlockInv
<1> QED
  BY <1>1, <1>2, <1>3, <1>4, SeqlockInvariance, PTL DEF Spec, SlotSpec
=============================================================================
