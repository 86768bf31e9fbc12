-------------------------- MODULE FrameCacheProofs --------------------------
(***************************************************************************)
(* Theorems about FrameCache, for every number of chunks and every set of  *)
(* chunk contents.  The inductive invariant says what a panel that is      *)
(* reached holds at each stage of a frame: the chunks already passed are   *)
(* those of the image, the others those of the cached frame, and of the    *)
(* chunk at hand nobody knows, because its write may have failed after it  *)
(* arrived.                                                                *)
(***************************************************************************)
EXTENDS FrameCache, TLAPS

\* A frame is cached only while the cache is on and the handle is open.
CachedInv ==
  /\ hasFrame => useCache
  /\ pc = "closed" => ~hasFrame

\* A frame starts with its first chunk.
StartInv == pc = "start" => idx = 1

\* Between two frames a reachable panel holds and shows the cached frame.
RestInv ==
  linked /\ hasFrame =>
    /\ pc \in {"idle", "start"} => received = frame
    /\ pc = "idle" => shown = frame

\* In the middle of a frame.
AssemblyInv ==
  pc = "chunk" /\ linked =>
    /\ \A c \in Chunk : c < idx => received[c] = image[c]
    /\ hasFrame => \A c \in Chunk : c > idx => received[c] = frame[c]
    /\ hasFrame => \A c \in Chunk : c = idx => received[c] \in {frame[c], image[c]}

\* After the end command.
EndInv == pc = "flush" /\ linked => received = image /\ shown = image

Inv == TypeOK /\ CachedInv /\ StartInv /\ RestInv /\ AssemblyInv /\ EndInv

USE DEF Retries, AfterError, CacheAfterDrop, FrameAfter, Keeps

-----------------------------------------------------------------------------
(* A command that was complete when the last chunk was passed is the image. *)
LEMMA Assembled ==
  ASSUME Inv, Ending, linked
  PROVE  received = image
<1>1. \A c \in Chunk : received[c] = image[c]
  <2> SUFFICES ASSUME NEW c \in Chunk PROVE received[c] = image[c]
    OBVIOUS
  <2>1. c < idx
    BY FrameCacheAssumption DEF Ending, Chunk
  <2> QED
    BY <2>1 DEF Inv, AssemblyInv, Ending
<1> QED
  BY <1>1 DEF Inv, TypeOK, Image

(* The initial states satisfy the invariant: nothing is cached yet.        *)
LEMMA InitInv == Init => Inv
<1> SUFFICES ASSUME Init PROVE Inv
  OBVIOUS
<1>1. TypeOK
  <2>1. (CHOOSE v \in Value : TRUE) \in Value
    BY FrameCacheAssumption
  <2>2. frame \in Image
    BY <2>1 DEF Init, Image
  <2>3. idx \in 1..NChunks + 1 /\ retry \in 0..MaxRetries
    BY FrameCacheAssumption DEF Init
  <2> QED
    BY <2>2, <2>3 DEF Init, TypeOK
<1> QED
  BY <1>1 DEF Init, Inv, CachedInv, StartInv, RestInv, AssemblyInv, EndInv

-----------------------------------------------------------------------------
(* Every step keeps the types.                                             *)
LEMMA TypeStep == TypeOK /\ [Next]_vars => TypeOK'
<1> SUFFICES ASSUME TypeOK, [Next]_vars PROVE TypeOK'
  OBVIOUS
<1> USE FrameCacheAssumption DEF TypeOK, panelVars, linkVars, cacheVars, callVars
<1>1. ASSUME NEW img \in Image, SendImage(img) PROVE TypeOK'
  BY <1>1 DEF SendImage
<1>2. CASE SendStart
  BY <1>2 DEF SendStart
<1>3. CASE SkipChunk
  BY <1>3 DEF SkipChunk, Chunk
<1>4. CASE SendChunk
  <2>1. received' \in Image
    BY <1>4 DEF SendChunk, Patched, Sending, Image
  <2>2. idx' \in 1..NChunks + 1
    BY <1>4 DEF SendChunk, Sending, Chunk
  <2> QED
    BY <1>4, <2>1, <2>2 DEF SendChunk
<1>5. CASE SendEnd
  BY <1>5 DEF SendEnd
<1>6. CASE Flush
  BY <1>6 DEF Flush
<1>7. CASE WriteFails
  <2>1. received' \in Image /\ shown' \in Image
    BY <1>7 DEF WriteFails, Patched, Sending, Image
  <2>2. retry' \in 0..MaxRetries
    BY <1>7 DEF WriteFails
  <2> QED
    BY <1>7, <2>1, <2>2 DEF WriteFails
<1>8. CASE FlushFails
  BY <1>8 DEF FlushFails
<1>9. CASE CommandFails
  BY <1>9 DEF CommandFails
<1>10. CASE Recover
  BY <1>10 DEF Recover, Drop, Reopen
<1>11. ASSUME NEW b \in BOOLEAN, EnableCache(b) PROVE TypeOK'
  BY <1>11 DEF EnableCache
<1>12. CASE ClearCache
  BY <1>12 DEF ClearCache
<1>13. CASE PanelResets
  BY <1>13 DEF PanelResets
<1>14. CASE HealthChanges
  BY <1>14 DEF HealthChanges
<1>15. CASE UNCHANGED vars
  BY <1>15 DEF vars
<1> QED
  BY <1>1, <1>2, <1>3, <1>4, <1>5, <1>6, <1>7, <1>8, <1>9, <1>10, <1>11, <1>12,
     <1>13, <1>14, <1>15 DEF Next, Call

(* Every step keeps what is known of the panel and of the cached frame.    *)
LEMMA InvStep == Inv /\ [Next]_vars => Inv'
<1> SUFFICES ASSUME Inv, [Next]_vars PROVE Inv'
  OBVIOUS
<1>t. TypeOK'
  BY TypeStep DEF Inv
<1> USE <1>t DEF Inv, CachedInv, StartInv, RestInv, AssemblyInv, EndInv, panelVars, linkVars,
        cacheVars, callVars
<1>1. ASSUME NEW img \in Image, SendImage(img) PROVE Inv'
  BY <1>1 DEF SendImage
<1>2. CASE SendStart
  BY <1>2 DEF SendStart, Chunk
<1>3. CASE SkipChunk
  BY <1>3 DEF SkipChunk, Unchanged, Chunk, TypeOK
<1>4. CASE SendChunk
  <2>1. received'[idx] = image[idx] /\ \A c \in Chunk : c # idx => received'[c] = received[c]
    BY <1>4 DEF SendChunk, Patched, Sending, TypeOK, Image
  <2>2. AssemblyInv'
    BY <1>4, <2>1 DEF SendChunk, Sending, Chunk, TypeOK
  <2> QED
    BY <1>4, <2>2 DEF SendChunk, Sending
<1>5. CASE SendEnd
  BY <1>5, Assembled DEF SendEnd, Ending
<1>6. CASE Flush
  BY <1>6 DEF Flush
<1>7. CASE WriteFails
  <2>1. CASE pc = "start"
    BY <1>7, <2>1 DEF WriteFails, Sending, Ending
  <2>2. CASE Sending
    <3>1. \A c \in Chunk : received'[c] = received[c] \/ (c = idx /\ received'[c] = image[c])
      BY <1>7, <2>2 DEF WriteFails, Patched, Sending, Ending, TypeOK, Image
    <3>2. AssemblyInv'
      BY <1>7, <2>2, <3>1, FrameCacheAssumption DEF WriteFails, Sending, Chunk, TypeOK
    <3> QED
      BY <1>7, <2>2, <3>2 DEF WriteFails, Sending
  <2>3. CASE Ending
    <3>1. pc # "start" /\ ~Sending
      BY <2>3, FrameCacheAssumption DEF Sending, Ending, Chunk
    <3>2. received' = received /\ image' = image /\ idx' = idx /\ pc' \in {"chunk", "failed"}
      BY <1>7, <2>3, <3>1 DEF WriteFails, Ending
    <3> QED
      BY <1>7, <2>3, <3>2 DEF WriteFails, Ending
  <2> QED
    BY <1>7, <2>1, <2>2, <2>3 DEF WriteFails
<1>8. CASE FlushFails
  BY <1>8 DEF FlushFails
<1>9. CASE CommandFails
  BY <1>9 DEF CommandFails
<1>10. CASE Recover
  BY <1>10 DEF Recover, Drop, Reopen
<1>11. ASSUME NEW b \in BOOLEAN, EnableCache(b) PROVE Inv'
  BY <1>11 DEF EnableCache
<1>12. CASE ClearCache
  BY <1>12 DEF ClearCache
<1>13. CASE PanelResets
  BY <1>13 DEF PanelResets
<1>14. CASE HealthChanges
  BY <1>14 DEF HealthChanges
<1>15. CASE UNCHANGED vars
  BY <1>15 DEF vars, TypeOK
<1> QED
  BY <1>1, <1>2, <1>3, <1>4, <1>5, <1>6, <1>7, <1>8, <1>9, <1>10, <1>11, <1>12,
     <1>13, <1>14, <1>15 DEF Next, Call

-----------------------------------------------------------------------------
(* The variables keep their types, whatever fails.                         *)
THEOREM TypeCorrect == Spec => []TypeOK
<1>1. Init => TypeOK
  BY InitInv DEF Inv
<1> QED
  BY <1>1, TypeStep, PTL DEF Spec

(* The inductive invariant of send_image and its recovery.                 *)
THEOREM Invariance == Spec => []Inv
  BY InitInv, InvStep, PTL DEF Spec

(* AooScreen never keeps a frame that a panel it reaches does not show:    *)
(* the chunks it skips are right.                                          *)
THEOREM CacheIsRight == Spec => []CacheIsShown
<1>1. Inv => CacheIsShown
  BY DEF Inv, RestInv, CacheIsShown
<1> QED
  BY <1>1, Invariance, PTL

(* send_image returns Ok only when the panel shows its whole argument.     *)
THEOREM OkIsRight == Spec => OkMeansShown
<1>1. Inv /\ [Next]_vars => [pc = "flush" /\ pc' = "idle" => shown = image]_vars
  BY DEF Inv, EndInv, Next, Call, Flush, SendImage, SendStart, SkipChunk, SendChunk,
     SendEnd, WriteFails, FlushFails, CommandFails, Recover, Drop, Reopen, EnableCache,
     ClearCache, PanelResets, HealthChanges, Sending, Ending, panelVars, linkVars,
     cacheVars, callVars, vars
<1> QED
  BY <1>1, Invariance, PTL DEF Spec, OkMeansShown

(* A reachable panel only ever switches to a whole image, although the     *)
(* frame before may have been given up after any of its chunks.            *)
THEOREM SwitchesWhole == Spec => NeverMixed
<1>1. Inv /\ [Next]_vars => [shown' # shown => shown' = image \/ ~linked']_vars
  <2> SUFFICES ASSUME Inv, Next, shown' # shown PROVE shown' = image \/ ~linked'
    OBVIOUS
  <2>1. CASE SendEnd
    BY <2>1, Assembled DEF SendEnd
  <2>2. CASE WriteFails
    BY <2>2, Assembled DEF WriteFails, Sending, panelVars
  <2>3. CASE PanelResets
    BY <2>3 DEF PanelResets
  <2> QED
    BY <2>1, <2>2, <2>3 DEF Next, Call, Flush, SendImage, SendStart, SkipChunk, SendChunk,
       FlushFails, CommandFails, Recover, Drop, Reopen, EnableCache, ClearCache,
       HealthChanges, panelVars
<1> QED
  BY <1>1, Invariance, PTL DEF Spec, NeverMixed
=============================================================================
