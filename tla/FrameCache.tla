----------------------------- MODULE FrameCache -----------------------------
(***************************************************************************)
(* Sending frames to the LCD: AooScreen::send_image, the retries of        *)
(* AooScreen::write and the reconnect of                                   *)
(* crates/asterctl-lcd/src/aoo_screen.rs, as the panel loop of             *)
(* crates/asterctl/src/main.rs uses them.  A frame is a start command, the *)
(* chunks that differ from the cached frame, and an end command that makes *)
(* the panel show what it has received.  Every command may fail, after the *)
(* panel has received it or without, and the panel may lose its contents.  *)
(*                                                                         *)
(* The panel is not part of the repository: it is modelled from            *)
(* docs/lcd_protocol.md.  A command arrives whole or not at all, and a     *)
(* panel that was reset is not reached through the old handle.             *)
(***************************************************************************)
EXTENDS Naturals

CONSTANTS
  NChunks,     \* chunks of an image
  Value,       \* contents of a chunk
  MaxRetries   \* SERIAL_RETRY

ASSUME FrameCacheAssumption ==
  /\ NChunks \in Nat \ {0}
  /\ MaxRetries \in Nat
  /\ Value # {}

Chunk == 1..NChunks
Image == [Chunk -> Value]

VARIABLES
  \* the panel and the link to it
  received,    \* the image the panel assembles
  shown,       \* the image the panel shows
  linked,      \* the serial handle reaches the panel
  healthy,     \* the environment lets commands succeed
  \* AooScreen
  useCache,    \* enable_cache
  hasFrame,    \* prev_frame is Some
  frame,       \* its contents
  \* the call in progress
  pc,          \* "idle", "start", "chunk", "flush", "failed", "closed"
  image,       \* the image to send
  idx,         \* the next chunk
  retry        \* retries of the current write

panelVars == <<received, shown>>
linkVars == <<linked, healthy>>
cacheVars == <<useCache, hasFrame, frame>>
callVars == <<pc, image, idx, retry>>
vars == <<panelVars, linkVars, cacheVars, callVars>>

\* The port was just opened and initialized; what the panel holds is unknown.
Init ==
  /\ received \in Image /\ shown \in Image
  /\ linked = TRUE /\ healthy = TRUE
  /\ useCache \in BOOLEAN
  /\ hasFrame = FALSE
  /\ frame = [c \in Chunk |-> CHOOSE v \in Value : TRUE]
  /\ pc = "idle"
  /\ image = frame
  /\ idx = 1
  /\ retry = 0

-----------------------------------------------------------------------------
(* send_image.                                                             *)

SendImage(img) ==
  /\ pc = "idle"
  /\ image' = img
  /\ idx' = 1
  /\ retry' = 0
  /\ pc' = "start"
  /\ UNCHANGED <<panelVars, linkVars, cacheVars>>

SendStart ==
  /\ pc = "start"
  /\ linked
  /\ pc' = "chunk"
  /\ retry' = 0
  /\ UNCHANGED <<panelVars, linkVars, cacheVars, image, idx>>

\* The chunk need not be sent.
Unchanged(c) == useCache /\ hasFrame /\ frame[c] = image[c]

SkipChunk ==
  /\ pc = "chunk"
  /\ idx \in Chunk
  /\ Unchanged(idx)
  /\ idx' = idx + 1
  /\ UNCHANGED <<panelVars, linkVars, cacheVars, pc, image, retry>>

Sending == pc = "chunk" /\ idx \in Chunk /\ ~Unchanged(idx)

\* What the panel does with a chunk: it keeps the others from before.
Patched == [received EXCEPT ![idx] = image[idx]]

SendChunk ==
  /\ Sending
  /\ linked
  /\ received' = Patched
  /\ idx' = idx + 1
  /\ retry' = 0
  /\ UNCHANGED <<shown, linkVars, cacheVars, pc, image>>

Ending == pc = "chunk" /\ idx = NChunks + 1

\* The panel switches to the new image.
SendEnd ==
  /\ Ending
  /\ linked
  /\ shown' = received
  /\ pc' = "flush"
  /\ retry' = 0
  /\ UNCHANGED <<received, linkVars, cacheVars, image, idx>>

\* The image that was sent becomes the cached frame.
Keeps == useCache

Flush ==
  /\ pc = "flush"
  /\ linked
  /\ frame' = IF Keeps THEN image ELSE frame
  /\ hasFrame' = (hasFrame \/ Keeps)
  /\ pc' = "idle"
  /\ UNCHANGED <<panelVars, linkVars, useCache, image, idx, retry>>

-----------------------------------------------------------------------------
(* Failures.                                                               *)

MayFail == ~healthy \/ ~linked

\* Fault: one retry more than SERIAL_RETRY.
RetriesAtLimit == retry <= MaxRetries

Retries == retry < MaxRetries

\* Fault: the panel loop goes on with the same handle.
GoesOn == "idle"

\* What the panel loop does with an error: it reconnects.
AfterError == "failed"

(* One error of write_all: the command may have arrived all the same.  The *)
(* write is repeated, unless this was the last retry or the port does not  *)
(* even answer how many bytes are queued.                                  *)
WriteFails ==
  /\ MayFail
  /\ \/ pc = "start" /\ UNCHANGED panelVars
     \/ Sending /\ received' \in {received} \union {x \in {Patched} : linked} /\ UNCHANGED shown
     \/ Ending /\ shown' \in {shown} \union {x \in {received} : linked} /\ UNCHANGED received
  /\ \/ Retries /\ retry' = retry + 1 /\ UNCHANGED pc
     \/ pc' = AfterError /\ UNCHANGED retry
  /\ UNCHANGED <<linkVars, cacheVars, image, idx>>

FlushFails ==
  /\ pc = "flush"
  /\ MayFail
  /\ pc' = AfterError
  /\ UNCHANGED <<panelVars, linkVars, cacheVars, image, idx, retry>>

\* on() or off() between two frames fails.
CommandFails ==
  /\ pc = "idle"
  /\ MayFail
  /\ pc' = AfterError
  /\ UNCHANGED <<panelVars, linkVars, cacheVars, image, idx, retry>>

\* Fault: the cache survives a reconnect.
CacheKept == hasFrame

\* prev_frame after the handle was dropped.
CacheAfterDrop == FALSE

\* Every failure leads to reconnect_with_retry, which drops the handle first.
Drop ==
  /\ pc = "failed"
  /\ hasFrame' = CacheAfterDrop
  /\ linked' = FALSE
  /\ pc' = "closed"
  /\ UNCHANGED <<panelVars, healthy, useCache, frame, image, idx, retry>>

\* An attempt succeeds at last, and the panel loop goes on.
Reopen ==
  /\ pc = "closed"
  /\ linked' = TRUE
  /\ pc' = "idle"
  /\ UNCHANGED <<panelVars, healthy, cacheVars, image, idx, retry>>

-----------------------------------------------------------------------------
(* The rest of the interface, and the environment.                         *)

\* Fault: switching the cache off keeps the frame.
FrameKept(enable) == hasFrame

\* prev_frame after enable_cache(enable).
FrameAfter(enable) == hasFrame /\ enable

EnableCache(enable) ==
  /\ pc = "idle"
  /\ useCache' = enable
  /\ hasFrame' = FrameAfter(enable)
  /\ UNCHANGED <<panelVars, linkVars, frame, callVars>>

ClearCache ==
  /\ pc = "idle"
  /\ hasFrame' = FALSE
  /\ UNCHANGED <<panelVars, linkVars, useCache, frame, callVars>>

\* The panel loses power, or its USB device is enumerated again.
PanelResets ==
  /\ ~healthy
  /\ linked' = FALSE
  /\ received' \in Image /\ shown' \in Image
  /\ UNCHANGED <<healthy, cacheVars, callVars>>

HealthChanges ==
  /\ healthy' = ~healthy
  /\ UNCHANGED <<panelVars, linked, cacheVars, callVars>>

-----------------------------------------------------------------------------
Call == SendStart \/ SkipChunk \/ SendChunk \/ SendEnd \/ Flush

Recover == Drop \/ Reopen

Next ==
  \/ \E img \in Image : SendImage(img)
  \/ Call \/ WriteFails \/ FlushFails \/ CommandFails \/ Recover
  \/ (\E b \in BOOLEAN : EnableCache(b)) \/ ClearCache
  \/ PanelResets \/ HealthChanges

Spec == Init /\ [][Next]_vars

(* asterctl runs and renders again and again; a write that cannot succeed  *)
(* times out; a panel that is there is opened at last.                     *)
FairSpec ==
  /\ Spec
  /\ WF_vars(Call)
  /\ WF_vars(Recover)
  /\ WF_vars(~linked /\ (WriteFails \/ FlushFails))
  /\ WF_vars(~linked /\ pc = "start" /\ WriteFails)
  /\ SF_vars(\E img \in Image : SendImage(img))

-----------------------------------------------------------------------------
(* Properties.                                                             *)

TypeOK ==
  /\ received \in Image /\ shown \in Image /\ frame \in Image /\ image \in Image
  /\ linked \in BOOLEAN /\ healthy \in BOOLEAN
  /\ useCache \in BOOLEAN /\ hasFrame \in BOOLEAN
  /\ pc \in {"idle", "start", "chunk", "flush", "failed", "closed"}
  /\ idx \in 1..NChunks + 1
  /\ retry \in 0..MaxRetries

(* A cached frame is what the panel shows: skipping its chunks is right.   *)
(* No failure, retry, reset or change of the cache setting in between may  *)
(* leave a cached frame behind that the panel does not have.               *)
CacheIsShown == pc = "idle" /\ linked /\ hasFrame => shown = frame

(* send_image returns Ok only when the panel shows exactly the image that  *)
(* was given, although only a part of it was sent.                         *)
OkMeansShown == [][pc = "flush" /\ pc' = "idle" => shown = image]_vars

(* The panel never switches to a mixture of two frames, not even when an   *)
(* earlier one was given up halfway: main.rs promises that "the next send  *)
(* is a full frame that repairs whatever the display was left showing".    *)
NeverMixed == [][shown' # shown => shown' = image \/ ~linked']_vars

(* Once commands succeed again, new frames are shown again and again.      *)
FramesGoOn == (<>[]healthy) => []<>(pc = "flush" /\ shown = image)
=============================================================================
