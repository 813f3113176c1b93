----------------------------- MODULE AudioMixer -----------------------------
(***************************************************************************)
(* The music half of runtime/audio/dsound.c: the game thread, which loads, *)
(* starts and stops the track through DirectShow (runtime/win32/dshow.c)   *)
(* and opens, pauses and destroys the SDL stream, against the SDL audio    *)
(* thread, which calls feed() and mixes one slice at a time under mix_lock.*)
(*                                                                         *)
(* Each thread has a program counter.  A critical section whose body is a  *)
(* single assignment is one step that needs the lock to be free; one that  *)
(* assigns several shared variables takes one step per assignment, so that *)
(* everything the audio thread could see in between is a state.            *)
(*                                                                         *)
(* SDL is external: a device callback runs only while the stream is        *)
(* resumed, and pausing, resuming or destroying the stream waits for a     *)
(* callback in flight.                                                     *)
(***************************************************************************)
EXTENDS Integers

CONSTANTS
    Block,      \* heap blocks the decoder can return
    NoBlock,    \* the null pointer
    MaxFrames,  \* the longest track, in frames
    MixSlice,   \* MIX_SLICE: frames mixed under one acquisition of mix_lock
    MaxPull,    \* the largest request of the device, in frames
    Volume,     \* the gains the game asks for
    DumpMix     \* whether LF2_AUDIO_DUMP_MIX names a recording

ASSUME BlockAssumption == NoBlock \notin Block
ASSUME SizeAssumption == /\ MaxFrames \in Nat \ {0}
                         /\ MixSlice \in Nat \ {0}
                         /\ MaxPull \in Nat \ {0}
ASSUME DumpAssumption == DumpMix \in BOOLEAN

VARIABLES
    lock,          \* mix_lock: not yet created, free, or held by a thread
    stream,        \* the SDL stream: absent, paused or running
    initializing,  \* audio_initializing
    pcm,           \* mus_pcm
    frames,        \* mus_frames
    pos,           \* mus_pos
    playing,       \* mus_playing
    gain,          \* mus_gain
    heap,          \* frames allocated in each block, 0 when it is free
    dump,          \* mix_dump: none, open, patched (header final) or closed
    dumpExact,     \* nothing was written to the recording past its header
    gpc, gret,     \* the game thread: where it is, where audio_start returns
    fresh, freshFrames, stale,       \* locals of music_load
    apc, asked, done, chunk, todo    \* the audio thread: feed and mix_slice

device == <<stream, initializing>>
music == <<pcm, frames, pos, playing, gain>>
recording == <<dump, dumpExact>>
world == <<device, music, heap, recording>>
gameLocals == <<fresh, freshFrames, stale>>
gameThread == <<gpc, gret, gameLocals>>
audioThread == <<apc, asked, done, chunk, todo>>
vars == <<lock, world, gameThread, audioThread>>

Init ==
    /\ lock = "absent" /\ stream = "absent" /\ initializing = FALSE
    /\ pcm = NoBlock /\ frames = 0 /\ pos = 0 /\ playing = FALSE
    /\ gain \in Volume
    /\ heap = [b \in Block |-> 0]
    /\ dump = "none" /\ dumpExact = TRUE
    /\ gpc = "idle" /\ gret = "idle"
    /\ fresh = NoBlock /\ freshFrames = 0 /\ stale = NoBlock
    /\ apc = "wait" /\ asked = 0 /\ done = 0 /\ chunk = 0 /\ todo = 0

-----------------------------------------------------------------------------
(* mix_lock.  Only the game thread creates and destroys it.                *)

EnsureLock == lock' = IF lock = "absent" THEN "free" ELSE lock

NotContended == lock \in {"absent", "free"}

CallbackInFlight == apc # "wait"

-----------------------------------------------------------------------------
(* The game thread: volume, stop, load.                                    *)

MusicSetVolume ==
    /\ gpc = "idle" /\ NotContended
    /\ EnsureLock
    /\ gain' \in Volume
    /\ UNCHANGED <<device, pcm, frames, pos, playing, heap, recording,
                   gameThread, audioThread>>

StopPlaying ==
    /\ gpc = "idle" /\ NotContended
    /\ EnsureLock
    /\ playing' = FALSE
    /\ UNCHANGED <<device, pcm, frames, pos, gain, heap, recording, gret,
                   gameLocals, audioThread>>

MusicStop == StopPlaying /\ gpc' = "idle"

\* music_load silences the old track first and keeps it allocated.
MusicLoad == StopPlaying /\ gpc' = "decode"

\* The decoder returns a new block, or fails: then the old track is replaced
\* by nothing through the same locked swap.
Decode ==
    /\ gpc = "decode" /\ gpc' = "publish"
    /\ \/ \E b \in Block, n \in 1 .. MaxFrames :
             /\ heap[b] = 0
             /\ heap' = [heap EXCEPT ![b] = n]
             /\ fresh' = b /\ freshFrames' = n
       \/ fresh' = NoBlock /\ freshFrames' = 0 /\ heap' = heap
    /\ UNCHANGED <<lock, device, music, recording, gret, stale, audioThread>>

PublishLock ==
    /\ gpc = "publish" /\ lock = "free"
    /\ lock' = "game" /\ stale' = pcm /\ gpc' = "publish_pcm"
    /\ UNCHANGED <<world, gret, fresh, freshFrames, audioThread>>

PublishPcm ==
    /\ gpc = "publish_pcm" /\ gpc' = "publish_frames"
    /\ pcm' = fresh /\ fresh' = NoBlock
    /\ UNCHANGED <<lock, device, frames, pos, playing, gain, heap, recording,
                   gret, freshFrames, stale, audioThread>>

PublishFrames ==
    /\ gpc = "publish_frames" /\ gpc' = "publish_pos"
    /\ frames' = freshFrames
    /\ UNCHANGED <<lock, device, pcm, pos, playing, gain, heap, recording,
                   gret, gameLocals, audioThread>>

PublishPos ==
    /\ gpc = "publish_pos" /\ gpc' = "free"
    /\ pos' = 0 /\ lock' = "free" /\ gret' = "idle"
    /\ UNCHANGED <<device, pcm, frames, playing, gain, heap, recording,
                   gameLocals, audioThread>>

FreeStale ==
    /\ gpc = "free" /\ gpc' = gret
    /\ heap' = [b \in Block |-> IF b = stale THEN 0 ELSE heap[b]]
    /\ stale' = NoBlock
    /\ UNCHANGED <<lock, device, music, recording, gret, fresh, freshFrames,
                   audioThread>>

-----------------------------------------------------------------------------
(* The game thread: start, and opening the device.                         *)

\* mus_pcm is read without the lock: only this thread writes it.
MusicStart ==
    /\ gpc = "idle" /\ pcm # NoBlock
    /\ gpc' = "open" /\ gret' = "rewind_lock"
    /\ UNCHANGED <<lock, world, gameLocals, audioThread>>

\* sb_Play opens the device too; its buffer is the business of SoundBuffers.
PlayEffect ==
    /\ gpc = "idle"
    /\ gpc' = "open" /\ gret' = "idle"
    /\ UNCHANGED <<lock, world, gameLocals, audioThread>>

AudioStartReturns ==
    /\ gpc = "open" /\ gpc' = gret    \* already open, or SDL has no audio
    /\ UNCHANGED <<lock, world, gret, gameLocals, audioThread>>

\* Mutant: the device is resumed without asking audio_initializing.
AudioStartResumes ==
    /\ gpc = "open" /\ stream = "absent"
    /\ EnsureLock
    /\ stream' = "paused" /\ gpc' = "resume"
    /\ UNCHANGED <<initializing, music, heap, recording, gret, gameLocals,
                   audioThread>>

AudioStart ==
    /\ gpc = "open" /\ stream = "absent"
    /\ EnsureLock
    /\ dump' = IF DumpMix /\ dump = "none" THEN "open" ELSE dump
    /\ \/ stream' = "absent" /\ gpc' = gret
       \/ stream' = "paused" /\ gpc' = IF initializing THEN gret ELSE "resume"
    /\ UNCHANGED <<initializing, music, heap, dumpExact, gret, gameLocals,
                   audioThread>>

Resume ==
    /\ gpc = "resume" /\ ~CallbackInFlight
    /\ stream' = "running" /\ gpc' = gret
    /\ UNCHANGED <<lock, initializing, music, heap, recording, gret,
                   gameLocals, audioThread>>

RewindLock ==
    /\ gpc = "rewind_lock" /\ lock = "free"
    /\ lock' = "game" /\ gpc' = "rewind"
    /\ UNCHANGED <<world, gret, gameLocals, audioThread>>

\* Mutant: the track starts at the cursor the last one left.
RewindForgotten ==
    /\ gpc = "rewind" /\ gpc' = "set_playing"
    /\ UNCHANGED <<lock, world, gret, gameLocals, audioThread>>

Rewind ==
    /\ gpc = "rewind" /\ gpc' = "set_playing"
    /\ pos' = 0
    /\ UNCHANGED <<lock, device, pcm, frames, playing, gain, heap, recording,
                   gret, gameLocals, audioThread>>

SetPlaying ==
    /\ gpc = "set_playing" /\ gpc' = "idle"
    /\ playing' = TRUE /\ lock' = "free"
    /\ UNCHANGED <<device, pcm, frames, pos, gain, heap, recording, gret,
                   gameLocals, audioThread>>

-----------------------------------------------------------------------------
(* The game thread: the silent interval around the startup data load.      *)

InitializationBegin ==
    /\ gpc = "idle" /\ ~initializing /\ NotContended
    /\ EnsureLock
    /\ initializing' = TRUE
    /\ gpc' = (IF stream = "absent" THEN "idle" ELSE "pause") /\ gret' = "idle"
    /\ UNCHANGED <<stream, music, heap, recording, gameLocals, audioThread>>

Pause ==
    /\ gpc = "pause" /\ ~CallbackInFlight
    /\ stream' = "paused" /\ gpc' = gret
    /\ UNCHANGED <<lock, initializing, music, heap, recording, gret,
                   gameLocals, audioThread>>

InitializationEnd ==
    /\ gpc = "idle" /\ initializing /\ NotContended
    /\ initializing' = FALSE
    /\ gpc' = (IF stream = "absent" THEN "idle" ELSE "resume")
    /\ gret' = "idle"
    /\ UNCHANGED <<lock, stream, music, heap, recording, gameLocals,
                   audioThread>>

-----------------------------------------------------------------------------
(* The game thread: exit.  The atexit handlers of app/main.c run last      *)
(* registered first, so the recording is closed before hostwin_shutdown    *)
(* reaches dsound_shutdown and stops the device.                           *)

Exit ==
    /\ gpc = "idle"
    /\ gpc' = IF dump = "open" THEN "dump_patch" ELSE "teardown"
    /\ UNCHANGED <<lock, world, gret, gameLocals, audioThread>>

DumpPatchHeader ==
    /\ gpc = "dump_patch" /\ gpc' = "dump_close"
    /\ dump' = "patched"
    /\ UNCHANGED <<lock, device, music, heap, dumpExact, gret, gameLocals,
                   audioThread>>

DumpClose ==
    /\ gpc = "dump_close" /\ gpc' = "teardown"
    /\ dump' = "closed"
    /\ UNCHANGED <<lock, device, music, heap, dumpExact, gret, gameLocals,
                   audioThread>>

\* Mutant: mix_lock is still held while the stream is paused.
TeardownHoldingLock ==
    /\ gpc = "teardown" /\ lock = "free" /\ stream # "absent"
    /\ lock' = "game"
    /\ playing' = FALSE /\ pos' = 0
    /\ stale' = pcm /\ pcm' = NoBlock /\ frames' = 0
    /\ gpc' = "pause" /\ gret' = "destroy_stream"
    /\ UNCHANGED <<device, gain, heap, recording, fresh, freshFrames,
                   audioThread>>

TeardownMusic ==
    /\ gpc = "teardown" /\ NotContended
    /\ IF lock = "absent"
          THEN UNCHANGED <<pcm, frames, pos, playing, stale>>
          ELSE /\ playing' = FALSE /\ pos' = 0
               /\ stale' = pcm /\ pcm' = NoBlock /\ frames' = 0
    /\ IF stream = "absent"
          THEN gpc' = "free" /\ gret' = "destroy_lock"
          ELSE gpc' = "pause" /\ gret' = "destroy_stream"
    /\ UNCHANGED <<lock, device, gain, heap, recording, fresh, freshFrames,
                   audioThread>>

DestroyStream ==
    /\ gpc = "destroy_stream" /\ ~CallbackInFlight
    /\ stream' = "absent"
    /\ gpc' = "free" /\ gret' = "destroy_lock"
    /\ UNCHANGED <<lock, initializing, music, heap, recording, gameLocals,
                   audioThread>>

DestroyLock ==
    /\ gpc = "destroy_lock" /\ gpc' = "exited"
    /\ lock' = "absent"
    /\ UNCHANGED <<world, gret, gameLocals, audioThread>>

Exited == gpc = "exited" /\ UNCHANGED vars

-----------------------------------------------------------------------------
(* The audio thread: one callback asks for some frames; feed satisfies it  *)
(* in slices, taking the lock for each.                                    *)

Pull(n) ==
    /\ apc = "wait" /\ stream = "running"
    /\ asked' = n /\ done' = 0
    /\ apc' = "slice"
    /\ UNCHANGED <<lock, world, gameThread, chunk, todo>>

NextChunk == IF asked - done > MixSlice THEN MixSlice ELSE asked - done

\* Mutant: the music is mixed above the lock (issue 5).
SliceUnguarded ==
    /\ apc = "slice"
    /\ chunk' = NextChunk /\ todo' = NextChunk
    /\ apc' = IF playing /\ pcm # NoBlock THEN "mix" ELSE "unlock"
    /\ UNCHANGED <<lock, world, gameThread, asked, done>>

SliceLock ==
    /\ apc = "slice" /\ NotContended
    /\ lock' = IF lock = "free" THEN "audio" ELSE lock
    /\ chunk' = NextChunk /\ todo' = NextChunk
    /\ apc' = IF playing /\ pcm # NoBlock THEN "mix" ELSE "unlock"
    /\ UNCHANGED <<world, gameThread, asked, done>>

\* The frame read in this step: mus_pcm[mus_pos] after the loop wrap.
ReadIndex == IF pos >= frames THEN 0 ELSE pos

MixFrame ==
    /\ apc = "mix"
    /\ pos' = ReadIndex + 1
    /\ todo' = todo - 1
    /\ apc' = IF todo = 1 THEN "unlock" ELSE "mix"
    /\ UNCHANGED <<lock, device, pcm, frames, playing, gain, heap, recording,
                   gameThread, asked, done, chunk>>

SliceUnlock ==
    /\ apc = "unlock"
    /\ lock' = IF lock = "audio" THEN "free" ELSE lock
    /\ apc' = IF dump \in {"open", "patched"} THEN "dump" ELSE "put"
    /\ UNCHANGED <<world, gameThread, asked, done, chunk, todo>>

\* mix_dump was seen non-null, without the lock; the write comes later.
DumpSlice ==
    /\ apc = "dump" /\ apc' = "put"
    /\ dumpExact' = (dumpExact /\ dump = "open")
    /\ UNCHANGED <<lock, device, music, heap, dump, gameThread, asked, done,
                   chunk, todo>>

PutSlice ==
    /\ apc = "put"
    /\ done' = done + chunk
    /\ apc' = IF done + chunk < asked THEN "slice" ELSE "wait"
    /\ UNCHANGED <<lock, world, gameThread, asked, chunk, todo>>

-----------------------------------------------------------------------------
GameThread ==
    \/ MusicSetVolume \/ MusicStop \/ MusicLoad
    \/ Decode \/ PublishLock \/ PublishPcm \/ PublishFrames \/ PublishPos
    \/ FreeStale
    \/ MusicStart \/ PlayEffect \/ AudioStartReturns \/ AudioStart \/ Resume
    \/ RewindLock \/ Rewind \/ SetPlaying
    \/ InitializationBegin \/ Pause \/ InitializationEnd
    \/ Exit \/ DumpPatchHeader \/ DumpClose
    \/ TeardownMusic \/ DestroyStream \/ DestroyLock \/ Exited

Callback ==
    \/ SliceLock \/ MixFrame \/ SliceUnlock \/ DumpSlice \/ PutSlice

AudioThread == Callback \/ \E n \in 1 .. MaxPull : Pull(n)

Next == GameThread \/ AudioThread

Spec == Init /\ [][Next]_vars

(* A call the game has made runs on, and so does a callback.  The mutex is *)
(* not held for ever by either side and the device sleeps a period between *)
(* callbacks, so a thread that waits for the other gets its turn: strong   *)
(* fairness for the steps that wait.  Nothing makes the game call or exit. *)
GameRuns ==
    \/ Decode \/ PublishPcm \/ PublishFrames \/ PublishPos \/ FreeStale
    \/ AudioStartReturns \/ AudioStart \/ Rewind \/ SetPlaying
    \/ DumpPatchHeader \/ DumpClose \/ DestroyLock

GameWaits ==
    \/ PublishLock \/ RewindLock \/ TeardownMusic
    \/ Resume \/ Pause \/ DestroyStream

Fairness ==
    /\ WF_vars(GameRuns) /\ SF_vars(GameWaits)
    /\ WF_vars(Callback) /\ SF_vars(SliceLock)

FairSpec == Spec /\ Fairness

-----------------------------------------------------------------------------
GameLabels ==
    {"idle", "decode", "publish", "publish_pcm", "publish_frames",
     "publish_pos", "free", "open", "resume", "rewind_lock", "rewind",
     "set_playing", "pause", "dump_patch", "dump_close", "teardown",
     "destroy_stream", "destroy_lock", "exited"}

AudioLabels == {"wait", "slice", "mix", "unlock", "dump", "put"}

(* The types of dsound.c's globals: the cursor and every length fit the    *)
(* track, a slice fits MIX_SLICE and a pull what was asked.                *)
TypeOK ==
    /\ lock \in {"absent", "free", "game", "audio"}
    /\ stream \in {"absent", "paused", "running"}
    /\ initializing \in BOOLEAN /\ playing \in BOOLEAN
    /\ pcm \in Block \cup {NoBlock}
    /\ frames \in 0 .. MaxFrames /\ pos \in 0 .. MaxFrames
    /\ gain \in Volume
    /\ heap \in [Block -> 0 .. MaxFrames]
    /\ dump \in {"none", "open", "patched", "closed"} /\ dumpExact \in BOOLEAN
    /\ gpc \in GameLabels
    /\ gret \in {"idle", "rewind_lock", "destroy_stream", "destroy_lock"}
    /\ fresh \in Block \cup {NoBlock} /\ freshFrames \in 0 .. MaxFrames
    /\ stale \in Block \cup {NoBlock}
    /\ apc \in AudioLabels
    /\ asked \in 0 .. MaxPull /\ done \in 0 .. MaxPull
    /\ chunk \in 0 .. MixSlice /\ todo \in 0 .. MixSlice

(* Use after free and overrun: whenever the mixer is about to read a frame *)
(* (dsound.c 272-279), the block is allocated and mus_frames is its own    *)
(* length, so mus_pcm[mus_pos] lies inside it.                             *)
MixerReadsLiveTrack ==
    apc = "mix" => /\ pcm # NoBlock
                   /\ heap[pcm] > 0
                   /\ ReadIndex < heap[pcm]

(* Ownership: the allocated blocks are those mus_pcm, the decoder's result *)
(* and the track being retired name, each by one of them but for the old   *)
(* track inside the swap; so no step frees twice and none leaks.           *)
TracksOwnedOnce ==
    /\ \A b \in Block : heap[b] > 0 <=> b \in {pcm, fresh, stale}
    /\ fresh # NoBlock => fresh \notin {pcm, stale}
    /\ stale # NoBlock => (stale = pcm <=> gpc = "publish_pcm")

(* While the data load of boot_guest.c holds the mixer silent, no callback *)
(* is in flight and none can start, whatever the guest plays meanwhile.    *)
SilentWhileInitializing ==
    initializing /\ gpc # "pause" =>
        stream # "running" /\ apc = "wait"

(* dsound_shutdown leaves no callback, no stream, no track and no lock, so *)
(* the guest memory the mixer reads can be unmapped by the next handler.   *)
TeardownIsComplete ==
    gpc = "exited" => /\ apc = "wait"
                      /\ stream = "absent" /\ lock = "absent"
                      /\ \A b \in Block : heap[b] = 0

(* A callback never meets a destroyed mix_lock: SDL_LockMutex(NULL) would  *)
(* let it mix unguarded.                                                   *)
CallbackHasLock == CallbackInFlight => lock # "absent"

(* feed's comment: SDL asks for some bytes and expects all of them; and a  *)
(* slice fits the static output buffer of MIX_SLICE frames.                *)
PullsDeliveredInFull ==
    [][apc # "wait" /\ apc' = "wait" => done' = asked]_vars

(* mix_dump: the recording is exactly what went to the device, under the   *)
(* header patched at exit.                                                 *)
RecordingIsExact == dumpExact

(* A call of the game into the mixer returns, whatever the callbacks do,   *)
(* and a pull in flight is completed, whatever the game does: neither      *)
(* thread starves the other.                                               *)
CallsReturn ==
    /\ gpc \notin {"idle", "exited"} ~> gpc \in {"idle", "exited"}
    /\ CallbackInFlight ~> apc = "wait"

(* The track changes for the listener when mus_frames follows mus_pcm; the *)
(* cursor of a silent player is of no account.                             *)
Player == INSTANCE MusicPlayer WITH
    Track <- Block, NoTrack <- NoBlock, MaxLength <- MaxFrames,
    track <- IF gpc = "publish_frames" THEN stale ELSE pcm,
    length <- frames,
    position <- IF playing THEN pos ELSE 0,
    volume <- gain

(* The mixer keeps the promise of MusicPlayer: every step of either thread *)
(* is one of the player's or changes nothing the listener can tell.        *)
PlaysAsPromised == Player!Spec
=============================================================================
