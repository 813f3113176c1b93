-------------------------- MODULE AudioMixerProofs --------------------------
(***************************************************************************)
(* Proofs about AudioMixer for any set of blocks, track length, slice and  *)
(* pull.  The inductive invariant IInv says who holds mix_lock where, what *)
(* each program point knows of the device, that mus_frames is the length   *)
(* of mus_pcm outside the locked swap, and who owns each block.            *)
(***************************************************************************)
EXTENDS AudioMixer, TLAPS

GameHolds == {"publish_pcm", "publish_frames", "publish_pos", "rewind",
              "set_playing"}

FramesOf(b) == IF b = NoBlock THEN 0 ELSE heap[b]

\* Where audio_start, free and the waits for a callback return to.
ReturnInv ==
    /\ gpc \in {"open", "resume"} => gret \in {"idle", "rewind_lock"}
    /\ gpc = "free" => gret \in {"idle", "destroy_lock"}
    /\ gpc = "pause" => gret \in {"idle", "destroy_stream"}

LockInv ==
    /\ lock = "game" <=> gpc \in GameHolds
    /\ lock = "audio" <=> apc \in {"mix", "unlock"}
    /\ stream # "absent" => lock # "absent"
    /\ pcm # NoBlock => lock # "absent"
    /\ gpc \in {"decode", "publish"} => lock # "absent"

Closing == \/ gpc \in {"destroy_stream", "destroy_lock", "exited"}
           \/ gpc = "pause" /\ gret = "destroy_stream"
           \/ gpc = "free" /\ gret = "destroy_lock"

DeviceInv ==
    /\ apc # "wait" => stream = "running"
    /\ initializing /\ gpc # "pause" => stream # "running"
    /\ gpc = "resume" => ~initializing /\ stream # "absent"
    /\ gpc = "pause" => stream # "absent"
    /\ gpc \in {"destroy_lock", "exited"} => stream = "absent"
    /\ gpc = "free" /\ gret = "destroy_lock" => stream = "absent"
    /\ gpc = "exited" => lock = "absent"
    /\ Closing => pcm = NoBlock
    /\ gpc \in {"rewind_lock", "rewind", "set_playing"} => pcm # NoBlock
    /\ gpc = "set_playing" => pos = 0
    /\ gpc \in {"open", "resume"} /\ gret = "rewind_lock" => pcm # NoBlock

MixInv ==
    /\ apc = "mix" => playing /\ pcm # NoBlock /\ todo > 0
    /\ apc # "wait" => done < asked
    /\ apc \in {"mix", "unlock", "dump", "put"} =>
          chunk > 0 /\ done + chunk <= asked

TrackInv ==
    /\ gpc # "publish_frames" => frames = FramesOf(pcm)
    /\ gpc \in {"publish", "publish_pcm"} => freshFrames = FramesOf(fresh)
    /\ gpc = "publish_frames" => freshFrames = FramesOf(pcm)

OwnerInv ==
    /\ fresh # NoBlock => gpc \in {"publish", "publish_pcm"}
    /\ stale # NoBlock =>
          \/ gpc \in {"publish_pcm", "publish_frames", "publish_pos", "free",
                      "destroy_stream"}
          \/ gpc = "pause" /\ gret = "destroy_stream"
    /\ gpc = "publish_pcm" => stale = pcm
    /\ gpc # "publish_pcm" /\ stale # NoBlock => stale # pcm
    /\ fresh # NoBlock => fresh # pcm /\ fresh # stale
    /\ \A b \in Block : heap[b] > 0 <=> b \in {pcm, fresh, stale}

\* The cursor stays inside the track, and a load happens in silence.
CursorInv ==
    /\ gpc # "publish_pos" => pos <= frames
    /\ gpc \in {"decode", "publish", "publish_pcm", "publish_frames",
                 "publish_pos"} => ~playing

IInv == TypeOK /\ ReturnInv /\ LockInv /\ DeviceInv /\ MixInv /\ TrackInv
        /\ OwnerInv /\ CursorInv

-----------------------------------------------------------------------------
LEMMA InitHolds == Init => IInv
<1> SUFFICES ASSUME Init PROVE IInv
  OBVIOUS
<1> USE BlockAssumption, SizeAssumption DEF Init
<1>1. TypeOK
  <2>1. heap \in [Block -> 0 .. MaxFrames]
    OBVIOUS
  <2>2. /\ lock = "absent" /\ stream = "absent" /\ dump = "none"
        /\ initializing \in BOOLEAN /\ playing \in BOOLEAN
        /\ dumpExact \in BOOLEAN
    OBVIOUS
  <2>q. QED
    BY <2>1, <2>2 DEF TypeOK, GameLabels, AudioLabels
<1>2. ReturnInv /\ LockInv /\ MixInv
  BY DEF ReturnInv, LockInv, MixInv, GameHolds
<1>3. DeviceInv
  BY DEF DeviceInv, Closing
<1>4. TrackInv /\ OwnerInv
  BY DEF TrackInv, OwnerInv, FramesOf
<1>5. CursorInv
  BY DEF CursorInv
<1>q. QED
  BY <1>1, <1>2, <1>3, <1>4, <1>5 DEF IInv

LEMMA TeardownClearsMusic ==
    ASSUME TeardownMusic, lock # "absent"
    PROVE  /\ playing' = FALSE /\ pos' = 0
           /\ stale' = pcm /\ pcm' = NoBlock /\ frames' = 0
BY DEF TeardownMusic

LEMMA StepPreserves == IInv /\ [Next]_vars => IInv'
<1> SUFFICES ASSUME IInv, [Next]_vars PROVE IInv'
  OBVIOUS
<1> USE BlockAssumption, SizeAssumption
<1> USE DEF IInv, TypeOK, ReturnInv, LockInv, DeviceInv, MixInv, TrackInv,
            OwnerInv, CursorInv, Closing, GameHolds, FramesOf, GameLabels, AudioLabels,
            world, device, music, recording, gameLocals, gameThread, audioThread,
            EnsureLock, NotContended, CallbackInFlight
<1>1. CASE MusicSetVolume
  BY <1>1 DEF MusicSetVolume
<1>2. CASE MusicStop
  <2>1. apc \notin {"mix", "unlock"} /\ gpc \notin GameHolds
    BY <1>2 DEF MusicStop, StopPlaying
  <2>2. TypeOK'
    BY <1>2, <2>1 DEF MusicStop, StopPlaying
  <2>3. ReturnInv'
    BY <1>2, <2>1 DEF MusicStop, StopPlaying
  <2>4. LockInv'
    BY <1>2, <2>1 DEF MusicStop, StopPlaying
  <2>5. DeviceInv'
    BY <1>2, <2>1 DEF MusicStop, StopPlaying
  <2>6. MixInv'
    BY <1>2, <2>1 DEF MusicStop, StopPlaying
  <2>7. TrackInv'
    BY <1>2, <2>1 DEF MusicStop, StopPlaying
  <2>8. OwnerInv'
    BY <1>2, <2>1 DEF MusicStop, StopPlaying
  <2>9. CursorInv'
    BY <1>2, <2>1 DEF MusicStop, StopPlaying
  <2>q. QED
    BY <2>2, <2>3, <2>4, <2>5, <2>6, <2>7, <2>8, <2>9
<1>3. CASE MusicLoad
  <2>1. apc \notin {"mix", "unlock"} /\ gpc \notin GameHolds
    BY <1>3 DEF MusicLoad, StopPlaying
  <2>2. TypeOK'
    BY <1>3, <2>1 DEF MusicLoad, StopPlaying
  <2>3. ReturnInv'
    BY <1>3, <2>1 DEF MusicLoad, StopPlaying
  <2>4. LockInv'
    BY <1>3, <2>1 DEF MusicLoad, StopPlaying
  <2>5. DeviceInv'
    BY <1>3, <2>1 DEF MusicLoad, StopPlaying
  <2>6. MixInv'
    BY <1>3, <2>1 DEF MusicLoad, StopPlaying
  <2>7. TrackInv'
    BY <1>3, <2>1 DEF MusicLoad, StopPlaying
  <2>8. OwnerInv'
    BY <1>3, <2>1 DEF MusicLoad, StopPlaying
  <2>9. CursorInv'
    BY <1>3, <2>1 DEF MusicLoad, StopPlaying
  <2>q. QED
    BY <2>2, <2>3, <2>4, <2>5, <2>6, <2>7, <2>8, <2>9
<1>4. CASE Decode
  BY <1>4 DEF Decode
<1>5. CASE PublishLock
  BY <1>5 DEF PublishLock
<1>6. CASE PublishPcm
  BY <1>6 DEF PublishPcm
<1>7. CASE PublishFrames
  BY <1>7 DEF PublishFrames
<1>8. CASE PublishPos
  BY <1>8 DEF PublishPos
<1>9. CASE FreeStale
  BY <1>9 DEF FreeStale
<1>10. CASE MusicStart
  BY <1>10 DEF MusicStart
<1>11. CASE PlayEffect
  BY <1>11 DEF PlayEffect
<1>12. CASE AudioStartReturns
  BY <1>12 DEF AudioStartReturns
<1>13. CASE AudioStart
  BY <1>13 DEF AudioStart
<1>14. CASE Resume
  BY <1>14 DEF Resume
<1>15. CASE RewindLock
  BY <1>15 DEF RewindLock
<1>16. CASE Rewind
  BY <1>16 DEF Rewind
<1>17. CASE SetPlaying
  BY <1>17 DEF SetPlaying
<1>18. CASE InitializationBegin
  BY <1>18 DEF InitializationBegin
<1>19. CASE Pause
  BY <1>19 DEF Pause
<1>20. CASE InitializationEnd
  BY <1>20 DEF InitializationEnd
<1>21. CASE Exit
  BY <1>21 DEF Exit
<1>22. CASE DumpPatchHeader
  BY <1>22 DEF DumpPatchHeader
<1>23. CASE DumpClose
  BY <1>23 DEF DumpClose
<1>24. CASE TeardownMusic
  <2>a. lock # "audio" /\ gpc = "teardown"
    BY <1>24 DEF TeardownMusic
  <2>b. apc \notin {"mix", "unlock"}
    BY <2>a
  <2>c. fresh = NoBlock /\ stale = NoBlock
    BY <2>a
  <2>1. apc \notin {"mix", "unlock"} /\ fresh = NoBlock /\ stale = NoBlock
    BY <2>b, <2>c
  <2>t. /\ pos' \in 0 .. MaxFrames /\ frames' \in 0 .. MaxFrames
        /\ pcm' \in Block \cup {NoBlock} /\ stale' \in Block \cup {NoBlock}
        /\ playing' \in BOOLEAN
    <3>1. CASE lock = "absent"
      <4>1. UNCHANGED <<pcm, frames, pos, playing, stale>>
        BY <1>24, <3>1 DEF TeardownMusic
      <4>q. QED
        BY <4>1
    <3>2. CASE lock # "absent"
      <4>1. /\ playing' = FALSE /\ pos' = 0
            /\ stale' = pcm /\ pcm' = NoBlock /\ frames' = 0
        BY <1>24, <3>2, TeardownClearsMusic
      <4>2. playing' \in BOOLEAN
        BY <4>1, Zenon
      <4>q. QED
        BY <4>1, <4>2
    <3>q. QED
      BY <3>1, <3>2
  <2>g. gpc' \in GameLabels /\ gret' \in {"destroy_stream", "destroy_lock"}
    BY <1>24 DEF TeardownMusic
  <2>2. TypeOK'
    BY <1>24, <2>t, <2>g DEF TeardownMusic
  <2>3. ReturnInv'
    BY <1>24, <2>1 DEF TeardownMusic
  <2>4. LockInv'
    BY <1>24, <2>1 DEF TeardownMusic
  <2>5. DeviceInv'
    BY <1>24, <2>1 DEF TeardownMusic
  <2>6. MixInv'
    BY <1>24, <2>1 DEF TeardownMusic
  <2>7. TrackInv'
    BY <1>24, <2>1 DEF TeardownMusic
  <2>8. OwnerInv'
    BY <1>24, <2>1 DEF TeardownMusic
  <2>9. CursorInv'
    BY <1>24, <2>1 DEF TeardownMusic
  <2>q. QED
    BY <2>2, <2>3, <2>4, <2>5, <2>6, <2>7, <2>8, <2>9
<1>25. CASE DestroyStream
  BY <1>25 DEF DestroyStream
<1>26. CASE DestroyLock
  <2>1. apc = "wait" /\ pcm = NoBlock /\ stream = "absent"
    BY <1>26 DEF DestroyLock
  <2>2. TypeOK'
    BY <1>26, <2>1 DEF DestroyLock
  <2>3. ReturnInv'
    BY <1>26, <2>1 DEF DestroyLock
  <2>4. LockInv'
    BY <1>26, <2>1 DEF DestroyLock
  <2>5. DeviceInv'
    BY <1>26, <2>1 DEF DestroyLock
  <2>6. MixInv'
    BY <1>26, <2>1 DEF DestroyLock
  <2>7. TrackInv'
    BY <1>26, <2>1 DEF DestroyLock
  <2>8. OwnerInv'
    BY <1>26, <2>1 DEF DestroyLock
  <2>9. CursorInv'
    BY <1>26, <2>1 DEF DestroyLock
  <2>q. QED
    BY <2>2, <2>3, <2>4, <2>5, <2>6, <2>7, <2>8, <2>9
<1>27. CASE Exited
  BY <1>27 DEF Exited, vars
<1>28. CASE SliceLock
  BY <1>28 DEF SliceLock, NextChunk
<1>29. CASE MixFrame
  BY <1>29 DEF MixFrame, ReadIndex
<1>30. CASE SliceUnlock
  BY <1>30 DEF SliceUnlock
<1>31. CASE DumpSlice
  BY <1>31 DEF DumpSlice
<1>32. CASE PutSlice
  BY <1>32 DEF PutSlice
<1>33. CASE \E k \in 1 .. MaxPull : Pull(k)
  BY <1>33 DEF Pull
<1>34. CASE UNCHANGED vars
  BY <1>34 DEF vars
<1>q. QED
  BY <1>1, <1>2, <1>3, <1>4, <1>5, <1>6, <1>7, <1>8, <1>9, <1>10, <1>11, <1>12, <1>13, <1>14, <1>15, <1>16, <1>17, <1>18, <1>19, <1>20, <1>21, <1>22, <1>23, <1>24, <1>25, <1>26, <1>27, <1>28, <1>29, <1>30, <1>31, <1>32, <1>33, <1>34
  DEF Next, GameThread, AudioThread, Callback

-----------------------------------------------------------------------------
THEOREM Invariance == Spec => []IInv
BY InitHolds, StepPreserves, PTL DEF Spec

(* Every variable of the mixer keeps its type: no slice overruns the       *)
(* static buffer of mix_slice and no cursor passes the longest track.      *)
THEOREM TypeCorrect == Spec => []TypeOK
<1>1. IInv => TypeOK
  BY DEF IInv
<1>q. QED
  BY <1>1, Invariance, PTL

(* mix_slice never reads a freed block or past its end (issue 5).          *)
THEOREM MixerReadsAreSafe == Spec => []MixerReadsLiveTrack
<1>1. IInv => MixerReadsLiveTrack
  BY BlockAssumption, SizeAssumption
     DEF IInv, TypeOK, LockInv, MixInv, TrackInv, OwnerInv, GameHolds,
         FramesOf, MixerReadsLiveTrack, ReadIndex
<1>q. QED
  BY <1>1, Invariance, PTL

(* While boot_guest.c loads data the device is silent, whatever is played. *)
THEOREM InitializationIsSilent == Spec => []SilentWhileInitializing
<1>1. IInv => SilentWhileInitializing
  BY DEF IInv, DeviceInv, SilentWhileInitializing
<1>q. QED
  BY <1>1, Invariance, PTL

(* After dsound_shutdown nothing of the mixer is left allocated or live.   *)
THEOREM TeardownCompletes == Spec => []TeardownIsComplete
<1>1. IInv => TeardownIsComplete
  BY BlockAssumption
     DEF IInv, TypeOK, DeviceInv, OwnerInv, CursorInv, Closing, TeardownIsComplete
<1>q. QED
  BY <1>1, Invariance, PTL

(* A callback in flight always finds mix_lock created.                     *)
THEOREM CallbacksAreGuarded == Spec => []CallbackHasLock
<1>1. IInv => CallbackHasLock
  BY DEF IInv, LockInv, DeviceInv, CallbackHasLock, CallbackInFlight
<1>q. QED
  BY <1>1, Invariance, PTL

(* No block is leaked, and none is freed while something still names it.   *)
THEOREM OwnershipHolds == Spec => []TracksOwnedOnce
<1>1. IInv => TracksOwnedOnce
  BY BlockAssumption DEF IInv, OwnerInv, TracksOwnedOnce
<1>q. QED
  BY <1>1, Invariance, PTL

(* feed returns only when the device has all it asked for.                 *)
THEOREM PullsAreDelivered == Spec => PullsDeliveredInFull
<1>1. IInv /\ [Next]_vars => [apc # "wait" /\ apc' = "wait" => done' = asked]_vars
  <2> SUFFICES ASSUME IInv, [Next]_vars, apc # "wait", apc' = "wait"
               PROVE  done' = asked
    OBVIOUS
  <2>1. apc \in AudioLabels /\ done \in Int /\ asked \in Int /\ chunk \in Int
    BY SizeAssumption DEF IInv, TypeOK
  <2>2. apc = "put" => chunk > 0 /\ done + chunk <= asked
    BY DEF IInv, MixInv
  <2>3. PutSlice
    BY <2>1 DEF Next, GameThread, AudioThread, Callback, vars, audioThread,
       AudioLabels,
       MusicSetVolume, MusicStop, MusicLoad, StopPlaying, Decode, PublishLock,
       PublishPcm, PublishFrames, PublishPos, FreeStale, MusicStart,
       PlayEffect, AudioStartReturns, AudioStart, Resume, RewindLock, Rewind,
       SetPlaying, InitializationBegin, Pause, InitializationEnd, Exit,
       DumpPatchHeader, DumpClose, TeardownMusic, DestroyStream, DestroyLock,
       Exited, Pull, SliceLock, MixFrame, SliceUnlock, DumpSlice
  <2>q. QED
    BY <2>1, <2>2, <2>3 DEF PutSlice
<1>q. QED
  BY <1>1, Invariance, PTL DEF Spec, PullsDeliveredInFull

-----------------------------------------------------------------------------
(* The refinement, step by step.  Only six kinds of step are heard: the    *)
(* others leave what the player shows as it was.                           *)

shown == <<pcm, frames, pos, playing, gain>>

LEMMA CursorModulo ==
    ASSUME NEW p \in Nat, NEW n \in Nat, n > 0, p <= n
    PROVE  p % n = IF p >= n THEN 0 ELSE p
<1>1. CASE p = n
  BY <1>1
<1>2. CASE p < n
  BY <1>2
<1>q. QED
  BY <1>1, <1>2

LEMMA InitMaps == Init => Player!Init
BY DEF Init, Player!Init

LEMMA QuietStep ==
    ASSUME IInv, UNCHANGED shown,
           gpc' = "publish_frames" <=> gpc = "publish_frames",
           gpc = "publish_frames" => UNCHANGED stale
    PROVE  UNCHANGED Player!vars
BY DEF shown, Player!vars

LEMMA StepMaps == IInv /\ IInv' /\ [Next]_vars => [Player!Next]_(Player!vars)
<1> SUFFICES ASSUME IInv, IInv', [Next]_vars
             PROVE  Player!Next \/ UNCHANGED Player!vars
  OBVIOUS
<1> USE BlockAssumption, SizeAssumption
<1>1. CASE MusicSetVolume
  <2>1. Player!SetVolume
    BY <1>1 DEF MusicSetVolume, gameThread, gameLocals, Player!SetVolume
  <2>q. QED
    BY <2>1 DEF Player!Next
<1>2. CASE StopPlaying /\ gpc' \in {"idle", "decode"}
  <2>1. Player!Stop
    BY <1>2 DEF StopPlaying, Player!Stop
  <2>q. QED
    BY <2>1 DEF Player!Next
<1>3. CASE PublishPcm
  <2>1. stale = pcm
    BY <1>3 DEF PublishPcm, IInv, OwnerInv
  <2>q. QED
    BY <1>3, <2>1 DEF PublishPcm, Player!vars
<1>4. CASE PublishFrames
  <2>1. ~playing
    BY <1>4 DEF PublishFrames, IInv, CursorInv
  <2>2. \/ pcm = NoBlock /\ freshFrames = 0
        \/ pcm \in Block /\ freshFrames \in 1 .. MaxFrames
    <3>1. freshFrames = FramesOf(pcm)
      BY <1>4 DEF PublishFrames, IInv, TrackInv
    <3>2. pcm # NoBlock => heap[pcm] > 0
      BY DEF IInv, OwnerInv, TypeOK
    <3>q. QED
      BY <3>1, <3>2 DEF FramesOf, IInv, TypeOK
  <2>3. Player!Replace(pcm, freshFrames)
    BY <1>4, <2>1 DEF PublishFrames, Player!Replace
  <2>q. QED
    BY <2>2, <2>3 DEF Player!Next
<1>5. CASE PublishPos
  <2>1. ~playing
    BY <1>5 DEF PublishPos, IInv, CursorInv
  <2>q. QED
    BY <1>5, <2>1 DEF PublishPos, Player!vars
<1>6. CASE Rewind
  <2>1. CASE playing
    <3>1. pcm # NoBlock
      BY <1>6 DEF Rewind, IInv, DeviceInv
    <3>2. Player!Start
      BY <1>6, <2>1, <3>1 DEF Rewind, Player!Start
    <3>q. QED
      BY <3>2 DEF Player!Next
  <2>2. CASE ~playing
    BY <1>6, <2>2 DEF Rewind, Player!vars
  <2>q. QED
    BY <2>1, <2>2
<1>7. CASE SetPlaying
  <2>1. pcm # NoBlock /\ pos = 0
    BY <1>7 DEF SetPlaying, IInv, DeviceInv
  <2>2. Player!Start
    BY <1>7, <2>1 DEF SetPlaying, Player!Start
  <2>q. QED
    BY <2>2 DEF Player!Next
<1>8. CASE TeardownMusic
  <2>1. CASE lock # "absent"
    <3>1. Player!Close
      <4>1. gpc # "publish_frames" /\ gpc' # "publish_frames" /\ gain' = gain
        BY <1>8 DEF TeardownMusic
      <4>q. QED
        BY <1>8, <2>1, <4>1, TeardownClearsMusic DEF Player!Close
    <3>q. QED
      BY <3>1 DEF Player!Next
  <2>2. CASE lock = "absent"
    BY <1>8, <2>2, QuietStep DEF TeardownMusic, shown
  <2>q. QED
    BY <2>1, <2>2
<1>9. CASE MixFrame
  <2>1. playing /\ gpc # "publish_frames" /\ pos <= frames /\ frames > 0
    <3>1. playing /\ pcm # NoBlock /\ gpc \notin {"publish_frames", "publish_pos"}
      BY <1>9 DEF MixFrame, IInv, MixInv, LockInv, GameHolds
    <3>2. heap[pcm] > 0
      BY <3>1 DEF IInv, OwnerInv, TypeOK
    <3>q. QED
      BY <3>1, <3>2 DEF IInv, TrackInv, CursorInv, FramesOf
  <2>2. pos % frames = ReadIndex
    <3>1. pos \in Nat /\ frames \in Nat
      BY DEF IInv, TypeOK
    <3>q. QED
      BY <2>1, <3>1, CursorModulo DEF ReadIndex
  <2>3. Player!Hear
    BY <1>9, <2>1, <2>2
       DEF MixFrame, gameThread, gameLocals, Player!Hear
  <2>q. QED
    BY <2>3 DEF Player!Next
<1>10. CASE Decode \/ PublishLock \/ FreeStale \/ MusicStart \/ PlayEffect
            \/ AudioStartReturns \/ AudioStart \/ Resume \/ RewindLock
  BY <1>10, QuietStep
     DEF Decode, PublishLock, FreeStale, MusicStart, PlayEffect,
         AudioStartReturns, AudioStart, Resume, RewindLock, shown, world, music,
         IInv, TypeOK, ReturnInv
<1>11. CASE InitializationBegin \/ Pause \/ InitializationEnd \/ Exit
            \/ DumpPatchHeader \/ DumpClose \/ DestroyStream \/ DestroyLock
  BY <1>11, QuietStep
     DEF InitializationBegin, Pause, InitializationEnd, Exit, DumpPatchHeader,
         DumpClose, DestroyStream, DestroyLock, shown, world, music, IInv, TypeOK,
         ReturnInv
<1>12. CASE \/ SliceLock \/ SliceUnlock \/ DumpSlice \/ PutSlice
            \/ \E n \in 1 .. MaxPull : Pull(n)
  BY <1>12, QuietStep
     DEF SliceLock, SliceUnlock, DumpSlice, PutSlice, Pull, shown, world, music,
         gameLocals, gameThread
<1>13. CASE UNCHANGED vars
  BY <1>13, QuietStep DEF vars, shown, world, music, gameLocals, gameThread
<1>q. QED
  BY <1>1, <1>2, <1>3, <1>4, <1>5, <1>6, <1>7, <1>8, <1>9, <1>10, <1>11,
     <1>12, <1>13
     DEF Next, GameThread, AudioThread, Callback, MusicStop, MusicLoad, Exited

(* The two threads together implement the abstract player.                 *)
THEOREM MixerPlaysAsPromised == Spec => PlaysAsPromised
BY InitMaps, StepMaps, Invariance, PTL DEF Spec, PlaysAsPromised, Player!Spec
=============================================================================
