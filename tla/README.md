# A verification of lf2-port

lf2-port runs the retail game Little Fighter 2 on today's machines. The game's
own x86 code is translated and executed; around it the port supplies what
Windows and DirectX supplied: memory, COM objects, surfaces, text, sound, input
and a window. Where it can do better than the original it replaces single
functions of the game by C (`runtime/overrides`) and adds what the game never
had: wide windows, controllers, players who join a fight in progress, a pause
menu, on-screen controls, an importer for the game's files, a GPU renderer.

This directory holds TLA+ modules for the parts of the port whose correctness
depends on order, on limits, on failures or on two parties; TLC configurations
that check them on small instances; and TLAPS proofs that many of the same
properties hold on every instance.

    tlc -config MCDropIn.cfg MCDropIn.tla        check one instance
    tlapm DropInProofs.tla                       check the proofs

Comments in the modules name the function each definition translates;
`PROJECT.json` gives the lines (`map`), the runs, the mutants that show each
property can fail, and the hazards the properties are for.

## 1. The system and its parts

Two threads matter. The **game thread** runs the translated program and every
handler it calls: surfaces, text, input, the window, the frame's present. The
**audio thread** belongs to SDL and calls `feed()` in `dsound.c` whenever the
device wants samples. They share the mixer's state under one mutex, `mix_lock`.
There is one child process at times, the ffmpeg that decodes music. All other
components run on the game thread; their difficulty is in long orders of calls,
in fixed-size tables, in failures between two steps, and in state that is kept
from one frame to the next.

| Part (source) | State | Operations | Hard because | Correct when |
|---|---|---|---|---|
| Music and device (`audio/dsound.c`, driven by `win32/dshow.c`, `app/main.c`) | the track cell, `mix_lock`, the stream, the startup hold, the recording | load, start, stop, volume, open device, hold/release for the data load, exit; feed, mix_slice | two threads; a load frees what the mixer may be reading; exit tears down the lock itself | no freed or overrun read, silence during the load, calls return |
| Sound buffers (`audio/dsound.c`, `audio/mixer.c`) | up to `MAX_BUFS` voices: format, the position the game polls, the mixer's cursor | create, duplicate, play, stop, seek, volume, poll, mix a slice | two cursors for one position, interpolation at the last frame and at the seam | reads stay inside, slicing is inaudible, cursors agree, one-shots end |
| Music decoder (`audio/music_decode_process.c`) | the child, its pipe, a growing buffer, a deadline | spawn, read, grow, reap, kill | the child may do anything; one deadline in two loops | only whole music, no child left, always returns |
| Display lists (`video/render.c`, `framelife.h`, `host_frame.c`) | a list per destination surface, overlay mark, tile arena, texture pool | record a draw, raster a tile, mark the overlay, present, reset | four caps; everything is reused by the next frame; two ways to present | each frame shows its own draws and text, UI is unlit |
| Engine (`video/engine.c`, `engine_textures.c`, `texture_lru.h`) | texture cache with LRU stamps and dirty marks; the walk over a frame's quads | write a surface, begin frame, gather runs, place geometry, submit | eviction while draws are recorded, uploads that fail, joined runs | every quad drawn once, with its own current texture |
| Surfaces (`video/ddraw.c`, `surface_memory.c`, `cpu/guest_arena.c`) | surfaces and their memory, which follow the window, the size of the bitmap loaded last | create, resize, load a picture | screens and pictures may have one size; memory is never given back | pictures keep their size, memory is apart |
| Wide composition and stage (`surf_Blt`, `overrides/background.c`, `geom.h`, `result_panel.c`, `stage_banner.c`, text path, pointer) | which screen is up, as guessed from what it drew; the camera and the section's bounds; layer animations | fill, copy, text, layers, present, resize, pointer | nothing says which screen is up; text goes past the path that moves panels; the world is drawn from another camera than the game's | backdrops and worlds cover the view, labels move with panels, the pointer hits what is shown |
| Frame clock (`app/port_entry.c`, `win32/imports.c`, `video/host_frame.c`) | guest clock, previous tick, charged frames, the pacer's anchor | present, Sleep, a round of the loop, load, change of pace | time passes only when somebody says so; unsigned differences | the loop never jams, never overtakes its clock, bursts are bounded |
| Keys (`input/keyboard.c`, `bindings.c`, `touch_input.cpp`, `win32/win32.c`) | the ledger of held keys, injected keys, a ring of 64 messages, the game's array, touch references and contacts | key events of three origins, fingers, rebinding, post and peek | one ledger with many writers; the ring drops what does not fit | no key sticks, the game catches up, the controls hold what they show |
| Pause menu (`ui/settings_ui.cpp`, `ui/rmlui_input.cpp`, `app/pause.c`, `function_keys.c`, `overrides/cheats.c`) | the document, latched presses and captures, the frozen match, the queue of pulses | open, close, press, capture, click, tick, render, pulse | several events before a frame, actions that close the menu under their caller | a press acts once, pulses in order, the match is given back |
| Executor (`cpu/jit_executor.c`, `cpu/guest.c`, `overrides/native_override.c`, `com_call`, `guest_call`) | two copies of the registers, boundaries, exclusions | run, dispatch, call back, call the original, return | nested runs on one engine and one stack, ended by a return address | stacks agree, runs end where they began |
| Drop-in play (`overrides/input.c`, `coop.c`, `hud.c`, `input/gamepad.c`, `app/pause.c`) | controller indexes, who drives whom, who is choosing what, which slots the port filled, and the game's roster in guest memory | hotplug, claim, drop in, cycle, lock in, abandon, leave, gather, HUD pass, pause, drop out | the roster belongs to the game, which rewrites it; devices come and go at any point of a frame | one device per player, choosers are off the stage and never stranded |
| Import (`app/game_selection.cpp`, `installer_extract.cpp`, `game_data.c`, `config.c`, `main.c`, `ui/setup_screen.cpp`) | the game's place, its backup, the preparation, the settings file | start with a game named, remembered, found or none, choose a folder or an archive, extract, validate, swap, remember | every file operation may fail and the program may die between any two | the game is replaced at once or kept, installed as packed; a chosen one is remembered, a borrowed one is not |
| The rest: COM objects, guest heap, GDI text, capture, DirectShow graph, import table, network codec, game-logic overrides, lighting, settings pages, start-up, platforms | | | sequential, arithmetic or glue | section 6 |

**How they interact.** The main loop (FrameClock) runs a frame of the game
through the executor. The game pumps messages (Keys), whose transitions also
drive the menu (PauseMenu); once a frame it calls its gather, replaced by
`input.c`, which runs joins and choices (DropIn) and writes the buttons the game
reads next. The game draws with `surf_Blt` and text: Composition decides where
in a wide window a draw goes, writes the surface, announces the write to the
engine's cache (EngineDraw) and records it (DisplayLists). A present takes the
list of the surface shown; the engine draws the part before the overlay mark,
the old path the rest, and the pacer holds the frame. Music goes through the
decoder to the track cell; DirectSound effects and music end in `dsound.c`,
where the audio thread mixes them. Import runs before all of it.

## 2. The modules

| Module | What it is |
|---|---|
| `MusicPlayer` | abstract: one track, replaced in one step and only in silence, started from its first frame, heard frame by frame and looped |
| `AudioMixer`, `AudioMixerProofs` | the two threads over the track cell, the lock, the device and the recording; implements `MusicPlayer` |
| `SoundBuffers` | effects and the resampler's cursor arithmetic |
| `Decoder` | the parent and its ffmpeg child |
| `SoundProofs` | proofs about `SoundBuffers` and `Decoder` |
| `DisplayLists` | recording and presenting a frame |
| `EngineDraw` | the engine's frame walk and texture cache |
| `VideoProofs` | proofs about `EngineDraw` and `DisplayLists` |
| `Surfaces` | surfaces, their memory and the window they follow |
| `Stage` | extends `Surfaces`: camera, bounds and layers of a stage in a wide view |
| `Composition`, `CompositionProofs` | extends `Stage`: where the draws of the game's screens land |
| `FrameClock` | the guest's clock, the main loop and the pacer |
| `Keys` | every writer of the key ledger, the ring, and the game's view of the keys |
| `PauseMenu` | the menu's document, its input, the frozen match and the function-key pulses |
| `InputProofs` | proofs about `PauseMenu` and `Keys` |
| `Executor` | transfers of control between guest and native code |
| `RuntimeProofs` | proofs about `Executor` and `FrameClock` |
| `PlayerSeats` | abstract: a seat is empty, choosing or playing |
| `DropIn`, `DropInProofs` | devices, gather, choices, HUD pass, pause menu and the retail game around them; implements `PlayerSeats` |
| `Import`, `ImportProofs` | the game's files, from the player's choice to the settings |
| `MC...` | small instances |

A definition that no specification uses and that stands before another of the
same shape is a plausible bug of it: the mutants of `PROJECT.json` replace the
one by the other.

### AudioMixer

Each thread has a program counter (`gpc`, `apc`). A critical section whose body
is one assignment is one step that needs the lock; one that assigns several
shared variables takes a step per assignment, so that everything the other
thread could see in between is a state: the swap in `music_load` is `PublishLock`,
`PublishPcm`, `PublishFrames`, `PublishPos`, and `mix_slice` is `SliceLock`,
`MixFrame` per frame, `SliceUnlock`. `heap` records the length of each live
block, which makes a read after free or past the end a state predicate.
SDL is external, modelled from how the code relies on it: a callback runs only
while the stream is resumed, and pause, resume and destroy wait for the one in
flight. The exit handlers run in the order `main.c` registers them to.
Samples are abstracted away; the decoder is a choice of a length or failure.

*Fairness.* Both threads are scheduled (weak fairness of their steps). A wait for
the lock, or for a callback to end, is granted infinitely often, because the
other thread keeps releasing it; strong fairness of these waits says that the
mutex starves nobody. The game owes no call: `idle` steps are not fair.

### SoundBuffers

A buffer object is a record: format, the byte position the game polls, and the
mixer's cursor, kept exactly in 1/`Unit` of a frame instead of a double. Each handler
and each slice is one critical section in the code and one step here. `Mixed`
folds `NextFrame` over the frames of a slice; what it `heard` is the sequence of
cursors interpolated at. The game seeks to any position up to `SeekMax`, far past the end
of a buffer included. *Fairness:* the device keeps pulling; nothing else.

### Decoder

The parent's program counter follows `decode_with_child`: open, read in a loop
with the deadline, reap in a second loop, kill, wait, done. The child writes,
closes its output, ends well or badly, or does nothing for ever. Bytes are
counted, in the pipe and in the buffer, whose capacity grows to a limit.
*Fairness:* the parent runs, and the deadline passes. The child owes nothing.

### DisplayLists

A draw is known by its number, which also stands for a tile's pixels. `list`
holds the lists in use with their overlay mark, `arena` whose pixels lie where,
`pool` the textures and whether a frame claimed them. `PresentFrame` is
`render_present`: the engine takes the picture below the overlay or declines,
`DrawList` gives every tile a texture by the pool's smallest-fit rule, any
creation or lock may fail, and `FrameReset` forgets the frame. `PresentSoftware`
is the fallback of `hostwin_present`. No property here is about progress.

### EngineDraw

A picture is a number whose low bit stands for the pixels the cache's sampled
hash skips. `Write` is a write that somebody announces (`surface_changed`),
`QuietWrite` one that nobody does (GDI text), `TileWrite` a new tile at an old
address. A frame is walked quad by quad: `StartRun` asks for a texture
(`TextureFor`, which may hit, refresh, evict or fail), `Gather` extends the run,
`EndRun` records a draw or counts the quads dropped, `Geometry` puts the stage
geometry at its place. Nothing is written during a frame, as in the code.

### Surfaces, Stage and Composition

`Surfaces` has the window (`Resize` is `hostwin_window_geometry`), the arena and
`dd_CreateSurface`. `Composition` draws the game's screens, which are constants: a script
is a sequence of draws, each an interval of columns with the class of its rows
that the code tests, and some draws are optional. Which screen comes next is
free. `Fill`, `Blit` and `Text` are the three paths with everything that moves or
widens a draw, `age` the frames since the HUD and the overlay were seen, which is
all the code has to tell a match from a menu. A frame's draws are kept in `drawn`
and shown by `Present`; the window may change between any two draws, as it may
whenever the game polls a key.

The screens are free but for what the code counts on, which `WellDrawn` states of each draw and
`ScriptAssumption` of every script: a draw over the whole screen is a fill or, where no panels are
drawn, a picture; a screen with panels draws one of them in every frame, or it would not keep its
place; a summary has its header first and lies over a match. `StageAssumption` says of a stage that
it is no narrower than the screen, and of its far planes that they are not either. A tint may be
meant for part of the view, and then covers that part; only a stage whose tint is meant for all of
it, or the built-in stage, is held to cover the view with it.

The world of a match is one draw, `DrawStage`, the whole of `fn_0041a250`: it
clamps the game's camera to the view, widens the section's walk bound, steps the
animations, and draws each layer from the *shifted* camera, as a fill (`Band`) or as
one or many copies (`Pieces`, `Copies`), with the far plane continued where
`backdrop_layout.h` says so. The built-in stage has its own pass. The game's own
camera update is any position its own screen allows.

The properties speak of a screen that has been up, in a window of one size, for
longer than a panel counts as fresh (`since = Settled`): before that the code is
wrong by design for up to two frames (section 4). No fairness.

### FrameClock

`clock` is the guest's clock less the tick of the loop's last frame, `early` the
due time of the last present less the wall clock, both in units finer than a
millisecond so that frames have the real rounding. A round of the loop sleeps or
runs a frame; a frame of the game presents and sleeps some number of times, and
may be loading. `charged` counts frames charged to one instant of the clock.
*Fairness:* the loop runs. What the game does inside a frame is free, but a frame
ends (`MaxSteps`): the retail frame function is not modelled.

### Keys

A physical event, a finger's event, an injected transition, and each `PeekMessage`
is a step, because `hostwin_pump` handles them all on the game's thread before it
takes one message. `touch` has the references of each action and what each finger
is on; `bound` what the actions are bound to. Opening the menu releases what the
port must not leave down. The Return of Alt+Enter is the window's (`AltReturn`): it is noted and never
queued, so `withheld`, the keys the game need not agree on, has it beside those of the menu and of a
full ring. *Fairness:* the game keeps taking messages.

### PauseMenu

`doc` is the document with its captures, `input` the latched presses, `match` the
three stages of the game's pause pipeline with the saved copy, `keyed` the pulses.
An action (`Activated`) runs inside an event or inside a render. Several events
may come between two updates. No fairness: no property is about progress.

### Executor

A state is the native stack (runs and native functions in progress), the guest's
stack of return addresses, and two copies of the registers, the engine's and the
view's. An action is one transfer of control, with the copy the code makes there:
a guest call or return, an interception (`Dispatch`), native code that calls the
guest, dispatches a service or calls an original, a run that ends, a native function
that returns. An override calls its original in place, on the return address it was
reached with (`NativeCallsOriginal`), or afresh (`NativeCallsSuper`,
`call_prefix_super`), and may call the guest before that and after it, as
`fn_00419a60` does (`input.c:120`, then `coop.c:187`). What native code calls, and the
return address it pushes, are a constant: an address is behind a call the game's code
makes, which native code may borrow (`coop.c`, `text.c`, `port_entry.c`), or synthetic
(`0xDEAD0000` of every `guest_call`), and several calls may push the same one. A run
knows its end only by that address; `RunsEndWhereTheyBegan` says that this is enough,
for a program in which no call's own guest code returns to the address that ends the
call (`ProgramAssumption`). A return address and a function's entry are different
places: `call_decrypt` (`object_parser.c:92`) pushes the entry of `fn_0040ef70`, which is
harmless because what it calls never calls that. `MaxStack` and `MaxHost` bound the
nesting.

### DropIn

A frame is a cycle of `pc`: `pump` (hotplug, menu), then for each device a
`claim` and a `tick`, then `write` (the buttons), `game` (the retail game's own
step), `hud` and `lower`. That is the order in which the functions run. `exists`,
`devsel`, `joined`, `character` and `held` are words of guest memory; the port
and the game both write them. The game itself is external and as free as what the
port reads of it allows: it enters its front end, fills and clears its roster
in character selection, starts and ends matches, lists computers, sweeps
fighters. A choice is `sel_active` with `sel_pick`; `owned` is `coop_owned`.
`menu` holds the device that opened the pause menu; the slot beside it is a
history variable for `DropsTheOpener`, read by no guard.

*Fairness.* The game thread keeps drawing frames: weak fairness of the frame's own
steps (`Frame`). Players, controllers and the menu owe nothing.

### Import

`disk` maps the game's place, the backup, the preparation and the player's own
folders to trees or to nothing; a tree maps names to contents, and a manifest lists
names. Extraction writes one file per step; every file operation may fail, a
removal may stop half way, and `End`, the program left or dead, may come between any two
steps, after which it starts again with what the disk holds. `saved` is the root that the
settings file names, emptied before it is written, and `config` the copy in memory. A start
(`Starts`) comes to its game in one of the ways of `game_data_discover`: an executable named on
the command line or in `LF2_GAME_EXE` (`LaunchNamed`), the remembered root (`LaunchRemembered`), a
tree beside the AppImage or in the working directory (`LaunchFound`), or none of them, which asks
(`LaunchAsking`). `launch` says which, whether this start has a settings file at all (`LF2_CONFIG`
set but empty disables it: `Loaded`, `SaveNothing`), and, as a history that no guard reads, what the file named before.
Only a chosen root is ever written; named and found ones are borrowed, and a setting saved
while one plays writes the old name back. `ClosesMayFail` says whether a close may lose
bytes that nobody notices. No fairness.

## 3. What the runs check

| Run | Instance | States | Shows |
|---|---|---|---|
| `mixer` | 2 blocks, tracks of 1-2 frames, slices of 2, pulls up to 3 | 58 536 | live reads, silent load, `MusicPlayer`, calls return |
| `voices` | 5 formats, 3 objects of which 2 registered, 5 calls, slices up to 5, seeks up to 13 | 292 752 | slicing transparent, cursors agree and stay inside, one-shots end |
| `decoder` | a pipe of 3 bytes, frames of 2, a limit of 7 | 899 | whole music only, no child left, always returns |
| `frame` | 3 surfaces for 2 lists, 2 entries a list, arena of 5, pool of 2, 4 draws | 325 977 (up to symmetry) | own text, own draws, UI unlit |
| `engine` | 2 sheets (one also keyed), 1 tile, cache of 2, draws of 2 quads, 5 frames' shapes, 3 frames, 2 writes | 1 466 218 | right and current texture, every quad once |
| `composition` | a screen of 12 columns in 3 windows (views of 12, 15, 30), 5 screens, 4 stages, 2 sections | 456 578 | pictures and memory kept, the view covered, labels with panels, pointer on the picture |
| `clock` | a frame of 4 1/3 ms, intervals of 4 and 1, clamp 9, resync 10, 2 steps a frame | 498 397 | loop follows its clock, bursts bounded, frames keep coming |
| `keys` | 2 physical keys, one of them Return with and without Alt, 3 actions, a zone that presses two, 2 keys to bind, 2 fingers, a ring of 3 | 2 023 170 (up to symmetry) | no key sticks, the game catches up, touch holds what it shows |
| `menu` | 2 actions, 2 function keys, a queue of 1 | 557 004 (up to symmetry) | presses act once, pulses in order, match given back |
| `executor` | 4 guest functions, 1 override that calls before and after its original, 1 service that calls back, addresses shared and borrowed, 10 on the stack | 55 240 | stacks agree, runs end where they began, originals excluded only for their run |
| `coop` | 2 slots, 1 controller and the keyboard, 2 characters | 525 680 | pairing, choosers, drop-out, `PlayerSeats`, unplugged players leave |
| `import` | an installer with a repeated file, a ZIP, a ZIP that lacks a file, one folder, starts of four kinds with and without settings | 2 690 039 | replaced at once, installed as packed, chosen games remembered and borrowed ones not |

**Why the bounds are enough.** *mixer:* at any time at most two blocks are live, the published and
the new (or retired) one. A pull of three over slices of two has a full and a partial slice; a track
of one or two frames wraps within a slice. The proofs drop all of these bounds. *voices:* the
formats have a source below, at and above the device's rate, two-byte frames, a buffer shorter than
a pair and one shorter than a step of the cursor; slices of five cross the seam of each more than
once. `SeekMax` is more than two lengths of every buffer, so that a loop is sought
farther than one wrap brings back; what is left out is positions next to 2^32, where the code's sums
of 32 bits wrap. `MaxCalls` bounds the game, whose calls are the only way to start something. *decoder:* the
output can end inside a frame, at the limit, and beyond it, after the buffer has grown twice.
*frame:* each cap is met: the third destination gets no list, the third entry of a list is dropped,
tiles of three pixels overrun the arena, the third tile of a frame finds the pool full. *engine:* a
frame of three different textures exceeds the cache of two; a run of three quads exceeds what a draw may have; three
frame ids (0 stands for never)
make the counter wrap. *composition:* the windows are narrower than the game, wider by an odd and by
an even number of columns, and wider than what is allocated; the stages are wider and narrower than
the views, with a layer that repeats, a tint, an animation, a continued plane; the sections end
inside and beyond the game's own screen. Two frames of freshness are the code's. *clock:* the
remainders of a frame against both intervals, a work step longer than the clamp and than the resync
threshold. *keys:* one key is shared by keyboard and touch, another can be bound in its place and
one key to two actions, a finger may hold two actions at once, and Escape is on the keyboard alone;
the ring fills. *menu:* a queue of one is refused by the second waiting pulse. *executor:* a service
calls a window procedure that calls the service again by the same synthetic address, an override is
met inside its own original, and calls the guest after it by the address it was itself called with.
*coop:* two slots are the fewest in which two devices can compete, one controller can be pulled and
bound again, two characters make the pick observable. *import:* the installer's repeated file, two
files of one full size, a game below a directory, and an archive that must be refused; any tree may be
named or found at any start.

Deadlock is checked everywhere but in `decoder`, where a decode ends, and `engine`,
whose bounds on frames and writes are used up. They say so.

## 4. Where the code and its comments part

Each of these configurations is outside the runs, states what the repository says
and has a counterexample that is a behaviour of the code.

| Configuration, property | The repository says | The code does |
|---|---|---|
| `MCAudioMixerDump`, `RecordingIsExact` | the recording is exactly what goes to the device, its header patched at exit | the exit handler closes it, outside the lock, before the device is stopped: a late slice is written behind the header or to a closed file |
| `MCSoundBuffersSeam`, `SeamKeepsFraction` | the wrap preserves the cursor's fraction across the seam | the pair runs out one frame early, so the difference is usually negative and is clamped to 0 |
| `MCEngineDrawPaint`, `DroppedIsMissingArt` | dropped quads are missing art | a fill and art whose texture failed look alike to the run: art is painted as a white rectangle, or fills are dropped with it |
| `MCEngineDrawPaint`, `GeometryKeepsItsPlace` | geometry gets the sliver of depth before quad `at` | runs are gathered past `at`; the geometry then gets a later sliver |
| `MCCompositionEdge`, `FightersReachTheEdge` | with the camera at its bound the walkable area ends at the screen's right edge (`geom.h` 358, issues 36 and 43, `test_geom.c` 701) | the bound is computed for the game's camera; the world is drawn from one half the extra width further left, so a fighter at the bound is beyond the edge, and the last columns of a stage are never shown |
| `MCDropInSlot`, `NewcomerTakesLowest` | a newcomer gets the lowest free slot | its own claim counts as taken, so it gets the next |
| `MCDropInRoster`, `RosterIsNotOursToEmpty` | a slot the game's selection filled is not ours to empty | ownership survives the match; a pulled controller empties a fighter of the next one |
| `MCDropInLeave`, `LeaveUndoesJoin` | leaving undoes the join field for field | the selector is set to 0, not to what the join found |
| `MCKeysMenu`, `MenuKeepsTheFingers` | all physical input is consumed while the menu is visible (`rmlui.h` 33) | finger events still reach `touch_input` |
| `MCPauseMenuCapture`, `CaptureTakesTheNextKey` | a capture takes the next key | Escape during a key capture cancels it and closes the menu as well at the next tick |
| `MCFrameClockNoSleep`, `FramesKeepComing` | `LF2_NO_SLEEP` only removes the waiting | nothing then credits the clock, and the loop waits for it for ever |

`MCEngineDrawPaint` has two counterexamples; `tlc -continue` shows both.

With `ClosesMayFail = TRUE` in `MCImport.cfg`, `InstalledAsPacked` fails: `write_file`
ignores the close, and validation asks only whether the listed files exist.

Observed while modelling, without a configuration:

- *Menu.* Without a document (`rmlui_init` failed) each Escape freezes the match and
  saves the pinned words again, so it never thaws. While a capture waits for the
  release, the press still acts on the menu through the polled edge. A queued pulse can start
  while the menu is up, so its key-down is withheld. `cheats_request` writes the
  game's cheat state before the key may be refused.
- *Keys.* A key pressed before the menu and released under it stays down in the
  game's array until the next transition; a mouse button likewise. Alt+Enter leaves Return down in the ledger and up
  in the
  game's array until it is released. Switching touch off
  from the drawing path, or rebinding under a finger, orphans the key that is down.
- *Keys, bindings.* `binding_set_key_vk` (`bindings.c` 40) lets two actions have one key; when a finger holds both,
  the key
  comes up with the first of them: `TouchHoldsWhatItShows` excepts such a key (`Shared`).
- *Composition.* For up to two frames after a match the panels still count as fresh:
  menus are uncentred, bands unpainted, the pointer off. The first panel of a match's
  first frame is unshifted. A widened walk bound is not narrowed again when the window is
  (`background.c` calls the write idempotent). `stage_geom_sync` marks a stage as tried before it has a name,
  so "try again next frame" does not happen.
- *Clock.* A headless present is not paced.
- *Decoder.* Output of exactly the limit is refused as exceeding it. A child that
  exits non-zero has been reaped when it is killed.
- *Sound.* Buffers beyond `MAX_BUFS` are created but never mixed. `mixer.h` (24) promises that slices are bit-identical
  to one call; a looping voice whose cursor cannot read a pair after its wrap is given up for the rest of the slice and
  tried again in the next. That happens to a loop of fewer than two frames, to one shorter than a step of its cursor,
  and to
  one sought two lengths past its start or more: such a seek costs one silent slice per length. So
  `SlicingIsTransparent` asks
  for a seam that can be read (`SeamIsReadable`), and says of the far seek what it does instead.
- *Import.* A game named on the command line or found nearby is played and not written to the settings, so it
  is not the one the next start remembers (`docs/running.md` lists these launches and asks only for what was picked to
  be persisted). After a crash between the two renames, or between the commit and the
  settings, the game is on disk but is found only by another import. A failed save of
  any setting forgets the game's place. Two files of an installer with the same two sizes are
  taken for one. A backup that cannot be dropped makes the next import prepare twice.
- *Drop-in.* The frame that locks a choice in still delivers the direction held with it;
  a device that drops out keeps its claim.
- *Renderer.* A ninth destination surface gets no list and its draws are not counted;
  an overlay mark made before a surface's first draw of the frame finds no list and is lost, so the engine would
  light what is drawn next (`ui` in the model is what came after a mark that was kept);
  once the pool is full of small textures, a wide tile is drawn by nobody.
- *Executor.* A boundary is told by its return address alone; a call that takes more
  than 256 slices aborts the program. The click form of input scripts does not parse.

## 5. What is proved

All proof modules follow one pattern: an inductive invariant `IInv`, a
lemma per action or group of actions that it is preserved, `Invariance` from
these by temporal reasoning, and one short theorem per property.

**AudioMixerProofs** - for any set of blocks, track length, slice, pull and set
of gains (assumed: the null pointer is no block, the sizes are positive, the dump
option is a Boolean). None of the properties is inductive. That a read is inside a live block
needs to know who holds the lock at which program point (`LockInv`), that outside
the locked swap `frames` is the length of the block `pcm` names (`TrackInv`), who
owns every block at every point of a load (`OwnerInv`), and that the cursor is
inside the track except between two assignments of the swap (`CursorInv`).
Silence and teardown need what each program point knows of the device
(`DeviceInv`, `ReturnInv`). Proved: type correctness, `MixerReadsLiveTrack`,
`TracksOwnedOnce`, `SilentWhileInitializing`, `TeardownIsComplete`, `PullsDeliveredInFull`,
`CallbackHasLock`, and the refinement `PlaysAsPromised`: `StepMaps` shows that a step of either thread is one of
`MusicPlayer` or changes nothing the listener can tell. The track changes for the
listener at `PublishFrames`, the cursor is hidden while the player is silent,
and the one fact of arithmetic is the lemma `CursorModulo`.

**DropInProofs** - for any number of slots, controllers, characters and sets of button presses
(assumed: at least one slot and one character; the empty press is a press). The seat properties
support each other and form `SeatInv`. To them `MatchInv` adds that outside a match nobody stands in
the world, and that a choice left over from a match is given up before the game steps: its device is
still to come in this gather (`OverInv`; without it `StartMatch` could build over a chooser).
`InputInv` adds that no button is kept behind an open menu and that the menu's device may lose its
player but not get another. Proved: type correctness, `OneDevicePerPlayer`, `ChoosersStayOffStage`,
`ChooserHasItsDevice`, `PanelShowsTheChoice`, `WithheldButtonsReachNobody`, the action property
`DropsTheOpener`, and the refinement `SeatsAsPromised`.

**InputProofs** - *PauseMenu*, for any queue and length of a pulse. `PulsesInv`: the key that is
down is the first of those requested and not yet released, the queue holds the rest in order;
`MatchInv`: the stages are pinned exactly while the menu holds a match, and the saved copy is what
the game last had; `PressInv`: a press that is owed to the menu is latched, and a press the next
render would take is owed or was left alone by a capture. Proved: `PulsesInOrder`, the action
property `PauseIsGivenBack`, `PressesActOnce`.
*Keys*, for any actions, zones, fingers and length of the ring. `KeysInv`: what the ledger holds is
down on the keyboard or injected, what is injected is what the controls show (`Shows`), an action's
references count the fingers on it, and the game with the messages in the ring has the ledger's view
of every key that was not withheld (`Catches`). A zone injects its actions one after the other, by a
recursive function over a list; `ChainExists` and `InjectedIsChain` make its value the last of a
chain of single injections. Proved: type correctness, `LedgerNeverSticks`, `GameCatchesUp`,
`TouchHoldsWhatItShows`.

**RuntimeProofs** - *Executor*, for any program, with native calls before and after originals and
return addresses shared or borrowed. Assumed besides typing (`ProgramAssumption`): the guest code that
a call runs, up to the functions the port overrides, does not return to the address that ends the
call - the original of an overridden function does not come back to the place it is called from, nor
what native code calls to the address native code pushed. `StackInv`: the guest's stack is that of the
open calls; `HostInv`: the frames of the native stack stand on each other in one of three ways
(`StandsOn`), the address each came with is where it was put until what stands on the frame takes its
place (an original called in place pops it, and the next call of the same override pushes another
there), and between a run and what stands on it are only calls of its own code (`Levels`); `PlaceInv`:
the guest executes only code its run may reach. Ending a run is sound because its boundary is an
address its own code has no way to return to (`CodeFacts`). Proved: type correctness,
`StackIsItsCalls`, `RunsEndWhereTheyBegan`, `OriginalsAreScoped`.
*FrameClock*, for any frame, intervals, clamp and pacer. The loop's clock (`ClockInv`), the pacer
(`PacerInv`) and the frames charged to one instant (`CatchUpInv`) are separate invariants. The hard
part is arithmetic: a charge is a whole number of milliseconds of a clock that is not one
(`DivisionWithRest`). Proved: the subtraction never wraps and catching up ends
(`StepsFollowTheClock`), the pacer waits a frame at most, and `BurstIsBounded`.

**SoundProofs** - *SoundBuffers*, for any formats, unit and slices. A slice is a recursive function
over its frames; it is the end of a walk whose steps are `NextFrame` (`MixedIsWalked`). The
invariant keeps the mixer's cursor of every voice on the frame that the game polls; wherever that is,
a walk hears readable pairs only (`InWalk`). A slice cut in two is the composition of two walks
(`SlicedInTwo`), whose delicate cases are the voice that stops at the end of the first, and the loop,
which never stops once it is a wrap or less from a pair (`LoopRunsOn`). Proved: type correctness, `PolledCursorIsMixed`,
`SlicingIsTransparent`.
*Decoder*, for any frame size, limit, capacity and pipe. The invariant says which child each point
of the parent can meet, and that every byte written is in the buffer or in the pipe. Proved:
`MusicIsWhole`, `NoChildIsLeft`.

**VideoProofs** - *EngineDraw*, for any surfaces, frames, capacity and number of frame ids. There is
one texture per key, none stamped later than now, and each is current or marked where a write was
announced (`CacheInv`); what the run being gathered and every recorded draw refer to is held:
stamped with this frame, current, in its slot (`WalkInv`, `OutInv`); draws and dropped quads share
out what the walk has passed; a frame loses art only when one of its textures was refused or it has
more keys than the cache has slots (`SpaceInv`). Proved: type correctness, `RunsKeepTheirTexture`,
`PicturesAreCurrent`, `EveryQuadOnce`.
*DisplayLists*, for any destinations, tiles and caps. `ArenaInv`: the part of the arena that a
recorded tile has holds its pixels; `PoolInv`: between frames nothing is claimed; `AskedInv`: an
entry was asked for in this frame, for its list, and lies above the mark exactly when it came after
it; `LossInv`: what is missing from a list was counted as lost; `ShownInv`: what a present has
shown. A present gives textures along a list by a recursive function; `DrawnInv` is the invariant of
that walk. Proved: type correctness, `TextIsOwn`, `FrameIsThisFrame`, `UiIsUnlit`, that a tile fits
its texture, and that a texture is made only when every one that would do is taken.

**CompositionProofs** - for any windows, pictures, page, arena, screens and stages. What a surface
may become wide is set aside once (`RoomInv`), rooms are apart (`ApartInv`), and surfaces that
follow the window are never pictures (`FollowInv`, which needs that the latch is the size of the
picture about to be created). Proved: `SurfacesKeepTheirPictures`; and `LoopsLeaveNoGap`, that a
layer that repeats without gaps in its data leaves none in the view, wherever the world is drawn
from. For every screen that keeps `ScriptAssumption` and every stage, `ScreensInv`: once a screen is
settled the age of the panels tells whether it has any (`AgeInv`, where `StartInv` says what the
last frame left and `FrameInv` what this one has drawn so far), a summary's header has been seen
before the rest of it (`ResultInv`), and every draw lies where its kind belongs (`DrawnInv`). Layers
cover the view because the camera the world is drawn from is clamped to the stage
(`LayerStaysInReach`). Proved: `BackdropsCoverTheView`, `LabelsMoveWithPanels`,
`PointerMatchesPicture`.

**ImportProofs** - for any archives whose entries are told apart by their two sizes and whose
files are listed in an order that can be walked (`ImportAssumption`). `DiskInv` says what each
step may count on of the three places: the game is at the backup's place only until an import has put
it back, and only a tree that was judged is moved to the game's place. `PlayInv` says what memory and the
settings file hold while a game plays: with a settings file, memory holds what the file named before for a
borrowed game and the root that plays otherwise; without one the file is untouched; and a borrowed
game never went through the setup screen. Proved: the action property
`GameIsReplacedAtOnce`, `PlayIsRemembered`, and `InstalledAsPacked` unless closes lose bytes.

**Only model-checked.** The five liveness properties, `CallsReturn`, `OneShotsEnd`, `DecodeReturns`,
`FramesKeepComing` and `UnpluggedFighterLeaves`: the proof system has no rules for fairness here.

*Induction.* What a recursive function computes for every input is proved with `SetInduction`: a set
of numbers that has 0 and the successors of its own has all, from the well-founded order of the
naturals. It is stated for sets, because the library's rules take an operator the backends cannot
instantiate.

## 6. What is not modelled

Listed with reasons in `PROJECT.json`. Of the implementation's 46 thousand lines 14 thousand are
generated shader bytecode, and much of the rest is floating-point geometry and lighting,
GPU set-up, diagnostics behind environment variables, and functions of the retail program rewritten over its
memory layout, which promise equality with code that is not in the repository. External: the retail program,
the x86 translator (a submodule), SDL, RmlUi and the GPU. Thin or sequential: COM reference counts, the guest
heap, the Win32 import table, the DirectShow graph, the settings' pages, start-up options,
platform glue. The network codec and socket have no caller outside the tests. Inside
modelled parts: rows, locks, palettes, colour keys and pixel copies of surfaces, hand-woven stage geometry,
input scripts as a writer of keys, Android's file picker.

Simplified in modelled parts: reading the settings file and finding its path are assumed to succeed at a
start; `InstalledAsPacked` asks that the game be what *some* archive packed, not the one chosen last, and
takes two files of one packed and one full size for the same (`ImportAssumption`); during character selection
the game raises and lowers the gate byte of an entry (`coop.c` 287), while `exists` stays empty until the
match; the refusals of `coop_build` for a null table entry or unknown character data, and of `coop_join` for a
slot in the world or a match with no live fighter, are assumed away: in DropIn the slot is free, a match runs,
and the records and data of the game are there; the built-in stage has its bands only.

## 7. Plan

1. **Hand-woven stage geometry** in `Stage`: the gap plan and its cap, composed with EngineDraw's placing.
2. **DirectShow graph** before AudioMixer: run, stop, volume and the graph's events.
3. **Input scripts** as a further writer in Keys.
4. **Surfaces' rows**: locks, palettes and colour keys of `ddraw.c`, and GDI text into a surface, under the quiet writes
   of EngineDraw.
