# toucan-camera-server: formal models

TLA+ models of the camera server: the HTTP routes that share cameras between
clients, the camera backends behind them, the life of the server inside an
Android app, and the way the desktop server leaves. TLC checks them on small
instances; TLAPS proves the most important safety properties for every value of
the constants.

All paths below are relative to the repository root (`src/` in `PROJECT.json`).

## 1. The system

| part | state | operations | hard because |
|---|---|---|---|
| Photo requests (`src/routes/cameras.rs`) | `CapturingSet` | `capture_photo`, `CaptureGuard` | the guard belongs to the handler, the burst to a blocking thread; requests overlap and are aborted |
| Live view (`src/routes/cameras.rs`) | `LiveViewSenders`; per capture loop the sender, `consecutive_misses`, `had_signal` | `live_view`, `disconnect_camera`, the capture loop | clients, loops and disconnects meet on a sender between two lookups of the registry |
| Listing (`src/routes/cameras.rs`) | `DeviceListCache` | `list_cameras`, `dedup_devices` | one task per backend, timeouts, the cache, captures that block a backend |
| Parameters, dispatch, averaging (`src/routes/cameras.rs`) | none | `get_parameters`, `set_parameter`, `dispatch`, `average_frames` | errors of a backend mapped to answers |
| Android server (`src/lib.rs`, `android_jni`) | `RUNNING`, `ACTIVE_TOKEN`, `ANDROID_TOKEN`, the server threads | `startServer`, `stopServer`, `setToken`, `isServerRunning` | any thread calls, waits are bounded, old runs overlap new ones |
| Shutdown (`src/shutdown.rs`) | `BACKENDS`, `RAN` | `set_backends`, `run`, the Windows console handler | latched once per run of the server, called from several places |
| Desktop server (`src/lib.rs`, `src/main.rs`) | the drain, the grace task | `run_server`, `shutdown_signal`, `main` | three platforms, streams that never end, two paths to the exit |
| Lazy backends (`src/backends/lazy.rs`) | the built backend, its lock | `resolve`, `shutdown` | built on demand, during a shutdown too |
| Canon, Nikon, Sony (`src/backends/canon`, `nikon_zs2`, `sony`) | one thread each that owns the vendor's SDK: sessions, live view, the pending photo, caches | `list_devices`, `connect`, `disconnect`, parameters, frames, photos, `prepare_exit`, `shutdown` | callbacks of SDKs, unplugging at any point, photos that come late, messages sent without waiting |
| Controls of these and of gphoto2 | the settings of the body | the typed lists a client sees, the writes it makes | two settings behind one control, flags above the value, settings a backend forces |
| gphoto2 (`src/backends/gphoto2`) | a table of shared handles, a keep-alive thread, the verdict on the focus | the same calls, on the caller's thread | no thread owns the body: it is released with the last handle |
| Webcams (`src/backends/webcam_linux`, `webcam_windows`, `webcam_macos`) | sessions, formats, streams | the same calls | streams that must be stopped to change a format, sources that die |
| Phone cameras (`src/backends/camera2_android`) | a thread, one session, the slot of a callback | the same calls | a photo interrupts the live view and must put it back; who turns the picture |
| Remote backend and peers (`src/backends/remote/`, `src/routes/peers.rs`) | peers, relays, the cameras taken to be connected | adding peers, relaying live views, forwarded calls | lost answers, late effects, stale tokens, stuck upstreams |
| Rotation (`src/camera/rotation.rs`, `jpeg_rotate.c`) | the device rotation | angles, EXIF tags, turning pixels | the camera may have turned the picture, or tagged it, or neither |
| Camera types (`src/camera/mod.rs`) | none | `CameraBackend`, `DeviceId`, `dedup_key` | — |
| Authentication (`src/auth.rs`) | none (reads the token) | one comparison per request | — |
| Android app (`android/app/...`) | `ServerState` | the foreground service | its coroutine races `onDestroy` |

How they interact: the routes call backends on blocking threads and never hold
a lock across an await; most backends serialise their calls on a thread of their
own, which answers over a channel; the routes share one registry of senders, one
set of marks and one cache. A peer is another such server, whose routes the
remote backend calls. The
Android module and the desktop path both start a server with `bind_server`,
which registers the backends with the shutdown module, and end it through
`shutdown::run`.

`PROJECT.json` lists every component with what is modelled of it, and every
hazard of the code at its line with the properties that cover it.

## 2. The modules

| module | extends | models |
|---|---|---|
| `CaptureGuard` | | photo requests and the set of marked devices |
| `LiveView` | `CaptureGuard` | the live view of one device: clients, registry, capture loops, disconnects, the device; composed with the photo requests that mark it |
| `Listing` | `CaptureGuard` | `GET /cameras`: tasks, timeouts, cache, merge; composed with the photo requests that hold channels |
| `AndroidServer` | | the JNI calls, the server threads, the shutdown module |
| `ProcessExit` | | Ctrl-C on Linux, macOS and Windows, with requests on lazily built backends |
| `CameraSessions` | | the abstract specification of a backend: what `CameraBackend` promises the routes |
| `SdkThread` | | the channel to the thread of an SDK, its callers, the bodies and their photos; `Contract` is `CameraSessions` on these variables |
| `CanonActor`, `NikonActor`, `SonyActor` | `SdkThread` | the three threads with their commands, callbacks and caches |
| `Controls` | | what the lists of controls share |
| `CanonControls`, `NikonControls`, `SonyControls`, `GPhotoControls` | `Controls` | `get_parameters`, `set_parameter` and the settings a backend forces |
| `PeerRegistry` | | `POST` and `DELETE /peers`, the registry, tokens that peers change |
| `RemoteBackend` | `PeerRegistry` | connects and disconnects over HTTP, relays of live views |
| `MjpegStream` | | how a relay cuts a multipart stream into pictures |
| `Rotation` | | angles, EXIF orientations, the three ways of turning a picture |
| `PixelMaps` | | where each pixel goes, in the bridge and in the encoder |
| `Camera2Actor` | `Rotation` | the thread of a phone's camera, its photos and its live view |
| `GPhotoSessions` | | handles of one body, the keep-alive thread, the probe of the focus |
| `WebcamLinux` | | connects, formats and buffers of a V4L2 camera |
| `WebcamWindows` | | sessions of Media Foundation and DirectShow, their formats and converters |
| `MCLiveView`, `MCListing`, `MCAndroidServer`, `MCAndroidCalls`, `MCProcessExit`, `MCSdk`, `MCControls`, `MCBackends` | the module(s) of the name | instances for TLC |
| `LiveViewProofs`, `ListingProofs`, `AndroidServerProofs`, `ProcessExitProofs`, `SdkProofs`, `ControlsProofs`, `RemoteProofs`, `BackendsProofs` | the module(s) of the name, or its `MC` module | theorems and proofs |

### How state and actions correspond to the code

*Atomicity.* An action is what happens between two points where another actor
may run: a lock, an await, a message, an atomic operation. `disconnect_camera`
is two actions because the registry is unlocked before the backend is called;
`Subscribe` is one because lookup, `subscribe()` and the decision to spawn all
happen under the registry's lock; `startServer` is eight because other threads
can run between its accesses to `ACTIVE_TOKEN` and `ANDROID_TOKEN`, although it
holds `RUNNING` (variable `holder`) from the first to the last. A command that
an SDK's thread runs is one action, except where it pumps events or waits for a
body: a photo is under way (`work`) while bodies leave and images come.

*CaptureGuard.* `handler[k]` is the async handler that owns the guard,
`burst[k]` the blocking task. `CaptureAborted` drops the first and not the
second, as dropping a future that awaits `spawn_blocking` does.

*LiveView.* `sender` is the registry's entry; an `Arc` is an identifier, alive
while the registry or a loop holds it (`Open`), and may be used again when
nobody can compare it with its successor (`Fresh`). A loop's `phase` is where
it is between two awaits. A client is described by the last picture it was sent
and by whether the closing boundary followed, because that is what a browser
shows. `misses` wraps at `Horizon`: beyond the thresholds only its remainder
matters. `PollReturns` lets a backend answer what it likes: a frame says nothing
about the device or its session.

*Listing.* One task per backend (`task[p][b]`) that takes the answer or times
out. A list is a set of devices; `Place` gives the order in which `dedup_devices`
meets them, on which "the first at the winning priority" depends.

*AndroidServer.* A server run is an identifier that stands for its thread, its
token and its registry. `Referenced` says who still holds an `Arc` of the
registry; `DropRegistry` is the drop of the last one, which ends the backends'
actors and closes their sessions. `claimed` says which run's backends hold the
camera.

*ProcessExit.* A runner is whoever calls `shutdown::run`: the main path and the
grace task on Unix, the console handler on Windows. `step[r]` is where a request
is in `LazyBackend::resolve`. The end of `main` is two steps: `RuntimeDrops`
cancels the grace task at its await, and only then `MainReturns` has waited for
the blocking tasks, without a bound, and ends the process on Linux only.

*SdkThread.* `inbox` is the mpsc channel, `waiting` the callers that block in
`recv()`, `open` the table of sessions, `held` what the SDK or the system has
open for us: the two part where a backend loses track. `photo` is the picture in
the answer of the last command, with the body and the exposure it is of: `"own"`
for the capture under way, `"late"` for one of an earlier call that is announced
while this one waits, `"stale"` for what was announced before it began. `album` holds the exposures that a
body has yet to announce. `CanonActor` adds `SHUTDOWN_CAMERA_REFS` (`lost`),
`PENDING_DIR_ITEM` (`pending`) and `EVF_ZOOM_CACHE`: the level the body is at
(`zoom`), the one its frames still show (`evfZoom`) and the cached one are three,
and a body may fall back to Fit by itself. `NikonActor` adds the warm-up, the
commands that are posted without an answer (`Warmup`, `UsbGone`), the frames the
SDK pushes and the directory its photos land in. For `UsbGone`, `MCSdk` records
as history what was off the bus at the scans that the queued messages tell of
(`swept`). `SonyActor` adds the cached list and
the bridge's `g_enum_list` with the count of sessions that keeps it alive.

*Controls.* `body` is the settings of the body, `changed` the last write it
accepted. `get_parameters_impl` is a set of controls; an action is one
`set_parameter`, with the clamping, masking and translation the code does. A Sony
body that accepted a value may take it, take another one or do nothing, and the
call answers `Ok` all the same (`set_property`).

*RemoteBackend.* `call[k]` is a forwarded request; one that times out here
becomes a stray, which the peer may still act on. `relay` has every relay ever
started, with the token it captured; `relayOf` is the table. `MjpegStream` takes
a byte, or a line of a part's header, as one symbol; chunks cut the stream
anywhere.

*Camera2Actor.* `actor` is the stage a photo is at; `slot` what the callback
left under its mutex; `preview` the settings the repeating request runs with, whose exposure is
`Capped` while that of a photo is not.
`Bodies` says what a camera does with the angle it is asked for: turn the
pixels, write a tag, or neither.

*GPhotoSessions, WebcamLinux, WebcamWindows.* A handle is a reference that is
counted: the body is open as long as one is left. A probe of the focus may be
answered `Ok`, with the bare `GP_ERROR` that counts as a refusal, or with another
error, whatever the body can do; `slipped` records that one that drives gave the
bare error. `driver` is the format of the
V4L2 device and who owns its buffers; it answers a request for a format with any
it has, in size and in codec. A DirectShow sink and its converter thread
are one record of `sink`, whatever becomes of its session.

Code outside the repository is modelled from its use: tokio's broadcast channel
(a receiver gets what is sent after it subscribed, a closed channel ends its
stream), `spawn_blocking` (a task that started runs to its end), the vendor
SDKs (may fail, may not return where the code bounds the wait), devices that
come and go.

### Refinement

`CameraSessions` is the contract: `connect` opens the one session it was asked
for and it is really open; a session can be lost at any time; a picture is of a
device with a session; `shutdown` leaves nothing claimed, and nothing opens
afterwards. In one point it is weaker than the trait, for which a `connect` of a
connected device does nothing (`camera/mod.rs:322`): Canon closes the session and
may fail to open the next one. Why sessions end at all is said by
`SessionsEndForAReason`, and that a body is not held without a session by
`NoLeak`. `SdkThread` instantiates it with its own `open`, `held`, `photo` and
`thread`; each of the three actors implements it. TLC checks `ContractSpec` in
the run `Sdk`, and the theorems `CanonKeepsContract`, `NikonKeepsContract` and
`SonyKeepsContract` prove it for any number of bodies and callers;
`BackendsKeepContract` says it of the specification that the run checks.

## 3. What the runs check

Each run is described by the `.cfg` that `PROJECT.json` names. *Violation* runs
check what a comment of the program says, and TLC shows a behaviour of the code
that contradicts it; the finding in `PROJECT.json` quotes the line.

| run | checks | instance |
|---|---|---|
| `LiveViewSafety` | `RegisteredSenderIsFed`, `NoFrozenEnd` | two clients, two senders, two loops, one disconnect |
| `LiveViewLiveness` | `NoLeakedLoop`, `SubscriberIsFed`, `StreamsEnd`, `MarkIsTemporary` | two clients, one loop at a time, one disconnect, one photo request |
| `Listing` | `AnswersAreDeduped`, `PollsEnd`, `GoneIsUnlisted` | two bodies of one model on an SDK, the model seen by a generic backend too, and a webcam; one photo request. One entry for each dedup key, the second body of one backend given up |
| `AndroidConcurrent` | `RunningIsServing`, `NoOrphanServer` | two controlling threads, a setter, two runs, both timeouts |
| `AndroidCalls` | `TokensAgree`, `EachRunIsTorn`, `CallsReturn`, `StopIsObeyed`, `LeftoverSessionsClose` | one thread that makes all calls, two runs, both timeouts; `late` is true once a wait has run out |
| `Exit` | `AskedOnce`, `ToldAreDown`, `ProcessLeaves` | Linux, two requests, two backends of which one may never answer; a drain that ends by itself and leaves a call behind that never returns is excepted |
| `Sdk` | `TypeOK`, `NoLeak`, `NoStalePhoto`, `ShownIsTrue`, `ContractSpec`, `SessionsEndForAReason`, `CallsReturn`, `GoneIsDropped` | ten scripts (a backend, the commands its callers use, the bodies), two callers, two bodies |
| `Controls` | `SetIsSeen`, `ListIsSound`, `WriteLandsOnShown`, `QualityIsKept` | four backends, bodies of many shapes, one write after another |
| `Backends` | `BackendsTypeOK`, `RegistryIsSound`, `ConnectedIsOpen`, `RelaysAreReleased`, `PicturesAsSent`, `PicturesAreUpright`, `AnswersAreTrue`, `LiveViewComesBack`, `IdleIsReleased` | one of nine questions at a time: peers, calls and relays of the remote backend, its stream, pixels, a phone, gphoto2, the webcams of Linux and Windows |

`Sdk`, `Controls` and `Backends` choose in their first state which backend they
are about: the backends share no state, so one run of each kind is enough.

| violation run | what the code does instead |
|---|---|
| `ExitMacos` | on macOS the process stays after a clean drain |
| `NoExitMidTeardown` | the process exits while the other path tears backends down |
| `OneAxisMoves` | a pan of the magnified live view undoes a tilt: on Nikon before the next frame, on Canon bodies that do not tell the position always |

### Other places where the models and a comment of the code part

No run of their own; the models have these behaviours, and a property that
would exclude one says so in its comment. Routes and lifecycle:

- two capture loops can poll one camera for one sender, when a subscriber leaves
  and another comes before the loop looks at `receiver_count()`
  (`routes/cameras.rs:463`); a loop that serves a subscriber can be orphaned
  though nobody disconnected (`:639`, `:699`);
- overlapping or aborted captures unmark a device that is still shooting
  (`routes/cameras.rs:33`), and the camera then vanishes from the listing while
  its backend shoots (`:184`);
- a client that subscribes between the terminal picture and the removal of the
  sender gets a stream that ends without a picture (`routes/cameras.rs:711`);
- a sender can be registered between the two steps of a disconnect
  (`routes/cameras.rs:318`);
- the second of two bodies of one model on one backend is not listed, its key
  being the model's (`routes/cameras.rs:211`), although the key is called the
  identity of the physical device (`camera/mod.rs:170`);
- a backend that goes on giving the last frame of a device that is gone, a relay
  (`remote/mod.rs:230`) or a DirectShow graph (`webcam_windows/mod.rs:2382`), keeps
  its stream open for ever, although the disappearance from the list is to end it
  (`routes/cameras.rs:541`): without misses the list is never asked for;
- a `stopServer` that ends late empties `ACTIVE_TOKEN` after another thread has
  started the next server, which later `setToken` calls then miss
  (`lib.rs:967`);
- a stopped Android server still holds the camera until the next start
  (`docs/android-embedding.md:111`, `shutdown.rs:69`);
- on Linux, too, the process stays for ever when the drain ends by itself and
  leaves a blocking call behind that never returns: the grace task goes with the
  runtime, and the calls of Canon and Nikon wait without a bound
  (`canon/mod.rs:400`, `nikon_zs2/mod.rs:674`, against `lib.rs:459`);
- a backend that is built after `shutdown()` has passed it keeps its session at
  exit (`backends/lazy.rs:179`); gphoto2, the Linux webcams and the phone's
  cameras have no `shutdown()` of their own.

Vendor SDKs:

- Canon: `connect` of a connected body opens it again; an image of an earlier
  capture that comes late is answered; `EVF_ZOOM_CACHE`
  outlives a session that was lost or replaced, and a body that fell back to Fit by
  itself: it is then reported at the cached level although it does not magnify
  (`canon/mod.rs:1213`). That a session starts unmagnified is an assumption about
  the body;
- Nikon: a late `UsbGone` drops a fresh session (`nikon_zs2/mod.rs:723`), which
  `SessionsEndForAReason` allows as a scan older than the session; the listing is empty after a
  disconnect and a connect until the next scan; the warm-up flag is never reset;
  a body pulled before its live view began stays connected if another Nikon is
  on the bus; `newest_file_in` may read a file that is still being written;
- Sony: `connect` of a session that the SDK has ended answers `Ok`; an
  enumeration that fails counts as an empty one; a write that the body
  ignores, or answers with a value near it, is reported as done
  (`sony/bridge.cpp:276`).

Other backends:

- remote: a relay whose upstream is stuck never ends, although it is to end about
  2 s after the polls stop (`remote/mod.rs:25`), and its last frame never expires
  (`:481`, `:230`); its token is the one it was started with;
  a request that timed out may act at the peer later; a connect that races a
  disconnect can enter the camera afterwards;
- gphoto2: on a body with two lists of focus modes the toggle is made of both, so
  `dedup_by_type` keeps the first of the tree although `widget_for` writes the
  preferred one (`gphoto2/mod.rs:858`, `:936`, `:947`): with `focusmode2` before
  `focusmode` the client sees the one it does not set; a reconnect can fail, or enter a session after a disconnect, while
  another handle lives; the verdict on the focus is kept per port, and one bare
  `GP_ERROR` in passing hides the focus of a body that drives until a restart
  (`gphoto2/mod.rs:192`);
- phone: a square photo that the camera turned without a tag is turned twice, a
  half turn that it ignored cannot be told; when the session cannot be restored
  after a photo, later calls answer "not supported"; the result of
  `setRepeatingRequest` is not looked at after a photo;
- Linux webcam: a refused format leaves the camera connected without a stream;
  connects that overlap may decode frames in the wrong format;
- Windows webcam: the converter of a DirectShow connect that fails late never
  ends; the DirectShow session of a camera that was pulled gives its last picture
  for ever and stays connected, which no property denies.

### Bounds, and why they are enough

- Two clients are needed for a client that shares a sender with another and for
  one that replaces another; two loops for the overlap of a loop that leaves and
  one that takes over; two senders for the one before and the one after a
  disconnect. Further ones only repeat these roles, and the safety properties
  are proved for any number. A client
  that needs a new loop waits when all loops of an instance are taken: with one
  loop, `LiveViewLiveness` is about streams that follow one another, and overlap
  is left to `LiveViewSafety` and the proofs.
- The thresholds (60, 45 and 64 misses) become 1, 1 and 2 for safety and 2, 1
  and 2 for liveness: in the second the check for the device begins before the
  grace period is over, as in the code, and the period is longer than one, so
  that a check is sometimes due and sometimes not.
- `Controls`: 329 bodies, chosen so that each list of controls comes in each of
  its shapes: an ISO list with an automatic entry, without one, with names; one
  switch or two in either order, of which one may be stuck; one list of focus
  modes or two in either order; the qualities of Nikon and Canon in many orders;
  Sony's lists with their flags. The theorems are about every body that
  satisfies `BodyOK`: a setting is one of those that are offered, and for gphoto2
  (`TreeOK`) no name comes twice, widgets of one type are of one kind, a switch
  has two positions, a range two ends, the lists of ISO values and focus modes
  are lists and no switches, and of two lists of focus modes each has one that
  focuses. These are the trees that libgphoto2's drivers build.
- Server runs: two, for a run and its successor. A start begins only if an
  identifier is free, that is, if nothing is left of the run that had it.
- Listing: one request under way; requests share
  nothing but the cache, which a request only overwrites with what it just got.
- `asked` in `ProcessExit` needs no bound: `AskedOnce` bounds it.
- `Sdk`: a script has the commands that meet on one piece of state; two bodies
  where a session of one could be taken for the other's, two callers where a
  command waits behind another. `StallLimit` is 2 instead of thirty, so that one
  poll stalls and the next one gives up; `MaxPosts` is 2 messages without an
  answer under way, for one that is overtaken by another.
- `Backends`: `MaxPeers` 2 and two adders for two requests for one address (a peer that is asked
  for its cameras has been added before);
  `MaxRelays` 2 for a relay and its successor; `MaxStrays` 1 for an effect that
  comes late; pictures of up to 5 by 5 pixels, oblong and square, all of whose
  turns are compared (and proved for any size); parts of a stream cut into
  chunks of any size up to 12 symbols, as long as a header and its body, so that a
  chunk can hold a part, less, or the end of one and the beginning of the next;
  `MaxShots` 2 for a picture that comes after its own capture; `MaxHandles` 2
  for a session and the next one; `MaxReads` 4 buffers in one poll; `MaxSinks` 2.
- The orientation of a phone is 180 or unknown: with the mountings of `Phones`, 0,
  90 and 270 degrees are asked of a picture, each in the way of each kind of
  camera. The half turn is left to the pixels, where all four are compared; a
  camera that ignores it cannot be told from one that turned the picture.

Deadlock is checked except in the runs of `ProcessExit`, where the system is
meant to stop, and in `Sdk` and `Backends`, where the thread of a backend ends
and the bounds are reached. The instances with `SYMMETRY` check safety only.
Windows has no run of the exit: its console handler takes the same steps as a
single runner, and the theorems about the exit hold for every platform.

### Fairness, and why the code justifies it

- `LiveViewScheduled`: weak fairness of each loop, of the end of a closed
  stream, and of a burst and its handler: the runtime polls ready tasks, and
  backends answer. The threads of the SDKs bound what they do for a frame or a
  capture; that the vendor's call itself returns is an assumption, for their
  callers wait without a bound. Clients, devices and disconnects have none.
  `StreamsEnd` has a hypothesis of its own, `Stalled`: from some point on no poll
  gives a frame and no capture excuses that. The code does not guarantee it, as
  listed above.
- `Clock`: strong fairness of handling a frame or miss *when the heartbeat is
  due*, and of a successful enumeration: time passes, so a loop that keeps going
  finds 66 ms elapsed again and again; and a backend asked for ever does not
  fail each time. The first is what `SubscriberIsFed` rests on, the second
  `StreamsEnd`.
- `ListingSpec`: the tasks and their timers run. Backends get none, they may
  hang.
- `AndroidSpec` and `CallsSpec`: the calling thread goes on, with no assumption
  about server threads; `StopIsObeyed` and `LeftoverSessionsClose` assume in
  addition (`ThreadsRun`) that server threads and the dispose thread run.
- `ExitSpec`: timers and runners run, and blocking calls end but for those that
  wait for the thread of a backend in `Slow` (`Hangs`), which may never answer
  anything; strong fairness for the lock of a backend (std's mutex is released
  again and again). The actors that are not in `Slow` close when they are asked
  to.
- `MCSdk`: the thread takes what is in its channel and its bounded waits end;
  the EDSDK tells of a body that is gone; a frame that is not replaced grows
  old; whoever watches a Nikon goes on polling, which only `GoneIsDropped` needs
  and which the capture loop does. Bodies and SDK callbacks have none.
- `MCBackends`: the task of a relay is scheduled; nothing is assumed of its
  upstream, which the code leaves without a timeout. `IdleIsReleased` says what
  follows either way: if the peer answers, and sends or breaks off
  (`UpstreamGoesOn`, a hypothesis of the property), an idle relay ends; if not, it
  waits for one answer or one chunk and opens no other stream. The calls
  of gphoto2 and its keep-alive return, libgphoto2 bounding its transfers.

## 4. What is proved

Every safety property of every passing run is a theorem, for every number of
clients, loops, senders, devices, requests, threads, runs, backends, peers and
relays, every value of the thresholds and timeouts, every body, tree of widgets,
picture and format:

| theorem | statement |
|---|---|
| `CaptureNeverWedged` | `CaptureSpec => []NeverWedged` |
| `LiveViewTypeCorrect`, `RegisteredSenderAlwaysFed`, `StreamNeverEndsFrozen` | `LiveViewSpec =>` `[]LiveViewTypeOK`, `[]RegisteredSenderIsFed`, `[]NoFrozenEnd` |
| `ListingTypeCorrect` | `ListingSafety => []ListingTypeOK` |
| `EveryAnswerIsDeduped` | `ListingSpec => AnswersAreDeduped` |
| `AndroidTypeCorrect`, `RunningAlwaysServes`, `NoServerOrphaned` | `AndroidSafety =>` `[]AndroidTypeOK`, `[]RunningIsServing`, `[]NoOrphanServer` |
| `OneCallersTokensAgree` | with one calling thread, `AndroidSafety => []TokensAgree` |
| `OneCallersRunsAreTorn` | with one calling thread, `CallsSpec => []EachRunIsTorn` |
| `TeardownAtMostOnce`, `TeardownCloses` | `ExitSafety =>` `[]AskedOnce`, `[]ToldAreDown` |
| `CanonKeepsContract`, `NikonKeepsContract`, `SonyKeepsContract` | each thread implements `ContractSpec` |
| `CanonPhotoIsNotStale`, `NikonPhotoIsNotStale`, `SonyPhotoIsNotStale` | each thread: `[]NoStalePhoto` |
| `CanonHoldsWhatIsOpen`, `SonyBorrowsWhatLives` | `[]NoLeak` of the thread |
| `SdkKeepsTypes`, `NothingLeaks`, `PhotosAreNotStale`, `WhatIsShownIsTrue` | `AnySpec =>` `[]TypeOK`, `[]NoLeak`, `[]NoStalePhoto`, `[]ShownIsTrue` (`MCSdk`) |
| `BackendsKeepContract`, `SessionsEndRightly` | `AnySpec =>` `ContractSpec`, `SessionsEndForAReason` (`MCSdk`) |
| `ScriptsAreCases` | `Spec => AnySpec`: the scripts that TLC runs are cases of the above |
| `ControlsKeepTypes`, `WhatIsSetIsSeen`, `ListsAreSound` | `AnySpec =>` `[]ControlsTypeOK`, `[]SetIsSeen`, `[]ListIsSound` (`MCControls`) |
| `WritesLand`, `QualityStays` | `AnySpec =>` `WriteLandsOnShown`, `QualityIsKept` (`MCControls`) |
| `BodiesAreCases` | `Spec => AnySpec`: the bodies that TLC is given are cases of the above |
| `RegistryStaysSound` | `PeersSpec => []RegistryIsSound` |
| `ConnectedStaysOpen`, `RelaysStayReleased` | `RemoteSpec =>` `[]ConnectedIsOpen`, `[]RelaysAreReleased` |
| `PixelsTurnTogether` | `PixelsSpec => []PixelsTurn`: for every size and angle, the bridge and the encoder turn a pixel to the same place |
| `BackendsKeepTypes`, `PicturesComeAsSent`, `PicturesComeUpright`, `AnswersStayTrue`, `LiveViewIsPutBack` | `Spec =>` `[]BackendsTypeOK`, `[]PicturesAsSent`, `[]PicturesAreUpright`, `[]AnswersAreTrue`, `[]LiveViewComesBack` (`MCBackends`) |
| `RemoteStaysSound` | the invariants of the peers and the relays in `MCBackends` |

The assumptions are the named `ASSUME`s of the modules, which TLC evaluates:
that `None` is not one of the identifiers or values it stands beside,
that thresholds and limits are natural numbers (some positive), that the
timeouts are on or off, that the backends of a listing are finitely many, that a
phone's camera is mounted at a quarter turn (`PhoneAssumption`), that a picture
is a sequence of bytes (`StreamAssumption`), that the one peer of the instance is
a known address (`PeerIsKnown`), and that a Windows webcam offers a format that
can be read (`WindowsAssumption`). `WordAssumption` says of a few words, and of
the types that `CONFIG_KEYS` names, that they are strings, which the provers do
not know of literals.

**Live view.** `NoFrozenEnd` is not inductive: a state in which a client looks
at a frame on a sender whose only loop is about to leave without a terminal
picture satisfies it. `StreamInv` adds that whoever looks at a live frame has a
loop on its sender that has not yet decided about the terminal picture, and
whoever looks at a placeholder without its boundary has one that can still send
it. Two loops on one sender are allowed, as the code allows them: the last one
to leave sends the terminal picture. `LoopStepKinds` reduces the twelve actions
of a loop to six kinds of effect, and the invariant is proved per kind.

**Listing.** `dedup_devices` takes the first device of the best priority for
each key. That a key that was found has such a device needs that what a request
holds is finite (`FoundIsFinite`, an invariant, since only finitely many devices
ever appeared), and then that a finite set has a least and a greatest element,
which `GreatestExists` gets from the well-foundedness of inclusion. The same choice
supersedes everything that is left out (`DedupSupersedes`).

**Android.** `RunningIsServing` and `NoOrphanServer` need that the starts
exclude each other although stops do not take part in the exclusion
(`StartsExclude`), that a thread leaves its accept loop only when told
(`LeavesWhenTold`), and that a run is held by someone from the moment its thread
exists, not only once it serves (`RunsAreHeld`). For an app that makes one call at
a time, `TokenInv` follows the two tokens through the steps of a start, and
`LiveIsKnown` and `LatchIsOwn` say that the run that has not finished is the one
the caller knows of and that the latch is its own, as long as no wait has run
out.

**Exit.** `LatchInv` says that at most one runner is inside the teardown and
that what it has left was not asked; `AskedInv` that a backend that was asked is
down or awaited (unless it is one of the slow), and that a backend under construction belongs to one task,
which holds its lock.

**SDK threads.** The step of a thread maps to a step of the contract only if a
capture under way is of a session that is still open and the thread still runs
(`CaptureInv` of each), and that rests on what can be in the channel (`Sent`). What was
left from before is out of the way when a capture begins: the slot is emptied
(Canon), the directory is (Nikon), the download is forgotten (Sony). For Sony,
`BorrowInv` says that the bridge's count is the number of sessions in the table,
so that it is 0, and the old enumeration released, only when nobody borrows.
`AnySpec` is the specification of `MCSdk` without its scripts: one of the three
threads, any commands in any order, any bodies. Its invariant `SdkInv` adds what
the other properties need: `ZoomInv` (a body with a session whose cache says Fit,
or nothing, is at Fit, whatever its frames show: writes reach the cache with the
body, and a body moves by itself to Fit only), `ShownInv` (Sony's list is
rewritten with the table) and `SweptInv` (while a `UsbGone` is queued, every body
was off the bus at a scan that a queued one tells of, whatever has come back
since).

**Controls.** Each list is first stated control by control (what is in it, and
its fields), then what one write does to it. For gphoto2 the two orders of the
code meet: `dedup_by_type` keeps the best rank among what the tree holds,
`widget_for` asks for the names in order. `WritesLand` rests on both choosing the
same widget, and `WhatIsSetIsSeen` on the names, places and types of the controls
not depending on the values, so that the winner after a write is the winner
before. Both leave out a type that is made up of two lists (`Torn`), of which the
code shows one and writes the other (see "other places"). For Nikon, `NikonShot` says that the list
still shows the level of the last shot, because a frame of the live view changes
the body and not `changed`. For Sony, `changed` is what came of the
write, the value or what the body is at instead, and `SetIsSeen` says that the list
translates it back to the same entry; that it is the value the client asked for
is not so. A body is any that satisfies `BodyOK` (see the
bounds), and `ControlsKeepTypes` says that it stays one: no write that the code
lets through sets what the body does not offer.

**Peers and relays.** `RegistryInv` adds to `RegistryIsSound` that identifiers
do not exceed the last one and that a request about to write holds a token its
peer has accepted. `CallInv` says what a request that has met no other one for
its camera knows of its peer at each stage; requests that overlapped, a request
that acts after it was given up, and a peer that closes the camera by itself mark
it as `crossed`, which is what `ConnectedIsOpen` excuses. `RelayInv` says that a relay that streams and was not told to stop is
the one in the table, and was started after the last disconnect.

**Pictures.** The turns of a pixel are arithmetic on its indices; the three
angles follow from one quarter turn. For the stream, `StreamInv` lays the bytes
received and the bytes on their way end to end and says where each part that was
not taken yet begins: a chunk moves the border between the two, taking a picture
moves the first beginning, and nothing else about the stream changes, whatever
the pictures contain. For a phone, `StageInv`, `PictureInv` and `RequestInv` say what a
photo holds at each of its stages, so that the one picture in the slot is of its own
shot and has the exposure the list shows, and the request that is put back has
the settings of now, its exposure capped.

**gphoto2 and webcams.** On Linux `OwnerInv` says whose the driver's buffers are,
and `FormatInv` that the session, the connect under way and the driver agree on
the format as long as connects did not overlap (`overlapped`), the excuse that
the property names; it holds whatever the driver makes of a request, since the
format is taken from its answer. For gphoto2 the verdict on the focus is true
unless the body slipped. On Windows the session's format is the reader's, and an open
channel of a converter is that of the session or of a connect that failed
(`WindowsInv`).

Only model-checked: the liveness properties, `NoLeakedLoop`, `SubscriberIsFed`,
`StreamsEnd`, `MarkIsTemporary`, `PollsEnd`, `GoneIsUnlisted`, `CallsReturn`,
`StopIsObeyed`, `LeftoverSessionsClose`, `ProcessLeaves`, `GoneIsDropped` and
`IdleIsReleased`. They rest on fairness, and TLAPS does not reason about
`ENABLED` here.

## 5. Not modelled

- Bytes: JPEG composition, EXIF, JSON, HTTP codes, labels of controls.
- `average_frames`: arithmetic on pixels without state.
- The macOS webcam backend: its bridge is a table of sessions under a lock whose
  delegate keeps the last frame, as the other webcams'.
- The controls of webcams (V4L2, COM) and the white balance, aperture and focus
  steps of the vendor backends, which are lists of the same kind as those modelled.
- The cap on the buffer of a relay (16 MB), `serverStatusJson` and `LAST_ERROR`.
- The Kotlin service and the user interface of the Android app: `AndroidServer`
  lets threads make the calls of the service in any order.
- The order of two listings that finish together: the older list may be cached
  last; the code promises nothing there.
- A second Ctrl-C on Windows: console handlers are taken to run one at a time.
- The build, packaging and static files.

## 6. Plan

Done, in the order of importance: live view and captures, Android lifecycle,
exit, listing; the contract of sessions and the three SDK threads; the controls;
the remote backend; phones, gphoto2 and webcams; rotation. Next:

1. An abstract specification of the live view ("a stream shows frames, then one
   terminal picture, then ends") with a refinement mapping from `LiveView`.
2. The contract `CameraSessions` for gphoto2, phones and webcams, whose `held`
   and `open` part in other ways than those of an SDK thread.
3. `ServerService`: the Kotlin service as the caller of `AndroidServer`.
4. The macOS webcam, beside `WebcamLinux`.
5. Theorems for the refinements of 1 and 2; the liveness properties stay with
   TLC.
