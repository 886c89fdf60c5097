------------------------------ MODULE SonyActor ------------------------------
(***************************************************************************)
(* The sony-sdk thread and its C++ bridge: sessions that the SDK can kill   *)
(* behind the table, a shared list of devices refreshed when nothing else  *)
(* is to do, and one enumeration that the open sessions borrow from.       *)
(***************************************************************************)
EXTENDS SdkThread, FiniteSets

VARIABLES
  gone,      \* sessions that OnDisconnected has ended
  shown,     \* the cache of list_devices(): "absent", "idle" or "connected"
  enumList,  \* g_enum_list: the bodies in it
  borrowers, \* sessions that use an entry of g_enum_list
  dangling,  \* sessions that use an entry of a list released since
  sessions,  \* g_open_sessions
  download,  \* download_path of a session: which exposure it is
  confirmed  \* the device of the last command, if that was a connect and succeeded

sonyVars ==
  <<gone, shown, enumList, borrowers, dangling, sessions, download, confirmed>>
bridgeVars == <<enumList, borrowers, dangling, sessions>>

(* "Read" stands for GetParameters and SetParameter. *)
SonyCalls ==
  {"Read", "IsConnected", "Connect", "Disconnect", "GetLiveViewFrame", "CapturePhoto"}
SonyOps == SonyCalls \cup {"PrepareExit", "Shutdown"}

SonyTypeOK ==
  /\ SdkTypeOK(SonyOps)
  /\ gone \subseteq open
  /\ shown \in [Devices -> {"absent", "idle", "connected"}]
  /\ enumList \subseteq Devices
  /\ borrowers \subseteq Devices
  /\ dangling \subseteq Devices
  /\ sessions \in Nat
  /\ download \in [Devices -> Shots \cup {None}]
  /\ confirmed \in Devices \cup {None}

(* What is listed after a scan that found `found`, with sessions `s`. *)
Listed(found, s) ==
  [d \in Devices |-> IF d \notin found THEN "absent"
                     ELSE IF d \in s THEN "connected" ELSE "idle"]

SonyInit ==
  /\ gone = {}
  /\ enumList \in {present, {}}
  /\ shown = Listed(enumList, {})
  /\ borrowers = {}
  /\ dangling = {}
  /\ sessions = 0
  /\ download = [d \in Devices |-> None]
  /\ confirmed = None

-----------------------------------------------------------------------------
(* Callbacks of the SDK. *)

(* The body is lost; a power cut may never be told. *)
OnDisconnected(d) ==
  /\ d \in held \ gone
  /\ gone' = gone \cup {d}
  /\ UNCHANGED <<sdkVars, shown, bridgeVars, download, confirmed>>

OnCompleteDownload(d) ==
  /\ d \in held
  /\ \E shot \in Shots :
       Announces(d, shot) /\ download' = [download EXCEPT ![d] = shot]
  /\ UNCHANGED <<present, open, held, inbox, waiting, work, thread, photo, asked>>
  /\ UNCHANGED <<gone, shown, bridgeVars, confirmed>>

-----------------------------------------------------------------------------
(* The bridge. *)

(* A scan; the list it leaves behind replaces the last one unless a session *)
(* is open.  A scan that fails counts as one that found nothing.           *)
sn_list_devices(found) ==
  \/ /\ found = present
     /\ IF sessions = 0
        THEN /\ enumList' = found
             /\ dangling' = dangling \cup borrowers
             /\ borrowers' = {}
        ELSE UNCHANGED <<enumList, dangling, borrowers>>
     /\ UNCHANGED sessions
  \/ found = {} /\ UNCHANGED bridgeVars

(* The entry is taken from the shared list if it is there, else from a list *)
(* of the session's own.                                                   *)
sn_connect(d) ==
  /\ d \in present
  /\ held' = held \cup {d}
  /\ sessions' = sessions + 1
  /\ borrowers' = IF d \in enumList THEN borrowers \cup {d} ELSE borrowers
  /\ UNCHANGED <<enumList, dangling>>

(* The drop of a SessionHandle. *)
sn_disconnect(d) ==
  /\ held' = held \ {d}
  /\ sessions' = IF sessions > 0 THEN sessions - 1 ELSE 0
  /\ borrowers' = borrowers \ {d}
  /\ dangling' = dangling \ {d}
  /\ UNCHANGED enumList

-----------------------------------------------------------------------------
(* The thread. *)

set_cached_connected(d, state) ==
  shown' = [shown EXCEPT ![d] = IF @ = "absent" THEN @ ELSE state]

(* Mutant of RemoveSession: it is remembered as gone. *)
RemoveKeepsGone(d) ==
  open' = open \ {d} /\ sn_disconnect(d) /\ set_cached_connected(d, "idle") /\ UNCHANGED gone

(* The session of d goes, from the table and from the SDK. *)
RemoveSession(d) ==
  /\ open' = open \ {d}
  /\ gone' = gone \ {d}
  /\ sn_disconnect(d)
  /\ set_cached_connected(d, "idle")

(* Nothing came for REFRESH: the devices are scanned again. *)
refresh_cache ==
  /\ Ready
  /\ inbox = <<>>
  /\ \E found \in {present, {}} :
       /\ sn_list_devices(found)
       /\ shown' = Listed(found, open)
  /\ UNCHANGED <<sdkVars, gone, download, confirmed>>

Read(m) ==
  /\ Takes(m, {"Read"})
  /\ Reply(m)
  /\ photo' = None
  /\ confirmed' = None
  /\ SessionsStay
  /\ UNCHANGED <<gone, shown, bridgeVars, download>>

(* Whoever asks for a session the SDK has ended makes it go. *)
prune_dead_session(m) ==
  /\ Takes(m, {"IsConnected"})
  /\ \/ m.dev \in gone /\ RemoveSession(m.dev)
     \/ m.dev \notin gone /\ UNCHANGED <<open, held, gone, shown, bridgeVars>>
  /\ Reply(m)
  /\ photo' = None
  /\ confirmed' = None
  /\ ThreadStays
  /\ UNCHANGED download

(* A device that is in the table is connected, whatever became of it. *)
connect_impl(m) ==
  /\ Takes(m, {"Connect"})
  /\ \/ /\ m.dev \in open
        /\ confirmed' = m.dev
        /\ set_cached_connected(m.dev, "connected")
        /\ UNCHANGED <<open, held, gone, bridgeVars, download>>
     \/ /\ m.dev \notin open
        /\ sn_connect(m.dev)
        /\ open' = open \cup {m.dev}
        /\ confirmed' = m.dev
        /\ set_cached_connected(m.dev, "connected")
        /\ download' = [download EXCEPT ![m.dev] = None]
        /\ UNCHANGED gone
     \/ /\ m.dev \notin open
        /\ confirmed' = None
        /\ UNCHANGED <<open, held, gone, shown, bridgeVars, download>>
  /\ Reply(m)
  /\ photo' = None
  /\ ThreadStays

disconnect_impl(m) ==
  /\ Takes(m, {"Disconnect"})
  /\ \/ m.dev \in open /\ RemoveSession(m.dev)
     \/ m.dev \notin open /\ UNCHANGED <<open, held, gone, shown, bridgeVars>>
  /\ Reply(m)
  /\ photo' = None
  /\ confirmed' = None
  /\ ThreadStays
  /\ UNCHANGED download

get_live_view_impl(m) ==
  /\ Takes(m, {"GetLiveViewFrame"})
  /\ \/ m.dev \in open \ gone /\ photo' = [dev |-> m.dev, shot |-> "own"]
     \/ photo' = None
  /\ Reply(m)
  /\ confirmed' = None
  /\ SessionsStay
  /\ UNCHANGED <<gone, shown, bridgeVars, download>>

(* What was downloaded before is forgotten, and the release pressed; it is  *)
(* cancelled if the focus does not lock.                                   *)
sn_capture(m) ==
  /\ Takes(m, {"CapturePhoto"})
  /\ download' = IF m.dev \in open \ gone THEN [download EXCEPT ![m.dev] = None]
                 ELSE download
  /\ \/ m.dev \in open \ gone /\ Exposes(m)
     \/ Reply(m) /\ UNCHANGED <<work, album>>
  /\ photo' = None
  /\ confirmed' = None
  /\ UNCHANGED <<present, open, held, thread, asked, gone, shown, bridgeVars>>

CaptureEnds ==
  /\ work # None
  /\ download[work.dev] # None
  /\ photo' \in {None, [dev |-> work.dev, shot |-> download[work.dev]]}
  /\ EndCapture
  /\ UNCHANGED sonyVars

(* No download within 20 s. *)
CaptureTimesOut ==
  /\ work # None
  /\ download[work.dev] = None
  /\ photo' = None
  /\ EndCapture
  /\ UNCHANGED sonyVars

(* Every session is dropped, then the SDK is released. *)
sn_release(m) ==
  /\ Returns(m, {"PrepareExit", "Shutdown"})
  /\ gone' = {}
  /\ enumList' = {}
  /\ borrowers' = {}
  /\ dangling' = {}
  /\ sessions' = 0
  /\ confirmed' = None
  /\ UNCHANGED <<shown, download>>

-----------------------------------------------------------------------------
actor_thread ==
  \/ \E m \in Heads :
       \/ Read(m) \/ prune_dead_session(m) \/ connect_impl(m) \/ disconnect_impl(m)
       \/ get_live_view_impl(m) \/ sn_capture(m) \/ sn_release(m)
  \/ refresh_cache
  \/ CaptureEnds
  \/ CaptureTimesOut

SonyAround ==
  /\ \/ \E c \in Callers, op \in SonyCalls, d \in Devices : Call(c, op, d)
     \/ CallShutdown
     \/ DropBackend
     \/ \E d \in Devices : PlugIn(d) \/ PullOut(d)
  /\ UNCHANGED sonyVars

SonyEvents == \E d \in Devices : OnDisconnected(d) \/ OnCompleteDownload(d)

SonyNext == actor_thread \/ SonyAround \/ SonyEvents

SonySpec == SdkInit /\ SonyInit /\ [][SonyNext]_<<sdkVars, sonyVars>>

(* No body is held open for a session that nobody can name any more, and no  *)
(* session uses an entry of an enumeration that was released.               *)
NoLeak == held \subseteq open /\ dangling = {}
=============================================================================
