---------------------------- MODULE BackendsProofs ----------------------------
(***************************************************************************)
(* Theorems about the backends without a vendor's SDK and the runs that      *)
(* choose among them, for any cameras, sizes, formats, pictures and callers.  *)
(***************************************************************************)
EXTENDS MCBackends, RemoteProofs, SequenceTheorems

(* The maps of pixels. *)

PixelsInv == pixel \in Pixels /\ turn \in {0, 90, 180, 270}

(* Turning a pixel by each angle, written out. *)
LEMMA Turns ==
    ASSUME NEW p \in Pixels
    PROVE  /\ Turned(p, 0) = p
           /\ Turned(p, 90) = [row |-> p.col, col |-> p.h - 1 - p.row, w |-> p.h, h |-> p.w]
           /\ Turned(p, 180) =
                [row |-> p.h - 1 - p.row, col |-> p.w - 1 - p.col, w |-> p.w, h |-> p.h]
           /\ Turned(p, 270) = [row |-> p.w - 1 - p.col, col |-> p.row, w |-> p.h, h |-> p.w]
<1>1. /\ p.row \in Int /\ p.col \in Int /\ p.w \in Int /\ p.h \in Int
      /\ p.h - 1 - (p.h - 1 - p.row) = p.row
  BY SideAssumption DEF Pixels
<1>2. Quarter(p) = [row |-> p.col, col |-> p.h - 1 - p.row, w |-> p.h, h |-> p.w]
  BY DEF Quarter
<1>3. Quarter(Quarter(p)) =
        [row |-> p.h - 1 - p.row, col |-> p.w - 1 - p.col, w |-> p.w, h |-> p.h]
  BY <1>2 DEF Quarter
<1>4. Quarter(Quarter(Quarter(p))) =
        [row |-> p.w - 1 - p.col, col |-> p.row, w |-> p.h, h |-> p.w]
  BY <1>1, <1>3 DEF Quarter
<1> QED BY <1>2, <1>3, <1>4 DEF Turned

(* The bridge writes a pixel to where it belongs. *)
LEMMA WritesTurned ==
    ASSUME NEW p \in Pixels, NEW t \in {0, 90, 180, 270}
    PROVE  rotated_index(p, t) = Index(Turned(p, t))
<1>1. CASE t = 0
  BY <1>1, Turns DEF rotated_index, Index
<1>2. CASE t = 90
  BY <1>2, Turns DEF rotated_index, Index
<1>3. CASE t = 180
  BY <1>3, Turns DEF rotated_index, Index
<1>4. CASE t = 270
  BY <1>4, Turns DEF rotated_index, Index
<1> QED BY <1>1, <1>2, <1>3, <1>4

(* The encoder reads, for the place a pixel belongs to, that pixel. *)
LEMMA GathersTurned ==
    ASSUME NEW p \in Pixels, NEW t \in {0, 90, 180, 270}
    PROVE  LET q == Turned(p, t)
           IN  gathered_index(q.col, q.row, p.w, p.h, t) = Index(p)
<1>1. /\ p.row \in Int /\ p.col \in Int /\ p.w \in Int /\ p.h \in Int
      /\ p.h - 1 - (p.h - 1 - p.row) = p.row
      /\ p.w - 1 - (p.w - 1 - p.col) = p.col
  BY SideAssumption DEF Pixels
<1>2. CASE t = 0
  BY <1>2, Turns DEF gathered_index, Index
<1>3. CASE t = 90
  BY <1>1, <1>3, Turns DEF gathered_index, Index
<1>4. CASE t = 180
  BY <1>1, <1>4, Turns DEF gathered_index, Index
<1>5. CASE t = 270
  BY <1>1, <1>5, Turns DEF gathered_index, Index
<1> QED BY <1>2, <1>3, <1>4, <1>5

(* The live view and the encoder of photos turn every picture the same way,
   and that is a quarter turn clockwise as often as asked: no row, column or
   corner is an exception, whatever the size. *)
THEOREM PixelsTurnTogether == PixelsSpec => []PixelsTurn
<1>1. PixelsInit => PixelsInv
  BY DEF PixelsInit, PixelsInv
<1>2. PixelsInv /\ [PixelsNext]_pixelVars => PixelsInv'
  BY DEF PixelsInv, PixelsNext, pixelVars
<1>3. PixelsInv => PixelsTurn
  BY WritesTurned, GathersTurned DEF PixelsInv, PixelsTurn
<1> QED BY <1>1, <1>2, <1>3, PTL DEF PixelsSpec

-----------------------------------------------------------------------------
(* gphoto2. *)

GPhotoInv == GPhoto!GPhotoTypeOK /\ GPhoto!FocusIsNotLost

LEMMA GPhotoBegins == GPhoto!GPhotoInit => GPhotoInv
<1> SUFFICES ASSUME GPhoto!GPhotoInit PROVE GPhotoInv
  OBVIOUS
<1>1. opened \in 0..MaxHandles /\ entry \in 0..opened /\ pinging \in 0..opened
  BY GPhotoAssumption DEF GPhoto!GPhotoInit
<1>2. handles = [c \in Callers |-> GPhoto!Idle]
  BY DEF GPhoto!GPhotoInit
<1>3. GPhoto!Idle \in [at : GPhoto!Stages, session : 0..opened]
  BY <1>1 DEF GPhoto!Idle, GPhoto!Stages
<1>4. handles \in [Callers -> [at : GPhoto!Stages, session : 0..opened]]
  BY <1>2, <1>3
<1>5. plugged \in BOOLEAN /\ drives \in BOOLEAN /\ slipped \in BOOLEAN
  BY DEF GPhoto!GPhotoInit
<1>6. verdict \in {"unknown", "works", "refuses"} /\ GPhoto!FocusIsNotLost
  BY DEF GPhoto!GPhotoInit, GPhoto!FocusIsNotLost
<1>7. GPhoto!GPhotoTypeOK
  BY <1>1, <1>4, <1>5, <1>6, Zenon DEF GPhoto!GPhotoTypeOK
<1> QED BY <1>6, <1>7 DEF GPhotoInv

(* A handle is of a session that was opened. *)
LEMMA GPhotoStep ==
    ASSUME GPhotoInv, [GPhoto!GPhotoNext]_GPhoto!gphotoVars
    PROVE  GPhotoInv'
<1> USE DEF GPhotoInv, GPhoto!GPhotoTypeOK, GPhoto!FocusIsNotLost
<1>1. ASSUME NEW c \in Callers, NEW at \in GPhoto!Stages, NEW s \in 0..opened', GPhoto!Becomes(c, at, s),
             opened <= opened', opened' \in Nat
      PROVE  handles' \in [Callers -> [at : GPhoto!Stages, session : 0..opened']]
  BY <1>1 DEF GPhoto!Becomes
<1>2. ASSUME NEW c \in Callers, GPhoto!Connect(c) \/ GPhoto!Used(c) \/ GPhoto!Listed(c)
      PROVE  GPhotoInv'
  BY <1>1, <1>2 DEF GPhoto!Connect, GPhoto!Used, GPhoto!Listed, GPhoto!Stages, GPhoto!Stage
<1>3. ASSUME NEW c \in Callers, GPhoto!Open(c) PROVE GPhotoInv'
  BY <1>1, <1>3, GPhotoAssumption DEF GPhoto!Open, GPhoto!Stages
<1>4. ASSUME NEW c \in Callers, GPhoto!Insert(c) \/ GPhoto!Disconnect(c) PROVE GPhotoInv'
  BY <1>1, <1>4 DEF GPhoto!Insert, GPhoto!Disconnect, GPhoto!Stages
<1>5. ASSUME NEW c \in Callers, GPhoto!Use(c) \/ GPhoto!GetParameters(c) \/ GPhoto!DriveFocus(c) PROVE GPhotoInv'
  BY <1>1, <1>5 DEF GPhoto!Use, GPhoto!GetParameters, GPhoto!DriveFocus, GPhoto!Take, GPhoto!Stages
<1>6. ASSUME NEW c \in Callers, GPhoto!Probe(c) \/ GPhoto!Driven(c) PROVE GPhotoInv'
  BY <1>1, <1>6 DEF GPhoto!Probe, GPhoto!Driven, GPhoto!Stages, GPhoto!Answers, GPhoto!Slips
<1>7. CASE GPhoto!Wake \/ GPhoto!Pinged \/ UNCHANGED GPhoto!gphotoVars
  BY <1>7, GPhotoAssumption DEF GPhoto!Wake, GPhoto!Pinged, GPhoto!DropHandles, GPhoto!gphotoVars
<1>8. CASE GPhoto!Unplug
  BY <1>8 DEF GPhoto!Unplug
<1> QED BY <1>2, <1>3, <1>4, <1>5, <1>6, <1>7, <1>8 DEF GPhoto!GPhotoNext, GPhoto!CallStep

-----------------------------------------------------------------------------
(* The webcam of Linux. *)

(* Whose the buffers of the driver are: of the session in the table, or of the
   one caller that is about to enter its session. *)
OwnerInv ==
    /\ driver.owner = "table" => webcam # None
    /\ \A c \in Callers : driver.owner = c <=> connects[c].at = "insert"

(* With one connect at a time, whatever has been set is what the driver has. *)
FormatInv ==
    /\ \A c, d \in Callers : connects[c] # Linux!Idle /\ connects[d] # Linux!Idle => c = d
    /\ webcam # None => \A c \in Callers : connects[c] = Linux!Idle
    /\ \A c \in Callers : connects[c].at \in {"buffers", "insert"} => connects[c].format = driver.format
    /\ webcam # None /\ webcam.streams => webcam.format = driver.format

WebcamInv ==
    /\ Linux!WebcamTypeOK
    /\ overlapped \in BOOLEAN
    /\ OwnerInv
    /\ ~overlapped => FormatInv
    /\ reading # None => webcam # None /\ webcam.streams
    /\ Linux!FramesAreWhole /\ Linux!StreamsUnlessFailed

(* What a caller is at tells it from the idle ones. *)
LEMMA StagesDiffer ==
    ASSUME NEW x \in Linux!Stages
    PROVE  /\ x.at = "idle" <=> x = Linux!Idle
           /\ x.at \in {"idle", "best", "fallback", "buffers", "insert"}
           /\ x.at \in {"buffers", "insert"} =>
                x \in [at : {"buffers", "insert"}, format : Linux!Readable, last : BOOLEAN]
BY DEF Linux!Stages, Linux!Idle

LEMMA ReadableFormat == Linux!Readable \subseteq Linux!Formats
BY DEF Linux!Readable

LEMMA WebcamBegins == Linux!WebcamInit => WebcamInv
<1> SUFFICES ASSUME Linux!WebcamInit PROVE WebcamInv
  OBVIOUS
<1>1. Linux!WebcamTypeOK
  <2>1. [size |-> Fallback, codec |-> "yuyv"] \in Linux!Formats
    BY DEF Linux!Formats
  <2> QED BY <2>1, LinuxAssumption DEF Linux!WebcamTypeOK, Linux!WebcamInit, Linux!Stages
<1>2. driver.owner = None /\ \A c \in Callers : connects[c] = Linux!Idle /\ connects[c].at = "idle"
  BY DEF Linux!WebcamInit, Linux!Idle
<1> QED BY <1>1, <1>2, LinuxAssumption DEF Linux!WebcamInit, WebcamInv, OwnerInv, FormatInv,
    Linux!FramesAreWhole, Linux!StreamsUnlessFailed

(* A caller gets on, and neither the table nor a poll is touched. *)
LEMMA CallerMoves ==
    ASSUME WebcamInv, NEW c \in Callers, NEW new \in Linux!Stages,
           NEW f \in Linux!Formats, NEW owner \in {driver.owner, c},
           connects' = [connects EXCEPT ![c] = new],
           driver' = [format |-> f, owner |-> owner],
           UNCHANGED <<webcam, reading, failed>>,
           UNCHANGED frame \/ frame' = None,
           overlapped' = (overlapped \/ (connects[c] = Linux!Idle /\ \E d \in Callers : connects[d] # Linux!Idle)),
           connects[c] = Linux!Idle => webcam = None,
           connects[c].at # "insert",
           driver.owner = owner \/ driver.owner = None,
           owner = c <=> new.at = "insert",
           f # driver.format => connects[c] # Linux!Idle,
           new.at \in {"buffers", "insert"} /\ ~overlapped => new.format = f
    PROVE  WebcamInv'
<1> USE DEF WebcamInv
<1>1. /\ connects'[c] = new /\ \A d \in Callers \ {c} : connects'[d] = connects[d]
      /\ driver'.owner = owner /\ driver'.format = f
  BY DEF Linux!WebcamTypeOK
<1>2. Linux!WebcamTypeOK' /\ overlapped' \in BOOLEAN
  BY DEF Linux!WebcamTypeOK
<1>3. OwnerInv'
  BY <1>1, LinuxAssumption DEF Linux!WebcamTypeOK, OwnerInv
<1>4. ASSUME ~overlapped' PROVE FormatInv'
  <2>1. ~overlapped /\ FormatInv
    BY <1>4
  <2>2. ASSUME NEW d \in Callers \ {c} PROVE connects[d] = Linux!Idle
    BY <1>4, <2>1, <2>2 DEF FormatInv
  <2>3. \A d \in Callers \ {c} : connects'[d] = Linux!Idle /\ connects'[d].at = "idle"
    BY <1>1, <2>2 DEF Linux!Idle
  <2>4. \A d, e \in Callers : connects'[d] # Linux!Idle /\ connects'[e] # Linux!Idle => d = e
    BY <2>3
  <2>5. webcam = None
    BY <2>1 DEF FormatInv
  <2>6. \A d \in Callers : connects'[d].at \in {"buffers", "insert"} => connects'[d].format = f
    BY <1>1, <2>1, <2>3
  <2> QED BY <1>1, <2>4, <2>5, <2>6 DEF FormatInv
<1>5. Linux!FramesAreWhole'
  BY DEF Linux!FramesAreWhole
<1> QED BY <1>2, <1>3, <1>4, <1>5 DEF Linux!StreamsUnlessFailed

LEMMA CallerStep ==
    ASSUME WebcamInv, NEW c \in Callers,
           \/ Linux!Connect(c) \/ Linux!SetFormat(c) \/ Linux!SetFormatFails(c)
           \/ Linux!GetBuffers(c) \/ Linux!GetBuffersFails(c)
    PROVE  WebcamInv'
<1> USE DEF WebcamInv
<1>0. /\ connects[c] \in Linux!Stages /\ driver = [format |-> driver.format, owner |-> driver.owner]
      /\ driver.format \in Linux!Formats /\ overlapped \in BOOLEAN
      /\ driver.owner = c <=> connects[c].at = "insert"
      /\ connects[c] # Linux!Idle /\ ~overlapped /\ connects[c].at \in {"buffers", "insert"} =>
           connects[c].format = driver.format
  BY DEF Linux!WebcamTypeOK, OwnerInv, FormatInv
<1>1. CASE Linux!Connect(c)
  <2> DEFINE new == [at |-> "best"]
  <2>1. new \in Linux!Stages /\ new.at = "best" /\ connects[c].at = "idle"
    BY <1>1 DEF Linux!Stages, Linux!Connect, Linux!Idle
  <2>2. /\ connects' = [connects EXCEPT ![c] = new] /\ connects[c] = Linux!Idle /\ webcam = None
        /\ overlapped' = (overlapped \/ \E d \in Callers : connects[d] # Linux!Idle)
        /\ UNCHANGED <<driver, webcam, reading, failed>> /\ frame' = None
    BY <1>1 DEF Linux!Connect
  <2> HIDE DEF new
  <2> QED BY <1>0, <2>1, <2>2, CallerMoves
<1>2. CASE Linux!SetFormat(c)
  <2>1. PICK f \in Linux!Readable : driver' = [driver EXCEPT !.format = f] /\
          connects' = [connects EXCEPT ![c] =
              [at |-> "buffers", format |-> f, last |-> connects[c].at = "fallback" \/ Best = Fallback]]
    BY <1>2 DEF Linux!SetFormat
  <2> DEFINE new == [at |-> "buffers", format |-> f, last |-> connects[c].at = "fallback" \/ Best = Fallback]
  <2>2. new \in Linux!Stages /\ new.at = "buffers" /\ new.format = f
    BY DEF Linux!Stages
  <2>3. /\ connects' = [connects EXCEPT ![c] = new] /\ driver' = [format |-> f, owner |-> driver.owner]
    BY <1>0, <2>1
  <2>4. /\ connects[c].at \in {"best", "fallback"} /\ connects[c] # Linux!Idle
        /\ UNCHANGED <<webcam, reading, frame, failed, overlapped>>
    BY <1>2 DEF Linux!SetFormat, Linux!Idle
  <2> HIDE DEF new
  <2> QED BY <1>0, <2>2, <2>3, <2>4, CallerMoves, ReadableFormat
<1>3. CASE Linux!SetFormatFails(c) \/ Linux!GetBuffersFails(c)
  <2>1. PICK new \in {Linux!Idle, [at |-> "fallback"]} :
          /\ connects' = [connects EXCEPT ![c] = new]
    BY <1>3 DEF Linux!SetFormatFails, Linux!GetBuffersFails
  <2>2. new \in Linux!Stages /\ new.at \in {"idle", "fallback"}
    BY DEF Linux!Stages, Linux!Idle
  <2>3. /\ connects[c].at \in {"best", "fallback", "buffers"} /\ connects[c] # Linux!Idle
        /\ UNCHANGED <<webcam, reading, frame, failed, overlapped>>
    BY <1>3 DEF Linux!SetFormatFails, Linux!GetBuffersFails, Linux!Idle
  <2>4. PICK f \in Linux!Formats : driver' = [driver EXCEPT !.format = f]
    BY <1>0, <1>3 DEF Linux!SetFormatFails, Linux!GetBuffersFails, Linux!Negotiated
  <2>5. driver' = [format |-> f, owner |-> driver.owner]
    BY <1>0, <2>4
  <2> QED BY <1>0, <2>1, <2>2, <2>3, <2>5, CallerMoves
<1>4. CASE Linux!GetBuffers(c)
  <2> DEFINE new == [connects[c] EXCEPT !.at = "insert"]
  <2>1. /\ connects[c].at = "buffers" /\ connects[c] # Linux!Idle
        /\ connects[c] \in [at : {"buffers", "insert"}, format : Linux!Readable, last : BOOLEAN]
    BY <1>0, <1>4, StagesDiffer DEF Linux!GetBuffers, Linux!Idle
  <2>2. new \in Linux!Stages /\ new.at = "insert" /\ new.format = connects[c].format
    BY <2>1 DEF Linux!Stages
  <2>3. /\ connects' = [connects EXCEPT ![c] = new] /\ driver' = [format |-> driver.format, owner |-> c]
        /\ driver.owner = None
        /\ UNCHANGED <<webcam, reading, frame, failed, overlapped>>
    BY <1>0, <1>4, <2>1 DEF Linux!WebcamTypeOK, Linux!GetBuffers
  <2> HIDE DEF new
  <2> QED BY <1>0, <2>1, <2>2, <2>3, CallerMoves
<1> QED BY <1>1, <1>2, <1>3, <1>4

LEMMA EntryKeeps ==
    ASSUME WebcamInv, NEW c \in Callers, Linux!Insert(c)
    PROVE  WebcamInv'
<1> USE DEF WebcamInv
<1>1. /\ connects[c].at = "insert" /\ connects[c] \in Linux!Stages /\ reading = None
      /\ connects[c].format \in Linux!Readable
  BY StagesDiffer DEF Linux!Insert, Linux!WebcamTypeOK, Linux!Unlocked
<1>2. /\ webcam' = [streams |-> TRUE, format |-> connects[c].format]
      /\ driver' = [format |-> driver.format, owner |-> "table"]
      /\ connects'[c] = Linux!Idle /\ \A d \in Callers \ {c} : connects'[d] = connects[d]
      /\ connects' \in [Callers -> Linux!Stages]
      /\ failed' = FALSE /\ UNCHANGED <<reading, frame, overlapped>>
  BY <1>1 DEF Linux!Insert, Linux!WebcamTypeOK, Linux!Stages
<1>3. driver.owner = c
  BY <1>1 DEF OwnerInv
<1>4. webcam' \in Linux!Session /\ webcam'.streams /\ webcam'.format = connects[c].format /\ webcam' # None
  <2>1. webcam' \in Linux!Session /\ webcam'.streams /\ webcam'.format = connects[c].format
    BY <1>1, <1>2 DEF Linux!Session
  <2> QED BY <2>1, LinuxAssumption
<1>5. driver'.owner = "table" /\ driver'.format = driver.format /\ driver.format \in Linux!Formats
  BY <1>2 DEF Linux!WebcamTypeOK
<1>6. Linux!WebcamTypeOK'
  BY <1>2, <1>4, <1>5 DEF Linux!WebcamTypeOK
<1>7. OwnerInv'
  <2>1. \A d \in Callers : connects'[d].at # "insert"
    BY <1>2, <1>3 DEF OwnerInv, Linux!Idle
  <2> QED BY <1>4, <1>5, <2>1, LinuxAssumption DEF OwnerInv
<1>8. ASSUME ~overlapped' PROVE FormatInv'
  <2>1. FormatInv /\ connects[c] # Linux!Idle
    BY <1>1, <1>2, <1>8 DEF Linux!Idle
  <2>2. \A d \in Callers : connects'[d] = Linux!Idle
    BY <1>2, <2>1 DEF FormatInv
  <2>3. connects[c].format = driver.format
    BY <1>1, <2>1 DEF FormatInv
  <2> QED BY <1>4, <1>5, <2>2, <2>3 DEF FormatInv, Linux!Idle
<1> QED BY <1>1, <1>2, <1>4, <1>6, <1>7, <1>8 DEF Linux!FramesAreWhole, Linux!StreamsUnlessFailed

(* The table is rewritten under the lock: the buffers go back, or to its session. *)
LEMMA TableMoves ==
    ASSUME WebcamInv, reading = None, UNCHANGED <<connects, reading>>, frame' = None,
           NEW f \in Linux!Formats, NEW owner,
           driver' = [format |-> f, owner |-> owner],
           owner = driver.owner \/ (owner = None /\ driver.owner = "table")
             \/ (owner = "table" /\ driver.owner \in {None, "table"}),
           owner = "table" => webcam' # None,
           webcam' \in Linux!Session \cup {None},
           overlapped' \in BOOLEAN,
           ~overlapped' => \A c \in Callers : connects[c] = Linux!Idle,
           webcam' # None /\ webcam'.streams => webcam'.format = f,
           Linux!StreamsUnlessFailed'
    PROVE  WebcamInv'
<1> USE DEF WebcamInv
<1>1. driver'.owner = owner /\ driver'.format = f
      /\ driver.owner \in Callers \cup {"table", None}
  BY DEF Linux!WebcamTypeOK
<1>2. Linux!WebcamTypeOK'
  BY <1>1 DEF Linux!WebcamTypeOK
<1>3. OwnerInv'
  BY <1>1, LinuxAssumption DEF OwnerInv
<1>4. ~overlapped' => FormatInv'
  BY <1>1 DEF FormatInv, Linux!Idle
<1> QED BY <1>2, <1>3, <1>4 DEF Linux!FramesAreWhole

LEMMA DisconnectKeeps ==
    ASSUME WebcamInv, Linux!Disconnect
    PROVE  WebcamInv'
<1> DEFINE owner == IF driver.owner = "table" THEN None ELSE driver.owner
<1>1. /\ reading = None /\ UNCHANGED <<connects, reading>> /\ frame' = None
      /\ webcam' = None /\ overlapped' = \E d \in Callers : connects[d] # Linux!Idle
  BY DEF Linux!Disconnect, Linux!Unlocked
<1>2. driver.format \in Linux!Formats /\ driver = [format |-> driver.format, owner |-> driver.owner]
  BY DEF WebcamInv, Linux!WebcamTypeOK
<1>3. driver' = [format |-> driver.format, owner |-> owner]
  BY <1>2 DEF Linux!Disconnect, Linux!Released
<1>4. Linux!StreamsUnlessFailed'
  BY <1>1 DEF Linux!StreamsUnlessFailed
<1>5. /\ owner = driver.owner \/ (owner = None /\ driver.owner = "table")
             \/ (owner = "table" /\ driver.owner \in {None, "table"})
      /\ owner = "table" => webcam' # None
  BY LinuxAssumption
<1> HIDE DEF owner
<1> QED BY <1>1, <1>2, <1>3, <1>4, <1>5, TableMoves

LEMMA SwitchKeeps ==
    ASSUME WebcamInv, Linux!Switch
    PROVE  WebcamInv'
<1>1. /\ reading = None /\ UNCHANGED <<connects, reading, overlapped>> /\ frame' = None
      /\ webcam \in Linux!Session /\ webcam # None
      /\ overlapped' \in BOOLEAN
      /\ ~overlapped' => \A c \in Callers : connects[c] = Linux!Idle
  BY DEF Linux!Switch, Linux!Unlocked, WebcamInv, Linux!WebcamTypeOK, FormatInv
<1>2. /\ driver.format \in Linux!Formats /\ driver = [format |-> driver.format, owner |-> driver.owner]
      /\ driver.owner \in Callers \cup {"table", None}
  BY DEF WebcamInv, Linux!WebcamTypeOK
<1>3. CASE Linux!NoSize
  <2>1. UNCHANGED <<driver, webcam, failed>>
    BY <1>3 DEF Linux!NoSize
  <2>2. Linux!StreamsUnlessFailed'
    BY <2>1 DEF WebcamInv, Linux!StreamsUnlessFailed
  <2>3. Linux!WebcamTypeOK'
    BY <1>1, <2>1 DEF WebcamInv, Linux!WebcamTypeOK
  <2>4. OwnerInv' /\ (~overlapped' => FormatInv')
    BY <1>1, <2>1 DEF WebcamInv, OwnerInv, FormatInv, Linux!Idle
  <2> QED BY <1>1, <2>1, <2>2, <2>3, <2>4 DEF WebcamInv, Linux!FramesAreWhole
<1>4. ASSUME NEW f \in Linux!Readable, driver' = [format |-> f, owner |-> "table"],
             Linux!Released.owner = None, webcam' = [streams |-> TRUE, format |-> f], failed' = FALSE
      PROVE  WebcamInv'
  <2>0. webcam' \in Linux!Session /\ webcam'.streams /\ webcam'.format = f
    BY <1>4 DEF Linux!Session
  <2>1. webcam' # None
    BY <2>0, LinuxAssumption
  <2>2. driver.owner \in {None, "table"}
    BY <1>4 DEF Linux!Released
  <2>3. Linux!StreamsUnlessFailed'
    BY <2>0 DEF Linux!StreamsUnlessFailed
  <2>4. /\ webcam' \in Linux!Session \cup {None}
        /\ webcam' # None /\ webcam'.streams => webcam'.format = f
    BY <2>0
  <2> QED BY <1>1, <1>4, <2>1, <2>2, <2>3, <2>4, TableMoves, ReadableFormat
<1>5. ASSUME NEW f \in Linux!Formats, NEW set \in BOOLEAN, failed' = TRUE,
             driver' = [Linux!Released EXCEPT !.format = IF set /\ Linux!Released.owner = None THEN f ELSE @],
             webcam' = [webcam EXCEPT !.streams = FALSE]
      PROVE  WebcamInv'
  <2> DEFINE owner == IF driver.owner = "table" THEN None ELSE driver.owner
             g == IF set /\ owner = None THEN f ELSE driver.format
  <2>1. Linux!Released = [format |-> driver.format, owner |-> owner]
    BY <1>2 DEF Linux!Released
  <2>2. driver' = [format |-> g, owner |-> owner] /\ g \in Linux!Formats
    BY <1>2, <1>5, <2>1
  <2>3. webcam' \in Linux!Session /\ ~webcam'.streams
    BY <1>1, <1>5 DEF Linux!Session
  <2>4. Linux!StreamsUnlessFailed'
    BY <1>5 DEF Linux!StreamsUnlessFailed
  <2>5. /\ owner = driver.owner \/ (owner = None /\ driver.owner = "table")
             \/ (owner = "table" /\ driver.owner \in {None, "table"})
        /\ owner = "table" => webcam' # None
    BY LinuxAssumption
  <2>6. webcam' \in Linux!Session \cup {None} /\ (webcam' # None /\ webcam'.streams => webcam'.format = g)
    BY <2>3
  <2> HIDE DEF owner, g
  <2> QED BY <1>1, <2>2, <2>4, <2>5, <2>6, TableMoves
<1> QED BY <1>3, <1>4, <1>5 DEF Linux!Switch

LEMMA CaptureKeeps ==
    ASSUME WebcamInv, Linux!Poll \/ Linux!Read \/ Linux!ReadEnds \/ UNCHANGED Linux!webcamVars
    PROVE  WebcamInv'
<1> USE DEF WebcamInv
<1>1. UNCHANGED <<driver, webcam, connects, failed, overlapped>>
  BY DEF Linux!Poll, Linux!Read, Linux!ReadEnds, Linux!webcamVars
<1>2. OwnerInv' /\ (~overlapped' => FormatInv') /\ Linux!StreamsUnlessFailed'
  BY <1>1 DEF OwnerInv, FormatInv, Linux!StreamsUnlessFailed, Linux!Idle
<1>3. reading' \in 0..MaxReads \cup {None}
  BY LinuxAssumption DEF Linux!Poll, Linux!Read, Linux!ReadEnds, Linux!webcamVars,
     Linux!WebcamTypeOK
<1>4. Linux!WebcamTypeOK'
  BY <1>1, <1>3 DEF Linux!WebcamTypeOK
<1>5. reading' # None => webcam' # None /\ webcam'.streams
  BY <1>1 DEF Linux!Poll, Linux!Read, Linux!ReadEnds, Linux!webcamVars
<1>6. Linux!FramesAreWhole'
  <2>1. CASE UNCHANGED frame \/ frame' = None
    BY <1>1, <2>1 DEF Linux!FramesAreWhole
  <2>2. ASSUME NEW b \in Linux!Buffers, Linux!Usable(b), reading # None,
               frame' = [buffer |-> b, taken |-> webcam.format, sent |-> driver.format],
               ~overlapped
        PROVE  Linux!FramesAreWhole'
    <3>1. webcam.format = driver.format
      BY <2>2 DEF FormatInv
    <3>2. webcam.format.codec = "yuyv" => b = "whole"
      BY <2>2 DEF Linux!Usable
    <3> QED BY <2>2, <3>1, <3>2 DEF Linux!FramesAreWhole
  <2>3. overlapped => Linux!FramesAreWhole'
    BY <1>1 DEF Linux!FramesAreWhole
  <2> QED BY <2>1, <2>2, <2>3 DEF Linux!Poll, Linux!Read, Linux!ReadEnds, Linux!webcamVars
<1> QED BY <1>1, <1>2, <1>4, <1>5, <1>6

LEMMA WebcamStep ==
    ASSUME WebcamInv, [Linux!WebcamNext]_Linux!webcamVars
    PROVE  WebcamInv'
BY CallerStep, EntryKeeps, DisconnectKeeps, SwitchKeeps, CaptureKeeps DEF Linux!WebcamNext

LEMMA WebcamShows ==
    ASSUME WebcamInv
    PROVE  Linux!WebcamTypeOK /\ Linux!FramesAreWhole /\ Linux!StreamsUnlessFailed /\ Linux!BuffersComeBack
<1>1. Linux!BuffersComeBack
  <2> SUFFICES ASSUME webcam = None, \A c \in Callers : connects[c] = Linux!Idle
               PROVE  driver.owner = None
    BY DEF Linux!BuffersComeBack
  <2> QED BY DEF WebcamInv, OwnerInv, Linux!WebcamTypeOK, Linux!Idle
<1> QED BY <1>1 DEF WebcamInv

-----------------------------------------------------------------------------
(* The webcam of Windows. *)

(* What frames are converted by is what the reader is set to, and every channel
   that is open is that of the session, or its connect failed. *)
WindowsInv ==
    /\ Windows!WindowsTypeOK
    /\ mf # None => mf.taken = reader
    /\ Windows!DeadIsDropped /\ Windows!ReadAsSent /\ Windows!ConvertersEnd

LEMMA Offered == Windows!enumerate_video_formats \subseteq Native
BY DEF Windows!enumerate_video_formats

LEMMA WindowsBegins == Windows!WindowsInit => WindowsInv
BY Offered, WindowsAssumption DEF Windows!WindowsInit, WindowsInv, Windows!WindowsTypeOK,
   Windows!DeadIsDropped, Windows!ReadAsSent, Windows!ConvertersEnd

(* A sink that changes keeps its channel closed, or whose it was. *)
LEMMA SinkKeeps ==
    ASSUME Windows!WindowsTypeOK, Windows!ConvertersEnd, NEW s \in 1..Len(sink), NEW new \in Windows!Sink,
           sink' = [sink EXCEPT ![s] = new],
           new.open => sink[s].open /\ new.failed = sink[s].failed,
           thread' = thread,
           ds' = ds \/ (ds' = 0 /\ s = ds),
           new.open => ds' = ds
    PROVE  /\ ds' \in 0..Len(sink') /\ sink' \in Seq(Windows!Sink) /\ Len(sink') <= MaxSinks
           /\ Windows!ConvertersEnd'
<1>1. /\ sink' \in Seq(Windows!Sink) /\ Len(sink') = Len(sink)
      /\ \A q \in 1..Len(sink) : sink'[q] = IF q = s THEN new ELSE sink[q]
  BY DEF Windows!WindowsTypeOK
<1> QED BY <1>1 DEF Windows!WindowsTypeOK, Windows!ConvertersEnd, Windows!Runs

LEMMA WindowsStep ==
    ASSUME WindowsInv, [Windows!WindowsNext]_Windows!windowsVars
    PROVE  WindowsInv'
<1> DEFINE Media ==
      /\ thread \in {"runs", "ended"} /\ attached \subseteq Windows!Webcams
      /\ mf \in [taken : Native, live : BOOLEAN] \cup {None} /\ reader \in Native
      /\ mf # None => mf.taken = reader
      /\ Windows!DeadIsDropped /\ Windows!ReadAsSent
<1> DEFINE Sinks ==
      /\ ds \in 0..Len(sink) /\ sink \in Seq(Windows!Sink) /\ Len(sink) <= MaxSinks
      /\ Windows!ConvertersEnd
<1>0. Media /\ Sinks
  BY DEF WindowsInv, Windows!WindowsTypeOK
<1>00. Media' /\ Sinks' => WindowsInv'
  BY DEF WindowsInv, Windows!WindowsTypeOK
<1>1. ASSUME UNCHANGED <<thread, ds, sink>> PROVE Sinks'
  BY <1>0, <1>1 DEF Windows!ConvertersEnd, Windows!Runs
<1>2. ASSUME NEW c \in Windows!Webcams, Windows!Plug(c) PROVE WindowsInv'
  <2>1. Media'
    BY <1>0, <1>2 DEF Windows!Plug, Windows!DeadIsDropped, Windows!ReadAsSent
  <2> QED BY <1>00, <1>1, <1>2, <2>1 DEF Windows!Plug
<1>3. CASE Windows!connect_impl \/ Windows!disconnect_impl
  <2>1. Windows!select_best_format \in Native
    BY Offered, WindowsAssumption
  <2>2. mf' = None \/ mf' = [taken |-> reader', live |-> TRUE]
    BY <1>3 DEF Windows!connect_impl, Windows!disconnect_impl
  <2>3. reader' \in Native /\ UNCHANGED <<thread, attached>>
    BY <1>0, <1>3, <2>1 DEF Windows!connect_impl, Windows!disconnect_impl
  <2>4. answer'.kind \in {"connected", "disconnected"}
    BY <1>3 DEF Windows!connect_impl, Windows!disconnect_impl, Windows!Answers
  <2>5. Windows!DeadIsDropped' /\ Windows!ReadAsSent'
    BY <2>4 DEF Windows!DeadIsDropped, Windows!ReadAsSent
  <2>6. /\ mf' \in [taken : Native, live : BOOLEAN] \cup {None}
        /\ mf' # None => mf'.taken = reader'
    <3>1. CASE mf' = None
      BY <3>1
    <3>2. CASE mf' = [taken |-> reader', live |-> TRUE]
      BY <2>3, <3>2
    <3> QED BY <2>2, <3>1, <3>2
  <2>7. Media'
    BY <1>0, <2>3, <2>5, <2>6
  <2> QED BY <1>00, <1>1, <1>3, <2>7 DEF Windows!connect_impl, Windows!disconnect_impl
<1>4. CASE Windows!IsConnected \/ Windows!GetLiveViewFrame
  <2>1. Media'
    BY <1>0, <1>4 DEF Windows!IsConnected, Windows!GetLiveViewFrame, Windows!force_disconnect,
       Windows!Sample, Windows!Answers, Windows!DeadIsDropped, Windows!ReadAsSent
  <2> QED BY <1>00, <1>1, <1>4, <2>1 DEF Windows!IsConnected, Windows!GetLiveViewFrame
<1>5. CASE Windows!CapturePhoto \/ Windows!SetFormat
  <2>1. /\ mf' \in [taken : Native, live : BOOLEAN] \cup {None} /\ reader' \in Native
        /\ mf' # None => mf'.taken = reader'
    <3>1. PICK f \in Native :
            \/ UNCHANGED <<mf, reader>>
            \/ reader' = f /\ mf' = [mf EXCEPT !.taken = f]
      BY <1>0, <1>5, Offered DEF Windows!CapturePhoto, Windows!SetFormat
    <3>2. mf \in [taken : Native, live : BOOLEAN]
      BY <1>0, <1>5 DEF Windows!CapturePhoto, Windows!SetFormat
    <3> QED BY <1>0, <3>1, <3>2
  <2>2. \/ \E kind \in {"photo", "failed photo", "set", "refused"} : answer' = [kind |-> kind]
        \/ answer' = Windows!Sample
    BY <1>5 DEF Windows!CapturePhoto, Windows!SetFormat, Windows!Answers
  <2>3. mf # None
    BY <1>5 DEF Windows!CapturePhoto, Windows!SetFormat
  <2>4. Windows!DeadIsDropped' /\ Windows!ReadAsSent'
    <3>1. CASE answer' = Windows!Sample
      BY <1>0, <2>3, <3>1 DEF Windows!Sample, Windows!DeadIsDropped, Windows!ReadAsSent
    <3>2. ASSUME NEW kind \in {"photo", "failed photo", "set", "refused"},
                 answer' = [kind |-> kind]
          PROVE  Windows!DeadIsDropped' /\ Windows!ReadAsSent'
      <4>1. answer'.kind \notin {"failed", "dead", "alive", "frame"}
        BY <3>2
      <4> QED BY <4>1 DEF Windows!DeadIsDropped, Windows!ReadAsSent
    <3> QED BY <2>2, <3>1, <3>2
  <2> QED BY <1>0, <1>00, <1>1, <1>5, <2>1, <2>4 DEF Windows!CapturePhoto, Windows!SetFormat
<1>6. CASE Windows!ds_connect_impl
  <2>1. Media'
    <3>1. answer' \in {[kind |-> "connected"], [kind |-> "refused"]}
      BY <1>6 DEF Windows!ds_connect_impl, Windows!Answers
    <3>2. UNCHANGED <<thread, attached, mf, reader>>
      BY <1>6 DEF Windows!ds_connect_impl
    <3>3. Windows!DeadIsDropped' /\ Windows!ReadAsSent'
      BY <3>1 DEF Windows!DeadIsDropped, Windows!ReadAsSent
    <3> QED BY <1>0, <3>2, <3>3
  <2>2. Sinks'
    <3>1. PICK failing \in BOOLEAN :
            /\ sink' = Windows!New(failing) /\ Windows!Runs /\ ds = 0 /\ thread' = thread
            /\ ds' = IF failing THEN 0 ELSE Len(sink) + 1
      BY <1>6 DEF Windows!ds_connect_impl
    <3> DEFINE new == [open |-> TRUE, raw |-> FALSE, latest |-> FALSE, runs |-> TRUE,
                       failed |-> failing]
    <3>2. new \in Windows!Sink
      BY DEF Windows!Sink
    <3>3. /\ sink' \in Seq(Windows!Sink) /\ Len(sink') = Len(sink) + 1 /\ sink'[Len(sink) + 1] = new
          /\ \A q \in 1..Len(sink) : sink'[q] = sink[q]
      BY <1>0, <3>1, <3>2 DEF Windows!New
    <3>4. Len(sink') <= MaxSinks
      BY <1>0, <1>6, <3>3, WindowsAssumption DEF Windows!ds_connect_impl
    <3>5. \A q \in 1..Len(sink') : q \in 1..Len(sink) \/ q = Len(sink) + 1
      BY <1>0, <3>3
    <3> QED BY <1>0, <3>1, <3>3, <3>4, <3>5 DEF Windows!ConvertersEnd, Windows!Runs
  <2> QED BY <1>00, <2>1, <2>2
<1>7. CASE Windows!ds_disconnect_impl \/ Windows!Receive
  <2>1. Media'
    BY <1>0, <1>7 DEF Windows!ds_disconnect_impl, Windows!Receive, Windows!Answers,
       Windows!DeadIsDropped, Windows!ReadAsSent
  <2>2. Sinks'
    <3>1. ds \in 1..Len(sink) /\ sink[ds] \in Windows!Sink
      BY <1>0, <1>7 DEF Windows!ds_disconnect_impl, Windows!Receive
    <3>2. CASE Windows!ds_disconnect_impl
      <4> DEFINE new == [sink[ds] EXCEPT !.open = FALSE]
      <4>1. new \in Windows!Sink /\ ~new.open /\ sink' = [sink EXCEPT ![ds] = new]
        BY <3>1, <3>2 DEF Windows!Sink, Windows!ds_disconnect_impl
      <4> HIDE DEF new
      <4> QED BY <1>0, <3>1, <3>2, <4>1, SinkKeeps, WindowsAssumption
          DEF Windows!ds_disconnect_impl, WindowsInv
    <3>3. CASE Windows!Receive
      <4> DEFINE new == [sink[ds] EXCEPT !.raw = TRUE]
      <4>1. /\ new \in Windows!Sink
            /\ new.open => sink[ds].open /\ new.failed = sink[ds].failed
            /\ sink' = [sink EXCEPT ![ds] = new]
        BY <3>1, <3>3 DEF Windows!Sink, Windows!Receive
      <4> HIDE DEF new
      <4>2. thread' = thread /\ ds' = ds
        BY <3>3 DEF Windows!Receive
      <4>3. Windows!WindowsTypeOK /\ Windows!ConvertersEnd
        BY DEF WindowsInv
      <4>4. /\ ds' \in 0..Len(sink') /\ sink' \in Seq(Windows!Sink) /\ Len(sink') <= MaxSinks
            /\ Windows!ConvertersEnd'
        BY <3>1, <4>1, <4>2, <4>3, SinkKeeps
      <4> QED BY <4>4
    <3> QED BY <1>7, <3>2, <3>3
  <2> QED BY <1>00, <2>1, <2>2
<1>8. CASE Windows!ds_get_live_view_frame
  <2>1. Media'
    BY <1>0, <1>8 DEF Windows!ds_get_live_view_frame, Windows!DeadIsDropped, Windows!ReadAsSent
  <2> QED BY <1>00, <1>1, <1>8, <2>1 DEF Windows!ds_get_live_view_frame
<1>9. ASSUME NEW s \in 1..Len(sink), Windows!Convert(s) PROVE WindowsInv'
  <2>1. Media'
    BY <1>0, <1>9 DEF Windows!Convert, Windows!DeadIsDropped, Windows!ReadAsSent
  <2>2. sink[s] \in Windows!Sink
    BY <1>0
  <2>3. PICK new \in Windows!Sink :
          /\ sink' = [sink EXCEPT ![s] = new]
          /\ new.open => sink[s].open /\ new.failed = sink[s].failed
    <3> DEFINE dry == [sink[s] EXCEPT !.raw = FALSE, !.latest = TRUE]
               same == [sink[s] EXCEPT !.raw = FALSE, !.latest = sink[s].latest]
               done == [sink[s] EXCEPT !.runs = FALSE]
    <3>1. /\ dry \in Windows!Sink /\ (dry.open => sink[s].open) /\ dry.failed = sink[s].failed
          /\ same \in Windows!Sink /\ (same.open => sink[s].open) /\ same.failed = sink[s].failed
          /\ done \in Windows!Sink /\ (done.open => sink[s].open) /\ done.failed = sink[s].failed
      BY <2>2 DEF Windows!Sink
    <3>2. \/ sink' = [sink EXCEPT ![s] = dry] \/ sink' = [sink EXCEPT ![s] = same]
          \/ sink' = [sink EXCEPT ![s] = done]
      BY <1>0, <1>9, <2>2 DEF Windows!Convert
    <3> HIDE DEF dry, same, done
    <3> QED BY <3>1, <3>2
  <2>4. Sinks'
    <3>1. thread' = thread /\ ds' = ds
      BY <1>9 DEF Windows!Convert
    <3>2. Windows!WindowsTypeOK /\ Windows!ConvertersEnd
      BY DEF WindowsInv
    <3>3. /\ ds' \in 0..Len(sink') /\ sink' \in Seq(Windows!Sink) /\ Len(sink') <= MaxSinks
          /\ Windows!ConvertersEnd'
      BY <2>3, <3>1, <3>2, SinkKeeps
    <3> QED BY <3>3
  <2> QED BY <1>00, <2>1, <2>4
<1>10. CASE Windows!End
  BY <1>0, <1>00, <1>10 DEF Windows!End, Windows!DeadIsDropped, Windows!ReadAsSent,
     Windows!ConvertersEnd, Windows!Runs
<1>11. CASE UNCHANGED Windows!windowsVars
  BY <1>0, <1>00, <1>11 DEF Windows!windowsVars, Windows!DeadIsDropped, Windows!ReadAsSent,
     Windows!ConvertersEnd, Windows!Runs
<1> QED BY <1>2, <1>3, <1>4, <1>5, <1>6, <1>7, <1>8, <1>9, <1>10, <1>11 DEF Windows!WindowsNext

-----------------------------------------------------------------------------
(* The camera of a phone. *)

(* The tag for an angle, and what a viewer makes of it. *)
LEMMA Tags ==
    /\ Camera2!exif_tag_for(0) = 1 /\ Camera2!exif_tag_for(90) = 6
    /\ Camera2!exif_tag_for(180) = 3 /\ Camera2!exif_tag_for(270) = 8
<1>1. Camera2!quantize(0) = 0 /\ Camera2!quantize(90) = 90 /\ Camera2!quantize(180) = 180 /\ Camera2!quantize(270) = 270
  BY DEF Camera2!quantize
<1> QED BY <1>1 DEF Camera2!exif_tag_for

LEMMA Angles ==
    /\ Camera2!AngleOf(0) = 0 /\ Camera2!AngleOf(1) = 0
    /\ \A d \in Camera2!QuarterTurns : Camera2!AngleOf(Camera2!exif_tag_for(d)) = d
<1>1. ASSUME NEW d \in Camera2!QuarterTurns
      PROVE  Camera2!AngleOf(Camera2!exif_tag_for(d)) = d
  <2>1. Camera2!exif_tag_for(d) # 0 /\ \A e \in Camera2!QuarterTurns : Camera2!exif_tag_for(e) = Camera2!exif_tag_for(d) => e = d
    BY Tags DEF Camera2!QuarterTurns
  <2>2. Camera2!AngleOf(Camera2!exif_tag_for(d)) = CHOOSE e \in Camera2!QuarterTurns : Camera2!exif_tag_for(e) = Camera2!exif_tag_for(d)
    BY <2>1 DEF Camera2!AngleOf
  <2> QED BY <2>1, <2>2
<1>2. Camera2!AngleOf(1) = 0
  BY <1>1, Tags DEF Camera2!QuarterTurns
<1>3. Camera2!AngleOf(0) = 0
  BY DEF Camera2!AngleOf
<1> QED BY <1>1, <1>2, <1>3

(* The angle asked for is a quarter turn, however the phone is held. *)
LEMMA AsksQuarterTurns ==
    ASSUME NEW sensor \in Camera2!QuarterTurns, NEW degrees \in {Camera2!ORIENTATION_UNKNOWN} \cup 0..359,
           NEW front \in BOOLEAN
    PROVE  Camera2!jpeg_orientation(sensor, degrees, front) \in Camera2!QuarterTurns
<1>1. CASE degrees = Camera2!ORIENTATION_UNKNOWN
  BY <1>1 DEF Camera2!jpeg_orientation, Camera2!QuarterTurns
<1>2. CASE degrees # Camera2!ORIENTATION_UNKNOWN
  <2> DEFINE n == ((degrees % 360) + 45) \div 90
  <2>1. degrees \in 0..359 /\ degrees % 360 = degrees
    BY <1>2
  <2>2. n \in 0..4
    BY <2>1
  <2>3. Camera2!jpeg_orientation(sensor, degrees, front) =
          (sensor + (IF front THEN -(n * 90) ELSE n * 90)) % 360
    BY <1>2 DEF Camera2!jpeg_orientation
  <2> HIDE DEF n
  <2>4. n \in {0, 1, 2, 3, 4}
    BY <2>2
  <2> QED BY <2>3, <2>4 DEF Camera2!QuarterTurns
<1> QED BY <1>1, <1>2

-----------------------------------------------------------------------------
(* A picture of the shot under way, and what is done to one. *)
Picture(w, h, turned, tag, broken) ==
  [kind |-> "photo", shot |-> shots, asked |-> job.asked, exposure |-> job.exposure,
   w |-> w, h |-> h, turned |-> turned, tag |-> tag, broken |-> broken]

LEMMA Painting ==
    ASSUME NEW w, NEW h, NEW turned, NEW tag, NEW broken
    PROVE  /\ \A other : [Picture(w, h, turned, tag, broken) EXCEPT !.tag = other]
                          = Picture(w, h, turned, other, broken)
           /\ \A d : Camera2!TurnBy(Picture(w, h, turned, tag, broken), d) =
                IF Camera2!Sideways(d) THEN Picture(h, w, (turned + d) % 360, tag, broken)
                               ELSE Picture(w, h, (turned + d) % 360, tag, broken)
<1>1. ASSUME NEW other
      PROVE  [Picture(w, h, turned, tag, broken) EXCEPT !.tag = other]
               = Picture(w, h, turned, other, broken)
  BY DEF Picture
<1>2. ASSUME NEW d
      PROVE  Camera2!TurnBy(Picture(w, h, turned, tag, broken), d) =
               IF Camera2!Sideways(d) THEN Picture(h, w, (turned + d) % 360, tag, broken)
                              ELSE Picture(w, h, (turned + d) % 360, tag, broken)
  <2> DEFINE pic == Picture(w, h, turned, tag, broken)
             by == (turned + d) % 360
  <2>1. pic.w = w /\ pic.h = h /\ pic.turned = turned
    BY DEF Picture
  <2>2. Camera2!TurnBy(pic, d) = IF Camera2!Sideways(d) THEN [pic EXCEPT !.w = h, !.h = w, !.turned = by]
                                        ELSE [pic EXCEPT !.w = w, !.h = h, !.turned = by]
    <3>1. CASE Camera2!Sideways(d)
      BY <2>1, <3>1 DEF Camera2!TurnBy
    <3>2. CASE ~Camera2!Sideways(d)
      BY <2>1, <3>2 DEF Camera2!TurnBy
    <3> QED BY <3>1, <3>2
  <2> HIDE DEF by
  <2>3. \A x, y, z : [pic EXCEPT !.w = x, !.h = y, !.turned = z]
                       = Picture(x, y, z, tag, broken)
    <3> TAKE x, y, z
    <3>1. [pic EXCEPT !.w = x] = Picture(x, h, turned, tag, broken)
      BY DEF Picture
    <3>2. [Picture(x, h, turned, tag, broken) EXCEPT !.h = y] = Picture(x, y, turned, tag, broken)
      BY DEF Picture
    <3>3. [Picture(x, y, turned, tag, broken) EXCEPT !.turned = z] = Picture(x, y, z, tag, broken)
      BY DEF Picture
    <3> HIDE DEF pic
    <3>4. [pic EXCEPT !.w = x, !.h = y, !.turned = z]
          = [[[pic EXCEPT !.w = x] EXCEPT !.h = y] EXCEPT !.turned = z]
      OBVIOUS
    <3> QED BY <3>1, <3>2, <3>3, <3>4
  <2> QED BY <2>2, <2>3 DEF by
<1> QED BY <1>1, <1>2

Broken == FALSE

LEMMA Reading ==
    ASSUME NEW w, NEW h, NEW turned, NEW tag
    PROVE  LET pic == Picture(w, h, turned, tag, Broken)
           IN  /\ pic.kind = "photo" /\ pic.shot = shots /\ pic.asked = job.asked
               /\ pic.exposure = job.exposure
               /\ pic.w = w /\ pic.h = h /\ pic.turned = turned /\ pic.tag = tag
               /\ ~pic.broken
BY DEF Picture, Broken

Pic(w, h, turned, tag) == Picture(w, h, turned, tag, Broken)

Wide == Camera2!PhotoSize[1]
High == Camera2!PhotoSize[2]

(* As the sensor framed it, or turned by the camera. *)
AsFramed(tag) == Pic(Wide, High, 0, tag)
AsTurned(tag) ==
  IF Camera2!Sideways(job.asked) THEN Pic(High, Wide, job.asked, tag) ELSE Pic(Wide, High, job.asked, tag)

(* What the camera may leave in the slot. *)
IsTaken(pic) ==
  \/ ~phone.jpeg /\ pic = AsTurned(0)
  \/ phone.jpeg /\ phone.hal = "turns" /\ (pic = AsTurned(0) \/ pic = AsTurned(1))
  \/ phone.jpeg /\ phone.hal = "tags" /\ pic = AsFramed(Camera2!exif_tag_for(job.asked))
  \/ phone.jpeg /\ phone.hal = "ignores" /\ (pic = AsFramed(0) \/ pic = AsFramed(1))

LEMMA Turning ==
    ASSUME job.asked \in Camera2!QuarterTurns, NEW tag
    PROVE  Camera2!TurnBy(AsFramed(tag), job.asked) = AsTurned(tag)
<1>1. (0 + job.asked) % 360 = job.asked
  BY DEF Camera2!QuarterTurns
<1> QED BY <1>1, Painting DEF AsFramed, AsTurned, Pic

LEMMA Tagging ==
    ASSUME NEW tag, NEW other
    PROVE  /\ [AsFramed(tag) EXCEPT !.tag = other] = AsFramed(other)
           /\ [AsTurned(tag) EXCEPT !.tag = other] = AsTurned(other)
BY Painting DEF AsFramed, AsTurned, Pic

LEMMA GivenIsTaken ==
    ASSUME phone \in Backs, job.asked \in Camera2!QuarterTurns, busy = shots, NEW pic \in Camera2!Given
    PROVE  IsTaken(pic)
<1>1. Camera2!Plain = AsFramed(0)
  BY DEF Camera2!Plain, AsFramed, Pic, Picture, Broken, Wide, High
<1>2. Camera2!TurnBy(Camera2!Plain, job.asked) = AsTurned(0)
  BY <1>1, Turning
<1>3. /\ [Camera2!TurnBy(Camera2!Plain, job.asked) EXCEPT !.tag = 1] = AsTurned(1)
      /\ [Camera2!Plain EXCEPT !.tag = 1] = AsFramed(1)
      /\ [Camera2!Plain EXCEPT !.tag = Camera2!exif_tag_for(job.asked)] = AsFramed(Camera2!exif_tag_for(job.asked))
  BY <1>1, <1>2, Tagging
<1>4. phone.hal \in {"turns", "tags", "ignores"} /\ phone.jpeg \in BOOLEAN
  BY DEF Backs
<1>5. CASE ~phone.jpeg
  BY <1>2, <1>5 DEF Camera2!Given, IsTaken
<1>6. CASE phone.jpeg /\ phone.hal = "turns"
  <2>1. Camera2!Given = {AsTurned(0), AsTurned(1)}
    BY <1>2, <1>3, <1>6 DEF Camera2!Given
  <2> QED BY <1>6, <2>1 DEF IsTaken
<1>7. CASE phone.jpeg /\ phone.hal = "tags"
  <2>1. Camera2!Given = {AsFramed(Camera2!exif_tag_for(job.asked))}
    BY <1>3, <1>7 DEF Camera2!Given
  <2> QED BY <1>7, <2>1 DEF IsTaken
<1>8. CASE phone.jpeg /\ phone.hal = "ignores"
  <2>1. Camera2!Given = {AsFramed(0), AsFramed(1)}
    BY <1>1, <1>3, <1>8 DEF Camera2!Given
  <2> QED BY <1>8, <2>1 DEF IsTaken
<1> QED BY <1>4, <1>5, <1>6, <1>7, <1>8

(* What a photo is once its turn is finished: upright where that can be told. *)
Upright(pic) ==
  /\ (pic.turned + Camera2!AngleOf(pic.tag)) % 360 = pic.asked
  /\ ~pic.broken => Camera2!AngleOf(pic.tag) = 0

OfThisShot(pic) ==
  /\ pic.kind = "photo" /\ pic.shot = shots /\ pic.asked = job.asked
  /\ pic.exposure = job.exposure

LEMMA AsItIs ==
    ASSUME job.asked \in Camera2!QuarterTurns, NEW tag \in {0, 1}
    PROVE  /\ Upright(AsTurned(tag)) /\ OfThisShot(AsTurned(tag))
           /\ ~AsTurned(tag).broken
           /\ OfThisShot(AsFramed(tag)) /\ ~AsFramed(tag).broken
           /\ job.asked = 0 => Upright(AsFramed(tag))
<1>1. job.asked \in {0, 90, 180, 270} /\ Camera2!AngleOf(tag) = 0
  BY Angles DEF Camera2!QuarterTurns
<1>2. CASE Camera2!Sideways(job.asked)
  BY <1>1, <1>2 DEF Upright, OfThisShot, AsTurned, AsFramed, Pic, Picture, Broken
<1>3. CASE ~Camera2!Sideways(job.asked)
  BY <1>1, <1>3 DEF Upright, OfThisShot, AsTurned, AsFramed, Pic, Picture, Broken
<1> QED BY <1>2, <1>3

(* A picture that was not turned is turned, whichever way that goes. *)
LEMMA TurnedHere ==
    ASSUME job.asked \in Camera2!QuarterTurns, NEW tag \in {0, 1, Camera2!exif_tag_for(job.asked)},
           NEW pic \in Camera2!rotate_jpeg(AsFramed(tag), job.asked)
    PROVE  /\ ~pic.broken => Upright(pic)
           /\ tag = Camera2!exif_tag_for(job.asked) => Upright(pic)
           /\ OfThisShot(pic)
<1>1. /\ job.asked \in {0, 90, 180, 270} /\ (0 + job.asked) % 360 = job.asked
      /\ Camera2!AngleOf(Camera2!exif_tag_for(job.asked)) = job.asked /\ Camera2!AngleOf(0) = 0 /\ Camera2!AngleOf(1) = 0
      /\ Camera2!exif_tag_for(job.asked) \in {1, 3, 6, 8}
  BY Angles, Tags DEF Camera2!QuarterTurns
<1>2. Camera2!TurnBy(AsFramed(tag), job.asked) = AsTurned(tag)
  BY Turning
<1>3. AsTurned(tag).tag = tag
  BY DEF AsTurned, Pic, Picture, Broken
<1>4. Camera2!reset_exif_orientation(AsTurned(tag)) \in {AsTurned(0), AsTurned(1)}
  BY <1>1, <1>3, Tagging DEF Camera2!reset_exif_orientation
<1>5. [AsTurned(tag) EXCEPT !.tag = 0] = AsTurned(0)
  BY Tagging
<1>6. CASE pic \in {AsTurned(0), AsTurned(1)}
  BY <1>6, AsItIs
<1>7. CASE pic = [AsFramed(tag) EXCEPT !.broken = TRUE]
  BY <1>1, <1>7 DEF AsFramed, Pic, Picture, Broken, Upright, OfThisShot
<1> QED BY <1>2, <1>4, <1>5, <1>6, <1>7 DEF Camera2!rotate_jpeg

(* Square pictures stay square, however often they are turned. *)
LEMMA StaysSquare ==
    ASSUME Wide = High, NEW tag, NEW pic \in Camera2!rotate_jpeg(AsTurned(tag), job.asked)
    PROVE  pic.w = pic.h /\ OfThisShot(pic)
<1>1. AsTurned(tag) = Pic(Wide, Wide, job.asked, tag)
  BY DEF AsTurned
<1>2. Camera2!TurnBy(AsTurned(tag), job.asked) = Pic(Wide, Wide, (job.asked + job.asked) % 360, tag)
  BY <1>1, Painting DEF Pic
<1>3. CASE pic = Camera2!reset_exif_orientation(Camera2!TurnBy(AsTurned(tag), job.asked))
  <2>1. \/ pic = Pic(Wide, Wide, (job.asked + job.asked) % 360, tag)
        \/ pic = Pic(Wide, Wide, (job.asked + job.asked) % 360, 1)
    BY <1>2, <1>3, Painting DEF Pic, Camera2!reset_exif_orientation
  <2> QED BY <2>1, Reading DEF Pic, OfThisShot
<1>4. CASE pic = [Camera2!TurnBy(AsTurned(tag), job.asked) EXCEPT !.tag = 0]
  <2>1. pic = Pic(Wide, Wide, (job.asked + job.asked) % 360, 0)
    BY <1>2, <1>4, Painting DEF Pic
  <2> QED BY <2>1, Reading DEF Pic, OfThisShot
<1>5. CASE pic = [AsTurned(tag) EXCEPT !.broken = TRUE]
  BY <1>1, <1>5 DEF Pic, Picture, OfThisShot
<1> QED BY <1>3, <1>4, <1>5 DEF Camera2!rotate_jpeg

(* Whether what the camera did can be told from a picture. *)
Tells(pic) ==
  LET sideways == Camera2!Sideways(pic.asked)
  IN  \/ ~phone.jpeg \/ pic.asked = 0 \/ phone.hal = "tags"
      \/ phone.hal = "turns" /\ (sideways => pic.w # pic.h)
      \/ phone.hal = "ignores" /\ sideways /\ ~pic.broken

LEMMA FinishedIsUpright ==
    ASSUME phone \in Backs, job.asked \in Camera2!QuarterTurns,
           NEW raw, IsTaken(raw), NEW pic \in Camera2!Finished(raw)
    PROVE  OfThisShot(pic) /\ (Tells(pic) => Upright(pic))
<1> DEFINE left == Camera2!residual_rotation(raw, job.asked, Wide, High)
<1>1. /\ job.asked \in {0, 90, 180, 270}
      /\ Camera2!exif_tag_for(job.asked) \in {1, 3, 6, 8}
      /\ (job.asked # 0) => Camera2!exif_tag_for(job.asked) \notin {0, 1}
      /\ (job.asked = 0) => Camera2!exif_tag_for(job.asked) = 1
  BY Tags DEF Camera2!QuarterTurns
<1>2. phone.hal \in {"turns", "tags", "ignores"} /\ phone.jpeg \in BOOLEAN
  BY DEF Backs
<1>3. pic \in IF ~phone.jpeg \/ left = 0 THEN {raw} ELSE Camera2!rotate_jpeg(raw, left)
  BY DEF Camera2!Finished, Wide, High
<1>4. left \in {0, job.asked} /\ (job.asked = 0 => left = 0)
  BY DEF Camera2!residual_rotation
<1>5. \A tag : AsTurned(tag).tag = tag /\ AsFramed(tag).tag = tag
               /\ AsFramed(tag).w = Wide /\ AsFramed(tag).h = High
  BY DEF AsTurned, AsFramed, Pic, Picture, Broken
<1>6. Camera2!Sideways(job.asked) =>
        \A tag : AsTurned(tag).w = High /\ AsTurned(tag).h = Wide
  BY DEF AsTurned, Pic, Picture, Broken
<1>7. CASE ~phone.jpeg
  BY <1>3, <1>7, AsItIs DEF IsTaken
<1>8. CASE phone.jpeg /\ job.asked = 0
  <2>1. pic = raw
    BY <1>3, <1>4, <1>8
  <2>2. PICK tag \in {0, 1} : raw = AsTurned(tag) \/ raw = AsFramed(tag)
    BY <1>1, <1>8 DEF IsTaken
  <2> QED BY <1>8, <2>1, <2>2, AsItIs
<1>9. CASE phone.jpeg /\ phone.hal = "turns" /\ job.asked # 0
  <2>1. PICK tag \in {0, 1} : raw = AsTurned(tag)
    BY <1>9 DEF IsTaken
  <2>2. CASE left = 0
    BY <1>3, <2>1, <2>2, AsItIs
  <2>3. CASE left # 0
    <3>1. Camera2!Sideways(job.asked) /\ raw.w = Wide /\ raw.h = High
      BY <1>1, <1>5, <1>9, <2>1, <2>3 DEF Camera2!residual_rotation
    <3>2. Wide = High
      BY <1>6, <2>1, <3>1
    <3>3. pic.w = pic.h /\ OfThisShot(pic)
      BY <1>3, <1>4, <1>9, <2>1, <2>3, <3>2, StaysSquare
    <3> QED BY <1>9, <3>1, <3>3 DEF Tells, OfThisShot
  <2> QED BY <2>2, <2>3
<1>10. CASE phone.jpeg /\ phone.hal = "tags" /\ job.asked # 0
  <2>1. raw = AsFramed(Camera2!exif_tag_for(job.asked))
    BY <1>10 DEF IsTaken
  <2>2. left = job.asked
    BY <1>5, <1>10, <2>1 DEF Camera2!residual_rotation
  <2>3. pic \in Camera2!rotate_jpeg(AsFramed(Camera2!exif_tag_for(job.asked)), job.asked)
    BY <1>3, <1>10, <2>1, <2>2
  <2> QED BY <2>3, TurnedHere
<1>11. CASE phone.jpeg /\ phone.hal = "ignores" /\ job.asked # 0
  <2>1. PICK tag \in {0, 1} : raw = AsFramed(tag)
    BY <1>11 DEF IsTaken
  <2>2. CASE Camera2!Sideways(job.asked)
    <3>1. left = job.asked
      BY <1>5, <1>11, <2>1, <2>2 DEF Camera2!residual_rotation
    <3>2. pic \in Camera2!rotate_jpeg(AsFramed(tag), job.asked)
      BY <1>3, <1>11, <2>1, <3>1
    <3>3. (~pic.broken => Upright(pic)) /\ OfThisShot(pic)
      BY <3>2, TurnedHere
    <3> QED BY <1>11, <3>3 DEF Tells, OfThisShot
  <2>3. CASE ~Camera2!Sideways(job.asked)
    <3>1. left = 0
      BY <1>1, <1>5, <1>11, <2>1, <2>3 DEF Camera2!residual_rotation
    <3>2. pic = AsFramed(tag) /\ OfThisShot(pic)
      BY <1>3, <2>1, <3>1, AsItIs
    <3> QED BY <1>11, <2>3, <3>2 DEF Tells, OfThisShot
  <2> QED BY <2>2, <2>3
<1> QED BY <1>2, <1>7, <1>8, <1>9, <1>10, <1>11

-----------------------------------------------------------------------------
InPhoto == actor \in {"paused", "waiting", "restore"}

(* The stages of a photo, the pictures on their way, the request it will put  *)
(* back.                                                                   *)
StageInv ==
  /\ InPhoto =>
       /\ session # None /\ preview = None
       /\ job.asked \in Camera2!QuarterTurns
       /\ job = [asked |-> job.asked, exposure |-> job.exposure, raw |-> job.raw]
  /\ actor \in {"paused", "waiting"} => job.raw = None
  /\ actor = "waiting" \/ (actor = "restore" /\ job.raw # None) =>
       job.exposure = Camera2!Exposure(session)
  /\ busy # None => (busy = shots /\ actor \in {"waiting", "restore"})

PictureInv ==
  /\ \A pic : (actor = "waiting" /\ slot = pic) =>
                (pic \in {None, Camera2!Unreadable} \/ IsTaken(pic))
  /\ \A pic : (actor = "restore" /\ job.raw = pic) => (pic = None \/ IsTaken(pic))

RequestInv ==
  (session # None /\ session.req # Camera2!Template) =>
    Camera2!Snapped(session.req) = Camera2!Capped(Camera2!Snapped(Camera2!Exposure(session)))

Camera2Inv ==
  /\ Camera2!Camera2TypeOK /\ StageInv /\ PictureInv /\ RequestInv
  /\ Camera2!TurnedOnce /\ Camera2!OwnPhoto /\ Camera2!LiveViewSurvives /\ Camera2!ShownIsRunning

LEMMA Camera2Begins ==
    ASSUME PhoneAssumption, Camera2!Camera2Init
    PROVE  Camera2Inv
<1>1. Camera2!Camera2TypeOK
  BY PhoneAssumption DEF Camera2!Camera2Init, Camera2!Camera2TypeOK
<1>2. StageInv /\ PictureInv /\ RequestInv
  BY DEF Camera2!Camera2Init, StageInv, PictureInv, RequestInv, InPhoto
<1>3. Camera2!TurnedOnce /\ Camera2!OwnPhoto /\ Camera2!LiveViewSurvives /\ Camera2!ShownIsRunning
  BY DEF Camera2!Camera2Init, Camera2!TurnedOnce, Camera2!OwnPhoto, Camera2!LiveViewSurvives,
     Camera2!ShownIsRunning, Camera2!IsPhoto, Camera2!Connected
<1> QED BY <1>1, <1>2, <1>3 DEF Camera2Inv

(* A picture of the shot stays one while the shot is the same. *)
LEMMA TakenStays ==
    ASSUME NEW pic, IsTaken(pic), phone' = phone, shots' = shots, session' = session,
           job'.asked = job.asked, job'.exposure = job.exposure
    PROVE  IsTaken(pic)'
BY DEF IsTaken, AsFramed, AsTurned, Pic, Picture, Broken, Wide, High, Camera2!PhotoSize

(* The settings. *)
LEMMA SettingsKeep ==
    ASSUME PhoneAssumption, session \in Camera2!Session, phone \in Backs
    PROVE  /\ [session EXCEPT !.speed = Camera2!Snapped(@),
                 !.size = IF @ = None /\ phone.jpeg THEN Sizes[1] ELSE @] \in Camera2!Session
           /\ [session EXCEPT !.rotate = ~@] \in Camera2!Session
           /\ \A i \in DOMAIN Sizes : [session EXCEPT !.size = Sizes[i]] \in Camera2!Session
           /\ [session EXCEPT !.auto = ~@] \in Camera2!Session
           /\ \A speed \in Camera2!Speeds : [session EXCEPT !.speed = speed] \in Camera2!Session
           /\ \A open \in BOOLEAN : [session EXCEPT !.open = open] \in Camera2!Session
<1> DEFINE sizes == {Sizes[i] : i \in DOMAIN Sizes} \cup {None}
<1>1. Sizes[1] \in sizes /\ \A i \in DOMAIN Sizes : Sizes[i] \in sizes
  BY PhoneAssumption
<1> HIDE DEF sizes
<1>2. Camera2!Session = [auto : BOOLEAN, speed : Camera2!Speeds, size : sizes,
                 rotate : BOOLEAN, req : Camera2!Exposures, open : BOOLEAN]
  BY DEF Camera2!Session, sizes
<1>3. Camera2!Snapped(session.speed) \in Camera2!Speeds
  BY <1>2 DEF Camera2!Snapped, Camera2!Speeds
<1>5. [session EXCEPT !.speed = Camera2!Snapped(@),
                 !.size = IF @ = None /\ phone.jpeg THEN Sizes[1] ELSE @] \in Camera2!Session
  BY <1>1, <1>2, <1>3
<1>6. [session EXCEPT !.rotate = ~@] \in Camera2!Session
  BY <1>2
<1>7. \A i \in DOMAIN Sizes : [session EXCEPT !.size = Sizes[i]] \in Camera2!Session
  BY <1>1, <1>2
<1>8. [session EXCEPT !.auto = ~@] \in Camera2!Session
  BY <1>2
<1>9. \A speed \in Camera2!Speeds : [session EXCEPT !.speed = speed] \in Camera2!Session
  BY <1>2
<1>10. \A open \in BOOLEAN : [session EXCEPT !.open = open] \in Camera2!Session
  BY <1>2
<1> QED BY <1>5, <1>6, <1>7, <1>8, <1>9, <1>10

LEMMA Applying ==
    ASSUME NEW set \in Camera2!Session
    PROVE  LET req == Camera2!Capped(Camera2!Exposure(set))
               applied == [set EXCEPT !.req = req]
           IN  /\ req \in Camera2!Exposures \ {Camera2!Template}
               /\ Camera2!Snapped(req) = Camera2!Capped(Camera2!Snapped(Camera2!Exposure(set)))
               /\ applied \in Camera2!Session
               /\ applied.req = req
               /\ Camera2!Exposure(applied) = Camera2!Exposure(set)
<1> DEFINE req == Camera2!Capped(Camera2!Exposure(set))
<1> DEFINE sizes == {Sizes[i] : i \in DOMAIN Sizes} \cup {None}
<1> HIDE DEF sizes
<1>1. Camera2!Session = [auto : BOOLEAN, speed : Camera2!Speeds, size : sizes,
                 rotate : BOOLEAN, req : Camera2!Exposures, open : BOOLEAN]
  BY DEF Camera2!Session, sizes
<1>2. /\ req \in Camera2!Exposures \ {Camera2!Template}
      /\ Camera2!Snapped(req) = Camera2!Capped(Camera2!Snapped(Camera2!Exposure(set)))
  BY <1>1 DEF Camera2!Exposure, Camera2!Exposures, Camera2!Speeds, Camera2!Template,
     Camera2!Capped, Camera2!Snapped
<1> HIDE DEF req
<1>3. [set EXCEPT !.req = req] \in Camera2!Session
  BY <1>1, <1>2
<1>4. /\ [set EXCEPT !.req = req].req = req
      /\ [set EXCEPT !.req = req].auto = set.auto
      /\ [set EXCEPT !.req = req].speed = set.speed
  BY <1>1
<1> QED BY <1>2, <1>3, <1>4 DEF Camera2!Exposure, req

LEMMA Snapping ==
    ASSUME NEW set \in Camera2!Session
    PROVE  LET read == [set EXCEPT !.speed = Camera2!Snapped(@),
                          !.size = IF @ = None /\ phone.jpeg THEN Sizes[1] ELSE @]
           IN  read.req = set.req /\ Camera2!Snapped(Camera2!Exposure(read)) = Camera2!Snapped(Camera2!Exposure(set))
<1> DEFINE read == [set EXCEPT !.speed = Camera2!Snapped(@),
                      !.size = IF @ = None /\ phone.jpeg THEN Sizes[1] ELSE @]
<1>1. read.req = set.req /\ read.auto = set.auto /\ read.speed = Camera2!Snapped(set.speed)
  BY DEF Camera2!Session
<1>2. Camera2!Snapped(Camera2!Snapped(set.speed)) = Camera2!Snapped(set.speed)
  BY DEF Camera2!Snapped
<1> HIDE DEF read
<1>3. Camera2!Snapped(Camera2!Exposure(read)) = Camera2!Snapped(Camera2!Exposure(set))
  BY <1>1, <1>2 DEF Camera2!Exposure
<1> QED BY <1>1, <1>3 DEF read

(* Types, with the session the settings are kept in. *)
LEMMA Camera2Types ==
    ASSUME PhoneAssumption, Camera2Inv, [Camera2!Camera2Next]_Camera2!camera2Vars
    PROVE  Camera2!Camera2TypeOK'
<1>1. /\ Camera2!Camera2TypeOK /\ StageInv /\ phone \in Backs
      /\ session # None => session \in Camera2!Session
  BY PhoneAssumption DEF Camera2Inv, Camera2!Camera2TypeOK
<1> DEFINE Rest ==
      /\ phone' \in Phones
      /\ device' \in {Camera2!ORIENTATION_UNKNOWN} \cup 0..359
      /\ actor' \in {"free", "paused", "waiting", "restore", "ended"}
      /\ preview' \in Camera2!Exposures \cup {None}
      /\ busy' \in 1..shots' \cup {None}
      /\ shots' \in 0..MaxShots
<1>2. Rest /\ session' \in Camera2!Session \cup {None}
  <2>1. CASE Camera2!Report
    BY <1>1, <2>1 DEF Camera2!Report, Camera2!Camera2TypeOK, Camera2!set_device_orientation
  <2>2. CASE Camera2!Connect
    <3>1. session' \in Camera2!Session
      BY <2>2 DEF Camera2!Connect, Camera2!Session, Camera2!Speeds, Camera2!Exposures,
         Camera2!Template
    <3> QED BY <1>1, <2>2, <3>1 DEF Camera2!Connect, Camera2!Camera2TypeOK, Camera2!Exposures
  <2>3. CASE Camera2!Disconnect \/ Camera2!Shutdown
    BY <1>1, <2>3 DEF Camera2!Disconnect, Camera2!Shutdown, Camera2!Close, Camera2!Camera2TypeOK
  <2>4. CASE Camera2!GetParameters
    <3>1. session' \in Camera2!Session
      BY <1>1, <2>4, SettingsKeep DEF Camera2!GetParameters, Camera2!Connected
    <3> QED BY <1>1, <2>4, <3>1 DEF Camera2!GetParameters, Camera2!Camera2TypeOK
  <2>5. CASE Camera2!SetRotate
    <3>1. session' \in Camera2!Session
      BY <1>1, <2>5, SettingsKeep DEF Camera2!SetRotate, Camera2!Connected
    <3> QED BY <1>1, <2>5, <3>1 DEF Camera2!SetRotate, Camera2!Camera2TypeOK
  <2>6. CASE Camera2!SetSize
    <3>1. session' \in Camera2!Session
      BY <1>1, <2>6, SettingsKeep DEF Camera2!SetSize, Camera2!Connected
    <3> QED BY <1>1, <2>6, <3>1 DEF Camera2!SetSize, Camera2!Camera2TypeOK
  <2>7. CASE Camera2!SetExposure
    <3>1. PICK set \in Camera2!Session : Camera2!Apply(set)
      BY <1>1, <2>7, SettingsKeep DEF Camera2!SetExposure, Camera2!Connected, Camera2!Speeds
    <3>2. session' \in Camera2!Session /\ preview' \in Camera2!Exposures \cup {None}
      BY <1>1, <3>1, Applying DEF Camera2!Apply, Camera2!Camera2TypeOK
    <3> QED BY <1>1, <2>7, <3>2 DEF Camera2!SetExposure, Camera2!Camera2TypeOK
  <2>8. CASE Camera2!CaptureFrame \/ Camera2!CapturePhoto
    BY <1>1, <2>8 DEF Camera2!CaptureFrame, Camera2!CapturePhoto, Camera2!Camera2TypeOK
  <2>9. CASE Camera2!Shoot
    BY PhoneAssumption, <1>1, <2>9 DEF Camera2!Shoot, Camera2!Camera2TypeOK
  <2>10. CASE Camera2!ShootFails \/ Camera2!PhotoAvailable \/ Camera2!WaitEnds
    BY <1>1, <2>10 DEF Camera2!ShootFails, Camera2!PhotoAvailable, Camera2!WaitEnds,
       Camera2!Camera2TypeOK
  <2>11. CASE Camera2!Restore
    <3>1. session \in Camera2!Session
      BY <1>1, <2>11 DEF Camera2!Restore, StageInv, InPhoto
    <3>2. session' \in Camera2!Session
      BY PhoneAssumption, <1>1, <2>11, <3>1, SettingsKeep DEF Camera2!Restore
    <3>3. session.req \in Camera2!Exposures
      BY <3>1 DEF Camera2!Session
    <3> QED BY <1>1, <2>11, <3>2, <3>3 DEF Camera2!Restore, Camera2!Camera2TypeOK
  <2>12. CASE UNCHANGED Camera2!camera2Vars
    BY <1>1, <2>12 DEF Camera2!camera2Vars, Camera2!Camera2TypeOK
  <2> QED BY <2>1, <2>2, <2>3, <2>4, <2>5, <2>6, <2>7, <2>8, <2>9, <2>10, <2>11, <2>12
         DEF Camera2!Camera2Next
<1> QED BY <1>2 DEF Camera2!Camera2TypeOK

(* What else runs leaves a photo alone: only its own stages move it. *)
LEMMA StageStep ==
    ASSUME PhoneAssumption, Camera2Inv, [Camera2!Camera2Next]_Camera2!camera2Vars
    PROVE  StageInv' /\ PictureInv'
<1>1. /\ Camera2!Camera2TypeOK /\ StageInv /\ PictureInv /\ phone \in Backs
      /\ session # None => session \in Camera2!Session
  BY PhoneAssumption DEF Camera2Inv, Camera2!Camera2TypeOK
<1>2. CASE Camera2!Report
  <2>1. UNCHANGED <<phone, actor, session, preview, slot, busy, shots, job>>
    BY <1>2 DEF Camera2!Report
  <2> QED BY <1>1, <2>1, TakenStays DEF StageInv, PictureInv, InPhoto
<1>3. CASE \/ Camera2!Connect \/ Camera2!Disconnect \/ Camera2!Shutdown \/ Camera2!GetParameters
           \/ Camera2!SetRotate \/ Camera2!SetSize \/ Camera2!SetExposure \/ Camera2!CaptureFrame
  <2>1. actor = "free" /\ actor' \in {"free", "ended"} /\ busy' = busy
    BY <1>3 DEF Camera2!Connect, Camera2!Disconnect, Camera2!Shutdown, Camera2!Close,
       Camera2!GetParameters, Camera2!SetRotate, Camera2!SetSize, Camera2!SetExposure,
       Camera2!CaptureFrame, Camera2!Free
  <2> QED BY <1>1, <2>1 DEF StageInv, PictureInv, InPhoto
<1>4. CASE Camera2!CapturePhoto
  <2>1. Camera2!rotation \in Camera2!QuarterTurns
    <3>1. CASE ~session.rotate
      BY <3>1 DEF Camera2!rotation, Camera2!QuarterTurns
    <3>2. phone.sensor \in Camera2!QuarterTurns /\ phone.front \in BOOLEAN
          /\ device \in {Camera2!ORIENTATION_UNKNOWN} \cup 0..359
      BY <1>1 DEF Backs, Camera2!Camera2TypeOK
    <3> QED BY <3>1, <3>2, AsksQuarterTurns DEF Camera2!rotation
  <2>2. /\ job' = [asked |-> Camera2!rotation, exposure |-> None, raw |-> None]
        /\ preview' = None /\ actor' = "paused"
        /\ session' = session /\ session # None /\ busy' = busy /\ busy = None
    BY <1>1, <1>4 DEF Camera2!CapturePhoto, Camera2!Free, Camera2!Connected, StageInv
  <2>3. job'.asked = Camera2!rotation /\ job'.exposure = None /\ job'.raw = None
    BY <2>2
  <2> QED BY <2>1, <2>2, <2>3 DEF StageInv, PictureInv, InPhoto
<1>5. CASE Camera2!Shoot
  <2>1. /\ actor = "paused" /\ actor' = "waiting" /\ slot' = None /\ busy' = shots'
        /\ job' = [job EXCEPT !.exposure = Camera2!Exposure(session)]
        /\ UNCHANGED <<session, preview>>
    BY <1>5 DEF Camera2!Shoot, Camera2!ClearSlot
  <2>2. /\ job = [asked |-> job.asked, exposure |-> job.exposure, raw |-> job.raw]
        /\ job.asked \in Camera2!QuarterTurns /\ job.raw = None
    BY <1>1, <2>1 DEF StageInv, InPhoto
  <2>3. job' = [asked |-> job.asked, exposure |-> Camera2!Exposure(session), raw |-> None]
    BY <2>1, <2>2
  <2>4. /\ job'.asked = job.asked /\ job'.raw = None
        /\ job'.exposure = Camera2!Exposure(session)'
    BY <2>1, <2>3 DEF Camera2!Exposure
  <2> QED BY <1>1, <2>1, <2>2, <2>3, <2>4 DEF StageInv, PictureInv, InPhoto
<1>6. CASE Camera2!ShootFails
  <2>1. /\ actor = "paused" /\ actor' = "restore"
        /\ UNCHANGED <<session, preview, job, busy, shots>>
    BY <1>6 DEF Camera2!ShootFails
  <2> QED BY <1>1, <2>1 DEF StageInv, PictureInv, InPhoto
<1>7. CASE Camera2!PhotoAvailable
  <2>1. /\ actor \in {"waiting", "restore"} /\ busy = shots /\ busy' = None
        /\ slot' \in Camera2!Given \cup {Camera2!Unreadable}
        /\ UNCHANGED <<phone, actor, session, preview, shots, job>>
        /\ job.asked \in Camera2!QuarterTurns
    BY <1>1, <1>7 DEF Camera2!PhotoAvailable, StageInv, InPhoto
  <2>2. slot' = Camera2!Unreadable \/ IsTaken(slot')
    BY <1>1, <2>1, GivenIsTaken
  <2>3. StageInv'
    BY <1>1, <2>1 DEF StageInv, InPhoto
  <2>4. ASSUME NEW pic, actor' = "waiting", slot' = pic
        PROVE  pic \in {None, Camera2!Unreadable} \/ IsTaken(pic)'
    BY <2>1, <2>2, <2>4, TakenStays
  <2>5. ASSUME NEW pic, actor' = "restore", job'.raw = pic
        PROVE  pic = None \/ IsTaken(pic)'
    BY <1>1, <2>1, <2>5, TakenStays DEF PictureInv
  <2> QED BY <2>3, <2>4, <2>5 DEF PictureInv
<1>8. CASE Camera2!WaitEnds
  <2>1. /\ actor = "waiting" /\ actor' = "restore"
        /\ UNCHANGED <<phone, session, preview, busy, shots>>
        /\ job = [asked |-> job.asked, exposure |-> job.exposure, raw |-> None]
        /\ job.asked \in Camera2!QuarterTurns /\ job.exposure = Camera2!Exposure(session)
        /\ Camera2!Exposure(session)' = Camera2!Exposure(session)
    BY <1>1, <1>8 DEF Camera2!WaitEnds, StageInv, InPhoto, Camera2!Exposure
  <2>2. CASE slot \in {None, Camera2!Unreadable}
    <3>1. job' = job /\ job'.raw = None
      BY <1>8, <2>1, <2>2 DEF Camera2!WaitEnds
    <3> QED BY <1>1, <2>1, <3>1 DEF StageInv, PictureInv, InPhoto
  <2>3. CASE slot \notin {None, Camera2!Unreadable}
    <3>1. job' = [job EXCEPT !.raw = slot] /\ IsTaken(slot)
      BY <1>1, <1>8, <2>1, <2>3 DEF Camera2!WaitEnds, PictureInv
    <3>2. job' = [asked |-> job.asked, exposure |-> job.exposure, raw |-> slot]
      BY <2>1, <3>1
    <3>3. job'.asked = job.asked /\ job'.exposure = job.exposure /\ job'.raw = slot
      BY <3>2
    <3>5. ASSUME NEW pic, job'.raw = pic
          PROVE  IsTaken(pic)'
      BY <2>1, <3>1, <3>3, <3>5, TakenStays
    <3>6. StageInv'
      BY <1>1, <2>1, <3>2, <3>3 DEF StageInv, InPhoto
    <3> QED BY <2>1, <3>5, <3>6 DEF PictureInv
  <2> QED BY <2>2, <2>3
<1>9. CASE Camera2!Restore
  <2>1. actor' = "free" /\ busy' = None
    BY <1>9 DEF Camera2!Restore
  <2> QED BY <2>1 DEF StageInv, PictureInv, InPhoto
<1>10. CASE UNCHANGED Camera2!camera2Vars
  <2>1. UNCHANGED <<phone, actor, session, preview, slot, busy, shots, job>>
    BY <1>10 DEF Camera2!camera2Vars
  <2> QED BY <1>1, <2>1, TakenStays DEF StageInv, PictureInv, InPhoto
<1> QED BY <1>2, <1>3, <1>4, <1>5, <1>6, <1>7, <1>8, <1>9, <1>10 DEF Camera2!Camera2Next

(* The live view runs with what is shown, and comes back with it. *)
LEMMA ExposureStep ==
    ASSUME PhoneAssumption, Camera2Inv, [Camera2!Camera2Next]_Camera2!camera2Vars
    PROVE  RequestInv' /\ Camera2!LiveViewSurvives' /\ Camera2!ShownIsRunning'
<1>1. /\ Camera2!Camera2TypeOK /\ StageInv /\ RequestInv /\ Camera2!LiveViewSurvives /\ Camera2!ShownIsRunning
      /\ session # None => session \in Camera2!Session
      /\ phone \in Backs
  BY PhoneAssumption DEF Camera2Inv, Camera2!Camera2TypeOK
<1> DEFINE Same == UNCHANGED <<session, preview, refused, lost>>
<1>2. ASSUME Same, actor' # "free" \/ actor = "free"
      PROVE  RequestInv' /\ Camera2!LiveViewSurvives' /\ Camera2!ShownIsRunning'
  BY <1>1, <1>2 DEF RequestInv, Camera2!LiveViewSurvives, Camera2!ShownIsRunning, Camera2!Free,
     Camera2!Connected, Camera2!Exposure
<1>3. CASE Camera2!Report \/ Camera2!CaptureFrame \/ UNCHANGED Camera2!camera2Vars
  BY <1>2, <1>3 DEF Camera2!Report, Camera2!CaptureFrame, Camera2!Free, Camera2!camera2Vars
<1>4. CASE Camera2!Shoot \/ Camera2!ShootFails \/ Camera2!PhotoAvailable \/ Camera2!WaitEnds
  BY <1>2, <1>4 DEF Camera2!Shoot, Camera2!ShootFails, Camera2!PhotoAvailable, Camera2!WaitEnds
<1>5. CASE Camera2!Connect
  <2>1. session'.req = Camera2!Template /\ preview' = Camera2!Template /\ Camera2!Template # None
    BY PhoneAssumption, <1>5 DEF Camera2!Connect, Camera2!Exposures
  <2> QED BY <2>1 DEF RequestInv, Camera2!LiveViewSurvives, Camera2!ShownIsRunning
<1>6. CASE Camera2!Disconnect \/ Camera2!Shutdown
  BY <1>6 DEF Camera2!Disconnect, Camera2!Shutdown, Camera2!Close, RequestInv,
     Camera2!LiveViewSurvives, Camera2!ShownIsRunning, Camera2!Connected
<1>7. CASE Camera2!GetParameters
  <2>1. session'.req = session.req /\ Camera2!Snapped(Camera2!Exposure(session')) = Camera2!Snapped(Camera2!Exposure(session))
        /\ session # None /\ UNCHANGED <<actor, preview, refused, lost>>
    BY <1>1, <1>7, Snapping DEF Camera2!GetParameters, Camera2!Connected
  <2>2. Camera2!Exposure(session)' = Camera2!Exposure(session')
    BY DEF Camera2!Exposure
  <2> QED BY <1>1, <2>1, <2>2 DEF RequestInv, Camera2!LiveViewSurvives, Camera2!ShownIsRunning,
      Camera2!Free, Camera2!Connected
<1>8. CASE Camera2!SetRotate \/ Camera2!SetSize
  <2>1. /\ session'.req = session.req /\ session'.auto = session.auto
        /\ session'.speed = session.speed
        /\ session # None /\ UNCHANGED <<actor, preview, refused, lost>>
    BY <1>1, <1>8 DEF Camera2!SetRotate, Camera2!SetSize, Camera2!Connected, Camera2!Session
  <2>2. Camera2!Exposure(session)' = Camera2!Exposure(session)
    BY <2>1 DEF Camera2!Exposure
  <2> QED BY <1>1, <2>1, <2>2 DEF RequestInv, Camera2!LiveViewSurvives, Camera2!ShownIsRunning,
      Camera2!Free, Camera2!Connected
<1>9. CASE Camera2!SetExposure
  <2>1. PICK set \in Camera2!Session : Camera2!Apply(set)
    BY <1>1, <1>9, SettingsKeep DEF Camera2!SetExposure, Camera2!Connected, Camera2!Speeds
  <2> DEFINE req == Camera2!Capped(Camera2!Exposure(set))
  <2>2. /\ session'.req = req /\ Camera2!Exposure(session)' = Camera2!Exposure(set)
        /\ req \in Camera2!Exposures
        /\ Camera2!Snapped(req) = Camera2!Capped(Camera2!Snapped(Camera2!Exposure(set)))
    BY <2>1, Applying DEF Camera2!Apply, Camera2!Exposure
  <2>3. \/ preview' = req /\ refused' = FALSE
        \/ preview' = preview /\ refused' = TRUE
    BY <2>1 DEF Camera2!Apply
  <2> HIDE DEF req
  <2>4. UNCHANGED <<actor, lost>> /\ session # None /\ req # None
    BY PhoneAssumption, <1>9, <2>2 DEF Camera2!SetExposure, Camera2!Connected
  <2> QED BY <1>1, <2>2, <2>3, <2>4 DEF RequestInv, Camera2!LiveViewSurvives,
      Camera2!ShownIsRunning, Camera2!Free, Camera2!Connected
<1>10. CASE Camera2!CapturePhoto
  BY <1>1, <1>10 DEF Camera2!CapturePhoto, RequestInv, Camera2!LiveViewSurvives,
     Camera2!ShownIsRunning, Camera2!Free, Camera2!Exposure
<1>11. CASE Camera2!Restore
  <2>1. session \in Camera2!Session /\ session # None /\ preview = None
    BY <1>1, <1>11 DEF Camera2!Restore, StageInv, InPhoto
  <2>2. session.req \in Camera2!Exposures /\ session.req # None
    BY PhoneAssumption, <2>1 DEF Camera2!Session
  <2>3. /\ session'.req = session.req /\ session'.auto = session.auto
        /\ session'.speed = session.speed
    BY <1>11, <2>1 DEF Camera2!Restore, Camera2!Session
  <2>4. Camera2!Exposure(session)' = Camera2!Exposure(session)
    BY <2>3 DEF Camera2!Exposure
  <2>5. \/ preview' = session.req /\ refused' = FALSE
        \/ preview' = None /\ lost' = TRUE
    BY <1>11, <2>1 DEF Camera2!Restore
  <2> QED BY <1>1, <2>1, <2>2, <2>3, <2>4, <2>5 DEF RequestInv, Camera2!LiveViewSurvives,
      Camera2!ShownIsRunning, Camera2!Free, Camera2!Connected
<1> QED BY <1>3, <1>4, <1>5, <1>6, <1>7, <1>8, <1>9, <1>10, <1>11 DEF Camera2!Camera2Next

(* What is answered: a frame turned as asked, the photo of this shot. *)
LEMMA AnswerStep ==
    ASSUME PhoneAssumption, Camera2Inv, [Camera2!Camera2Next]_Camera2!camera2Vars
    PROVE  Camera2!TurnedOnce' /\ Camera2!OwnPhoto'
<1>1. /\ Camera2!Camera2TypeOK /\ StageInv /\ PictureInv /\ Camera2!TurnedOnce /\ Camera2!OwnPhoto
      /\ phone \in Backs
  BY PhoneAssumption DEF Camera2Inv, Camera2!Camera2TypeOK
<1>2. ASSUME UNCHANGED <<phone, session, out, shots>>, actor' # "free" \/ actor = "free"
      PROVE  Camera2!TurnedOnce' /\ Camera2!OwnPhoto'
  <2>1. Camera2!Exposure(session)' = Camera2!Exposure(session)
    BY <1>2 DEF Camera2!Exposure
  <2> QED BY <1>1, <1>2, <2>1 DEF Camera2!TurnedOnce, Camera2!OwnPhoto, Camera2!IsPhoto,
      Camera2!Telling, Camera2!Free
<1>3. CASE Camera2!Report \/ Camera2!ShootFails \/ Camera2!PhotoAvailable \/ Camera2!WaitEnds \/ UNCHANGED Camera2!camera2Vars
  BY <1>2, <1>3 DEF Camera2!Report, Camera2!ShootFails, Camera2!PhotoAvailable, Camera2!WaitEnds,
     Camera2!camera2Vars
<1>4. CASE Camera2!Shoot
  <2>1. UNCHANGED <<phone, out>> /\ actor' = "waiting"
    BY <1>4 DEF Camera2!Shoot
  <2> QED BY <1>1, <2>1 DEF Camera2!TurnedOnce, Camera2!OwnPhoto, Camera2!IsPhoto,
      Camera2!Telling, Camera2!Free
<1>5. CASE \/ Camera2!Connect \/ Camera2!Disconnect \/ Camera2!Shutdown \/ Camera2!GetParameters
           \/ Camera2!SetRotate \/ Camera2!SetSize \/ Camera2!SetExposure \/ Camera2!CapturePhoto
  <2>1. out' = None
    BY <1>5 DEF Camera2!Connect, Camera2!Disconnect, Camera2!Shutdown, Camera2!Close,
       Camera2!GetParameters, Camera2!SetRotate, Camera2!SetSize, Camera2!SetExposure,
       Camera2!CapturePhoto
  <2> QED BY <2>1 DEF Camera2!TurnedOnce, Camera2!OwnPhoto, Camera2!IsPhoto
<1>6. CASE Camera2!CaptureFrame
  <2>1. \/ out' = None
        \/ out' = [kind |-> "frame", turned |-> Camera2!rotation, asked |-> Camera2!rotation]
    BY <1>6 DEF Camera2!CaptureFrame
  <2>2. out' = None \/ (out'.kind = "frame" /\ out'.turned = out'.asked)
    BY <2>1
  <2> QED BY <2>2 DEF Camera2!TurnedOnce, Camera2!OwnPhoto, Camera2!IsPhoto
<1>7. CASE Camera2!Restore
  <2>1. UNCHANGED <<phone, shots>> /\ actor = "restore" /\ job.asked \in Camera2!QuarterTurns
    BY <1>1, <1>7 DEF Camera2!Restore, StageInv, InPhoto
  <2>2. CASE out' = None
    BY <2>2 DEF Camera2!TurnedOnce, Camera2!OwnPhoto, Camera2!IsPhoto
  <2>3. CASE out' # None
    <3>1. out' \in Camera2!Finished(job.raw) /\ job.raw # None
      BY <1>7, <2>3 DEF Camera2!Restore
    <3>2. IsTaken(job.raw)
      BY <1>1, <2>1, <3>1 DEF PictureInv
    <3>3. OfThisShot(out') /\ (Tells(out') => Upright(out'))
      BY <1>1, <2>1, <3>1, <3>2, FinishedIsUpright
    <3>4. /\ out'.kind = "photo" /\ out'.shot = shots
          /\ out'.exposure = Camera2!Exposure(session)
      BY <1>1, <2>1, <3>1, <3>3 DEF OfThisShot, StageInv
    <3>6. Camera2!Exposure(session)' = Camera2!Exposure(session)
      <4>1. session \in Camera2!Session
        BY <1>1, <2>1 DEF StageInv, InPhoto, Camera2!Camera2TypeOK
      <4>2. session'.auto = session.auto /\ session'.speed = session.speed
        BY <1>7, <4>1 DEF Camera2!Restore, Camera2!Session
      <4> QED BY <4>2 DEF Camera2!Exposure
    <3>5. Camera2!Telling' => Tells(out')
      BY <2>1 DEF Camera2!Telling, Tells
    <3> QED BY <2>1, <3>3, <3>4, <3>5, <3>6 DEF Camera2!TurnedOnce, Camera2!OwnPhoto, Camera2!IsPhoto,
        Upright
  <2> QED BY <2>2, <2>3
<1> QED BY <1>3, <1>4, <1>5, <1>6, <1>7 DEF Camera2!Camera2Next

LEMMA Camera2Step ==
    ASSUME PhoneAssumption, Camera2Inv, [Camera2!Camera2Next]_Camera2!camera2Vars
    PROVE  Camera2Inv'
BY Camera2Types, StageStep, ExposureStep, AnswerStep DEF Camera2Inv

-----------------------------------------------------------------------------
(* The stream of a peer. *)

Symbols == Bytes \cup {Stream!CR, Stream!LF, Stream!Boundary} \cup {Stream!LengthLine(n) : n \in Nat}

LEMMA SymbolsDiffer ==
    /\ Stream!CR # Stream!LF /\ Stream!CR # Stream!Boundary /\ Stream!LF # Stream!Boundary
    /\ \A n : Stream!LengthLine(n) # Stream!CR /\ Stream!LengthLine(n) # Stream!LF /\ Stream!LengthLine(n) # Stream!Boundary
    /\ Stream!CR[1] # "Content-Length" /\ Stream!LF[1] # "Content-Length" /\ Stream!Boundary[1] # "Content-Length"
    /\ \A n : Stream!LengthLine(n)[1] = "Content-Length" /\ Stream!LengthLine(n)[2] = n
BY DEF Stream!CR, Stream!LF, Stream!Boundary, Stream!LengthLine

LEMMA BodyIsSeq ==
    ASSUME NEW b \in Pictures PROVE b \in Seq(Symbols) /\ Len(b) \in Nat
<1>1. b \in Seq(Bytes)
  BY StreamAssumption
<1>2. Bytes \subseteq Symbols
  BY DEF Symbols
<1>3. b \in Seq(Symbols)
  BY <1>1, <1>2, SeqMonotonic
<1> QED BY <1>3, LenProperties

LEMMA Joined ==
    ASSUME NEW s \in Seq(Symbols), NEW t \in Seq(Symbols)
    PROVE  /\ s \o t \in Seq(Symbols) /\ Len(s \o t) = Len(s) + Len(t)
           /\ \A i \in 1..(Len(s) + Len(t)) :
                (s \o t)[i] = IF i <= Len(s) THEN s[i] ELSE t[i - Len(s)]
BY ConcatProperties, Zenon

(* A part, symbol by symbol. *)
LEMMA PartIs ==
    ASSUME NEW b \in Pictures
    PROVE  /\ Stream!Part(b) \in Seq(Symbols) /\ Len(Stream!Part(b)) = Len(b) + 10
           /\ Stream!Part(b)[1] = Stream!Boundary /\ Stream!Part(b)[2] = Stream!CR /\ Stream!Part(b)[3] = Stream!LF
           /\ Stream!Part(b)[4] = Stream!LengthLine(Len(b))
           /\ Stream!Part(b)[5] = Stream!CR /\ Stream!Part(b)[6] = Stream!LF /\ Stream!Part(b)[7] = Stream!CR /\ Stream!Part(b)[8] = Stream!LF
           /\ \A i \in 1..Len(b) : Stream!Part(b)[i + 8] = b[i]
           /\ Stream!Part(b)[Len(b) + 9] = Stream!CR /\ Stream!Part(b)[Len(b) + 10] = Stream!LF
<1> DEFINE head == <<Stream!Boundary, Stream!CR, Stream!LF, Stream!LengthLine(Len(b)), Stream!CR, Stream!LF, Stream!CR, Stream!LF>>
           tail == <<Stream!CR, Stream!LF>>
<1>1. b \in Seq(Symbols) /\ Len(b) \in Nat
  BY BodyIsSeq
<1>2. Stream!Boundary \in Symbols /\ Stream!CR \in Symbols /\ Stream!LF \in Symbols /\ Stream!LengthLine(Len(b)) \in Symbols
  BY <1>1 DEF Symbols
<1>3. /\ head \in Seq(Symbols) /\ Len(head) = 8
      /\ head[1] = Stream!Boundary /\ head[2] = Stream!CR /\ head[3] = Stream!LF /\ head[4] = Stream!LengthLine(Len(b))
      /\ head[5] = Stream!CR /\ head[6] = Stream!LF /\ head[7] = Stream!CR /\ head[8] = Stream!LF
  BY <1>2
<1>4. tail \in Seq(Symbols) /\ Len(tail) = 2 /\ tail[1] = Stream!CR /\ tail[2] = Stream!LF
  BY <1>2
<1>5. Stream!Part(b) = (head \o b) \o tail
  BY DEF Stream!Part
<1> HIDE DEF head, tail
<1>6. /\ head \o b \in Seq(Symbols) /\ Len(head \o b) = 8 + Len(b)
      /\ \A i \in 1..(8 + Len(b)) : (head \o b)[i] = IF i <= 8 THEN head[i] ELSE b[i - 8]
  <2>1. /\ head \o b \in Seq(Symbols) /\ Len(head \o b) = Len(head) + Len(b)
        /\ \A i \in 1..(Len(head) + Len(b)) :
             (head \o b)[i] = IF i <= Len(head) THEN head[i] ELSE b[i - Len(head)]
    BY <1>1, <1>3, Joined, Zenon
  <2> QED BY <1>3, <2>1
<1>7. /\ Stream!Part(b) \in Seq(Symbols) /\ Len(Stream!Part(b)) = 8 + Len(b) + 2
      /\ \A i \in 1..(8 + Len(b) + 2) :
           Stream!Part(b)[i] = IF i <= 8 + Len(b) THEN (head \o b)[i] ELSE tail[i - (8 + Len(b))]
  <2> DEFINE s == head \o b
  <2> HIDE DEF s
  <2>1. /\ s \o tail \in Seq(Symbols) /\ Len(s \o tail) = Len(s) + Len(tail)
        /\ \A i \in 1..(Len(s) + Len(tail)) :
             (s \o tail)[i] = IF i <= Len(s) THEN s[i] ELSE tail[i - Len(s)]
    BY <1>4, <1>6, Joined, Zenon DEF s
  <2>2. Stream!Part(b) = s \o tail /\ Len(s) = 8 + Len(b) /\ s = head \o b
    BY <1>5, <1>6 DEF s
  <2> QED BY <1>4, <2>1, <2>2
<1>8. \A i \in 1..8 : Stream!Part(b)[i] = head[i]
  BY <1>1, <1>6, <1>7
<1>9. \A i \in 1..Len(b) : Stream!Part(b)[i + 8] = b[i]
  <2> SUFFICES ASSUME NEW i \in 1..Len(b) PROVE Stream!Part(b)[i + 8] = b[i]
    OBVIOUS
  <2>1. i + 8 \in 1..(8 + Len(b)) /\ ~(i + 8 <= 8) /\ (i + 8) - 8 = i
    BY <1>1
  <2>2. Stream!Part(b)[i + 8] = (head \o b)[i + 8]
    <3>1. i + 8 \in 1..(8 + Len(b) + 2) /\ i + 8 <= 8 + Len(b)
      BY <1>1
    <3> QED BY <1>7, <3>1
  <2> QED BY <1>6, <2>1, <2>2
<1>10. Stream!Part(b)[Len(b) + 9] = tail[1] /\ Stream!Part(b)[Len(b) + 10] = tail[2]
  BY <1>1, <1>7
<1> QED BY <1>1, <1>3, <1>4, <1>7, <1>8, <1>9, <1>10

-----------------------------------------------------------------------------
(* What is received and what is on its way, as one stream. *)
Total == Len(buf) + Len(wire)
StreamAt(i) == IF i <= Len(buf) THEN buf[i] ELSE wire[i - Len(buf)]

(* Where the parts begin that were not taken yet, after what is left of the line
   end of the last one. *)
Fits(start) ==
  /\ start \in [Nat -> Int]
  /\ \/ start[Len(got) + 1] = 1
     \/ start[Len(got) + 1] = 3 /\ StreamAt(1) = Stream!CR /\ StreamAt(2) = Stream!LF
  /\ start[Len(sent) + 1] = Total + 1
  /\ \A m, n \in (Len(got) + 1)..(Len(sent) + 1) : m <= n => start[m] <= start[n]
  /\ \A n \in (Len(got) + 1)..Len(sent) :
       /\ start[n + 1] = start[n] + Len(sent[n]) + 10
       /\ \A i \in 1..(Len(sent[n]) + 10) : StreamAt(start[n] + i - 1) = Stream!Part(sent[n])[i]

BytesTypeOK ==
  /\ wire \in Seq(Symbols) /\ buf \in Seq(Symbols)
  /\ sent \in Seq(Pictures) /\ Len(sent) <= MaxParts
  /\ got \in Seq(Pictures) /\ Len(got) <= Len(sent)
  /\ \A i \in 1..Len(got) : got[i] = sent[i]

StreamInv == BytesTypeOK /\ \E start : Fits(start)

LEMMA StreamBegins == Stream!StreamInit => StreamInv
<1> SUFFICES ASSUME Stream!StreamInit PROVE StreamInv
  OBVIOUS
<1>1. wire = <<>> /\ buf = <<>> /\ sent = <<>> /\ got = <<>>
  BY DEF Stream!StreamInit
<1>2. BytesTypeOK
  BY <1>1, StreamAssumption DEF BytesTypeOK
<1>3. Fits([n \in Nat |-> 1])
  BY <1>1 DEF Fits, Total
<1> QED BY <1>2, <1>3 DEF StreamInv

(* The ends of headers, symbol by symbol. *)
LEMMA Ends ==
    ASSUME NEW b \in Seq(Symbols), NEW i \in 1..Len(b), i + 3 <= Len(b)
    PROVE  i \in Stream!HeaderEnds(b) <=>
             (b[i] = Stream!CR /\ b[i + 1] = Stream!LF /\ b[i + 2] = Stream!CR /\ b[i + 3] = Stream!LF)
<1> DEFINE part == SubSeq(b, i, i + 3)
           end == <<Stream!CR, Stream!LF, Stream!CR, Stream!LF>>
<1>0. Stream!CR \in Symbols /\ Stream!LF \in Symbols
  BY DEF Symbols
<1>1. \A j \in i..(i + 3) : b[j] \in Symbols
  BY ElementOfSeq
<1>2. /\ part \in Seq(Symbols) /\ Len(part) = 4
      /\ \A j \in 1..4 : part[j] = b[i + j - 1]
  <2>1. /\ part \in Seq(Symbols)
        /\ Len(part) = IF i <= i + 3 THEN (i + 3) - i + 1 ELSE 0
        /\ \A j \in 1..((i + 3) - i + 1) : part[j] = b[i + j - 1]
    BY <1>1, SubSeqProperties
  <2>2. i <= i + 3 /\ (i + 3) - i + 1 = 4
    OBVIOUS
  <2> QED BY <2>1, <2>2
<1>3. /\ end \in Seq(Symbols) /\ Len(end) = 4
      /\ end[1] = Stream!CR /\ end[2] = Stream!LF /\ end[3] = Stream!CR /\ end[4] = Stream!LF
  BY <1>0
<1>4. i \in Stream!HeaderEnds(b) <=> part = end
  BY DEF Stream!HeaderEnds
<1> HIDE DEF part, end
<1>5. part[1] = b[i] /\ part[2] = b[i + 1] /\ part[3] = b[i + 2] /\ part[4] = b[i + 3]
  BY <1>2
<1>6. (\A j \in 1..4 : part[j] = end[j]) => part = end
  BY <1>2, <1>3, SeqEqual
<1> QED BY <1>3, <1>4, <1>5, <1>6

LEMMA FirstOf ==
    ASSUME NEW S, NEW k \in S, S \subseteq Int, \A i \in S : k <= i
    PROVE  Stream!First(S) = k
<1>1. \A i \in S : (\A j \in S : i <= j) <=> i = k
  OBVIOUS
<1> QED BY <1>1 DEF Stream!First

-----------------------------------------------------------------------------
(* The first part that was not taken, and where it lies in the stream. *)
Place(start) == start[Len(got) + 1]
NextBody == sent[Len(got) + 1]

LEMMA Located ==
    ASSUME BytesTypeOK, NEW start, Fits(start), Len(got) < Len(sent)
    PROVE  /\ NextBody \in Pictures /\ Len(NextBody) \in Nat
           /\ Place(start) \in {1, 3}
           /\ start[Len(got) + 2] = Place(start) + Len(NextBody) + 10
           /\ Place(start) + Len(NextBody) + 9 <= Total
           /\ \A i \in 1..(Len(NextBody) + 10) :
                StreamAt(Place(start) + i - 1) = Stream!Part(NextBody)[i]
<1> DEFINE g == Len(got)
<1>1. g \in Nat /\ Len(sent) \in Nat /\ g + 1 \in 1..Len(sent)
  BY DEF BytesTypeOK
<1>2. NextBody \in Pictures /\ Len(NextBody) \in Nat
  BY <1>1, BodyIsSeq DEF BytesTypeOK, NextBody
<1>3. g + 1 \in (g + 1)..Len(sent) /\ (g + 1) + 1 = g + 2
  BY <1>1
<1>4. start[g + 2] = start[g + 1] + Len(NextBody) + 10
  BY <1>3 DEF Fits, NextBody
<1>5. \A i \in 1..(Len(NextBody) + 10) : StreamAt(start[g + 1] + i - 1) = Stream!Part(NextBody)[i]
  BY <1>3 DEF Fits, NextBody
<1>6. start[g + 2] <= Total + 1
  <2>1. g + 2 \in (g + 1)..(Len(sent) + 1) /\ Len(sent) + 1 \in (g + 1)..(Len(sent) + 1)
        /\ g + 2 <= Len(sent) + 1
    BY <1>1
  <2>2. start[g + 2] <= start[Len(sent) + 1]
    BY <2>1 DEF Fits
  <2> QED BY <2>2 DEF Fits
<1>7. Total \in Nat /\ start[g + 1] \in {1, 3}
  BY DEF Total, BytesTypeOK, Fits
<1> QED BY <1>2, <1>4, <1>5, <1>6, <1>7 DEF Place

(* The part of the stream that was received. *)
LEMMA Received ==
    ASSUME BytesTypeOK, NEW start, Fits(start), Len(got) < Len(sent)
    PROVE  /\ Len(buf) \in Nat
           /\ Place(start) = 3 => (Len(buf) >= 1 => buf[1] = Stream!CR) /\ (Len(buf) >= 2 => buf[2] = Stream!LF)
           /\ \A i \in 1..(Len(NextBody) + 10) : Place(start) + i - 1 <= Len(buf) =>
                buf[Place(start) + i - 1] = Stream!Part(NextBody)[i]
<1>1. Len(buf) \in Nat
  BY DEF BytesTypeOK
<1>2. \A i \in 1..(Len(NextBody) + 10) : Place(start) + i - 1 <= Len(buf) =>
                buf[Place(start) + i - 1] = Stream!Part(NextBody)[i]
  BY Located DEF StreamAt
<1>3. Place(start) = 3 => (Len(buf) >= 1 => buf[1] = Stream!CR) /\ (Len(buf) >= 2 => buf[2] = Stream!LF)
  BY <1>1 DEF StreamAt, Place, Fits
<1> QED BY <1>1, <1>2, <1>3

(* An empty line is received after the header of a part, and not before. *)
LEMMA HeaderFound ==
    ASSUME BytesTypeOK, NEW start, Fits(start), Len(got) < Len(sent)
    PROVE  /\ \A i \in Stream!HeaderEnds(buf) : Place(start) + 4 <= i
           /\ Place(start) + 7 <= Len(buf) => Place(start) + 4 \in Stream!HeaderEnds(buf)
<1> DEFINE s == Place(start)
           p == Stream!Part(NextBody)
<1>1. /\ s \in {1, 3} /\ Len(NextBody) \in Nat /\ NextBody \in Pictures
      /\ \A i \in 1..8 : i \in 1..(Len(NextBody) + 10)
  BY Located
<1>2. /\ p[1] = Stream!Boundary /\ p[2] = Stream!CR /\ p[3] = Stream!LF /\ p[4] = Stream!LengthLine(Len(NextBody))
      /\ p[5] = Stream!CR /\ p[6] = Stream!LF /\ p[7] = Stream!CR /\ p[8] = Stream!LF
  BY <1>1, PartIs
<1>3. \A i \in 1..8 : s + i - 1 <= Len(buf) => buf[s + i - 1] = p[i]
  BY <1>1, Received
<1>4. s = 3 => (Len(buf) >= 1 => buf[1] = Stream!CR) /\ (Len(buf) >= 2 => buf[2] = Stream!LF)
  BY Received
<1>5. buf \in Seq(Symbols) /\ Len(buf) \in Nat
  BY DEF BytesTypeOK
<1> HIDE DEF s, p
<1>6. /\ (s <= Len(buf)) => buf[s] = Stream!Boundary
      /\ (s + 1 <= Len(buf)) => buf[s + 1] = Stream!CR
      /\ (s + 2 <= Len(buf)) => buf[s + 2] = Stream!LF
      /\ (s + 3 <= Len(buf)) => buf[s + 3] = Stream!LengthLine(Len(NextBody))
      /\ (s + 4 <= Len(buf)) => buf[s + 4] = Stream!CR
      /\ (s + 5 <= Len(buf)) => buf[s + 5] = Stream!LF
      /\ (s + 6 <= Len(buf)) => buf[s + 6] = Stream!CR
      /\ (s + 7 <= Len(buf)) => buf[s + 7] = Stream!LF
  <2>1. /\ s + 1 - 1 = s /\ s + 2 - 1 = s + 1 /\ s + 3 - 1 = s + 2 /\ s + 4 - 1 = s + 3
        /\ s + 5 - 1 = s + 4 /\ s + 6 - 1 = s + 5 /\ s + 7 - 1 = s + 6 /\ s + 8 - 1 = s + 7
    BY <1>1
  <2>2. 1 \in 1..8 /\ 2 \in 1..8 /\ 3 \in 1..8 /\ 4 \in 1..8 /\ 5 \in 1..8 /\ 6 \in 1..8
        /\ 7 \in 1..8 /\ 8 \in 1..8
    OBVIOUS
  <2> QED BY <1>2, <1>3, <2>1, <2>2
<1>7. ASSUME NEW i \in Stream!HeaderEnds(buf) PROVE s + 4 <= i
  <2>1. i \in 1..Len(buf) /\ i + 3 <= Len(buf)
    BY <1>5 DEF Stream!HeaderEnds
  <2>2. buf[i] = Stream!CR /\ buf[i + 1] = Stream!LF /\ buf[i + 2] = Stream!CR /\ buf[i + 3] = Stream!LF
    BY <1>5, <1>7, <2>1, Ends
  <2>3. CASE s = 1
    <3>1. /\ 1 <= Len(buf) /\ 2 <= Len(buf) /\ 3 <= Len(buf) /\ 4 <= Len(buf)
      BY <1>5, <2>1
    <3>2. buf[1] # Stream!CR /\ buf[3] # Stream!CR /\ buf[4] # Stream!CR
      BY <1>6, <2>3, <3>1, SymbolsDiffer
    <3>3. i # 1 /\ i # 2 /\ i # 3 /\ i # 4
      BY <2>2, <3>2
    <3> QED BY <2>1, <2>3, <3>3
  <2>4. CASE s = 3
    <3>1. /\ 2 <= Len(buf) /\ 3 <= Len(buf) /\ 4 <= Len(buf)
          /\ 5 <= Len(buf) => buf[5] = Stream!LF
          /\ 6 <= Len(buf) => buf[6] = Stream!LengthLine(Len(NextBody))
      BY <1>5, <1>6, <2>1, <2>4
    <3>2. buf[2] # Stream!CR /\ buf[3] # Stream!CR /\ (5 <= Len(buf) => buf[5] # Stream!CR)
          /\ (6 <= Len(buf) => buf[6] # Stream!CR)
      BY <1>4, <1>6, <2>4, <3>1, SymbolsDiffer
    <3>3. i # 2 /\ i # 3 /\ i # 5 /\ i # 6
      BY <2>1, <2>2, <3>2
    <3>4. i # 1
      BY <2>2, <3>2
    <3>5. i # 4
      BY <2>1, <2>2, <3>2
    <3> QED BY <2>1, <2>4, <3>3, <3>4, <3>5
  <2> QED BY <1>1, <2>3, <2>4
<1>8. ASSUME s + 7 <= Len(buf) PROVE s + 4 \in Stream!HeaderEnds(buf)
  <2>1. /\ s + 4 \in 1..Len(buf) /\ (s + 4) + 3 <= Len(buf)
        /\ (s + 4) + 1 = s + 5 /\ (s + 4) + 2 = s + 6 /\ (s + 4) + 3 = s + 7
    BY <1>1, <1>5, <1>8
  <2>2. buf[s + 4] = Stream!CR /\ buf[s + 5] = Stream!LF /\ buf[s + 6] = Stream!CR /\ buf[s + 7] = Stream!LF
    BY <1>1, <1>5, <1>6, <1>8
  <2> QED BY <1>5, <2>1, <2>2, Ends
<1> QED BY <1>7, <1>8 DEF s

(* The header tells where the body is. *)
LEMMA BodyFound ==
    ASSUME BytesTypeOK, NEW start, Fits(start), Len(got) < Len(sent),
           Place(start) + 7 <= Len(buf)
    PROVE  /\ Stream!HeaderEnds(buf) # {} /\ Stream!LengthLines(buf) # {}
           /\ Stream!BodyStart(buf) = Place(start) + 8
           /\ Stream!BodyEnd(buf) = Place(start) + 7 + Len(NextBody)
<1> DEFINE s == Place(start)
           p == Stream!Part(NextBody)
<1>1. /\ s \in {1, 3} /\ Len(NextBody) \in Nat /\ NextBody \in Pictures
      /\ \A i \in 1..8 : i \in 1..(Len(NextBody) + 10)
  BY Located
<1>2. p[1] = Stream!Boundary /\ p[2] = Stream!CR /\ p[3] = Stream!LF /\ p[4] = Stream!LengthLine(Len(NextBody))
  BY <1>1, PartIs
<1>3. \A i \in 1..8 : s + i - 1 <= Len(buf) => buf[s + i - 1] = p[i]
  BY <1>1, Received
<1>4. s = 3 => buf[1] = Stream!CR /\ buf[2] = Stream!LF
  BY <1>1, Received
<1>5. Len(buf) \in Nat /\ Stream!HeaderEnds(buf) \subseteq Int
  BY DEF BytesTypeOK, Stream!HeaderEnds
<1>6. s + 4 \in Stream!HeaderEnds(buf) /\ Stream!First(Stream!HeaderEnds(buf)) = s + 4
  BY <1>5, HeaderFound, FirstOf
<1>7. s + 7 <= Len(buf)
  OBVIOUS
<1> HIDE DEF s, p
<1>8. /\ buf[s] = Stream!Boundary /\ buf[s + 1] = Stream!CR /\ buf[s + 2] = Stream!LF
      /\ buf[s + 3] = Stream!LengthLine(Len(NextBody))
  <2>1. /\ s + 1 - 1 = s /\ s + 2 - 1 = s + 1 /\ s + 3 - 1 = s + 2 /\ s + 4 - 1 = s + 3
        /\ s <= Len(buf) /\ s + 1 <= Len(buf) /\ s + 2 <= Len(buf) /\ s + 3 <= Len(buf)
    BY <1>1, <1>5, <1>7
  <2>2. 1 \in 1..8 /\ 2 \in 1..8 /\ 3 \in 1..8 /\ 4 \in 1..8
    OBVIOUS
  <2> QED BY <1>2, <1>3, <2>1, <2>2
<1>9. Stream!LengthLines(buf) = {s + 3}
  <2>1. Stream!LengthLines(buf) = {i \in 1..(s + 3) : buf[i][1] = "Content-Length"}
    BY <1>1, <1>6 DEF Stream!LengthLines
  <2>2. buf[s + 3][1] = "Content-Length"
    BY <1>8, SymbolsDiffer
  <2>3. ASSUME NEW i \in 1..(s + 3), buf[i][1] = "Content-Length" PROVE i = s + 3
    <3>1. CASE s = 1
      BY <1>8, <2>3, <3>1, SymbolsDiffer
    <3>2. CASE s = 3
      BY <1>4, <1>8, <2>3, <3>2, SymbolsDiffer
    <3> QED BY <1>1, <3>1, <3>2
  <2> QED BY <1>1, <2>1, <2>2, <2>3
<1>10. Stream!First(Stream!LengthLines(buf)) = s + 3
  <2>1. /\ s + 3 \in Stream!LengthLines(buf) /\ Stream!LengthLines(buf) \subseteq Int
        /\ \A i \in Stream!LengthLines(buf) : s + 3 <= i
    BY <1>1, <1>9
  <2> QED BY <2>1, FirstOf
<1>11. buf[s + 3][2] = Len(NextBody)
  BY <1>8, SymbolsDiffer
<1>12. Stream!BodyStart(buf) = s + 8 /\ Stream!BodyEnd(buf) = s + 7 + Len(NextBody)
  BY <1>1, <1>6, <1>10, <1>11 DEF Stream!BodyStart, Stream!BodyEnd
<1> QED BY <1>6, <1>9, <1>12 DEF s

(* The buffer holds a whole part once the first one is received to its end. *)
LEMMA WholePart ==
    ASSUME BytesTypeOK, NEW start, Fits(start)
    PROVE  Stream!HasPart(buf) <=> (/\ Len(got) < Len(sent)
                             /\ Place(start) + 7 + Len(NextBody) <= Len(buf))
<1>0. Len(buf) \in Nat /\ Len(wire) \in Nat /\ Len(got) \in Nat /\ Len(sent) \in Nat
  BY DEF BytesTypeOK
<1>1. CASE Len(got) >= Len(sent)
  <2>1. Len(got) = Len(sent)
    BY <1>0, <1>1 DEF BytesTypeOK
  <2>2. Total + 1 \in {1, 3}
    BY <2>1 DEF Fits
  <2>3. Len(buf) <= 2
    BY <1>0, <2>2 DEF Total
  <2>4. Stream!HeaderEnds(buf) = {}
    BY <1>0, <2>3 DEF Stream!HeaderEnds
  <2> QED BY <1>0, <1>1, <2>4 DEF Stream!HasPart
<1>2. CASE Len(got) < Len(sent)
  <2>1. Place(start) \in {1, 3} /\ Len(NextBody) \in Nat
    BY <1>2, Located
  <2>2. ASSUME Stream!HasPart(buf) PROVE Place(start) + 7 <= Len(buf)
    <3>1. PICK i \in Stream!HeaderEnds(buf) : TRUE
      BY <2>2 DEF Stream!HasPart
    <3>2. Place(start) + 4 <= i
      BY <1>2, <3>1, HeaderFound
    <3>3. i \in Int /\ i + 3 <= Len(buf)
      BY <1>0, <3>1 DEF Stream!HeaderEnds
    <3> QED BY <1>0, <2>1, <3>2, <3>3
  <2>3. CASE Place(start) + 7 <= Len(buf)
    BY <1>2, <2>3, BodyFound DEF Stream!HasPart
  <2>4. CASE ~(Place(start) + 7 <= Len(buf))
    BY <1>0, <2>1, <2>2, <2>4
  <2> QED BY <2>3, <2>4
<1> QED BY <1>0, <1>1, <1>2

(* Two facts about positions. *)
LEMMA Inside ==
    ASSUME NEW x \in Int, NEW l \in Int, NEW t \in Int, NEW i \in Int,
           x >= 1, x + l + 10 <= t + 1, i >= 1, i <= l + 10
    PROVE  x + i - 1 \in 1..t
OBVIOUS

LEMMA Shifted ==
    ASSUME NEW x \in Int, NEW y \in Int, NEW c \in Int, NEW l \in Int, NEW i \in Int,
           y = x - c, x >= l, c < l, i >= 1
    PROVE  y + i - 1 \in Int /\ y + i - 1 >= 1 /\ (y + i - 1) + c = x + i - 1
OBVIOUS

(* All of what is described lies in the stream. *)
LEMMA Within ==
    ASSUME BytesTypeOK, NEW start, Fits(start)
    PROVE  /\ start[Len(got) + 1] = 3 => 2 <= Total
           /\ \A n \in (Len(got) + 1)..Len(sent) :
                /\ Len(sent[n]) \in Nat
                /\ \A i \in 1..(Len(sent[n]) + 10) : start[n] + i - 1 \in 1..Total
<1>1. /\ Len(got) \in Nat /\ Len(sent) \in Nat /\ Len(got) <= Len(sent) /\ Total \in Nat
      /\ Len(got) + 1 \in (Len(got) + 1)..(Len(sent) + 1)
      /\ Len(sent) + 1 \in (Len(got) + 1)..(Len(sent) + 1)
      /\ start[Len(got) + 1] \in {1, 3}
  BY DEF BytesTypeOK, Fits, Total
<1>2. \A n \in (Len(got) + 1)..(Len(sent) + 1) :
        start[n] \in Int /\ start[Len(got) + 1] <= start[n] /\ start[n] <= Total + 1
  <2> SUFFICES ASSUME NEW n \in (Len(got) + 1)..(Len(sent) + 1)
               PROVE  start[n] \in Int /\ start[Len(got) + 1] <= start[n] /\ start[n] <= Total + 1
    OBVIOUS
  <2>1. n \in Nat /\ Len(got) + 1 <= n /\ n <= Len(sent) + 1
    BY <1>1
  <2>2. start[Len(got) + 1] <= start[n] /\ start[n] <= start[Len(sent) + 1]
    BY <1>1, <2>1 DEF Fits
  <2> QED BY <2>1, <2>2 DEF Fits
<1>3. start[Len(got) + 1] = 3 => 2 <= Total
  BY <1>1, <1>2
<1>4. ASSUME NEW n \in (Len(got) + 1)..Len(sent)
      PROVE  /\ Len(sent[n]) \in Nat
             /\ \A i \in 1..(Len(sent[n]) + 10) : start[n] + i - 1 \in 1..Total
  <2>1. /\ n \in (Len(got) + 1)..(Len(sent) + 1) /\ n + 1 \in (Len(got) + 1)..(Len(sent) + 1)
        /\ sent[n] \in Pictures
    BY <1>1 DEF BytesTypeOK
  <2>2. start[n + 1] = start[n] + Len(sent[n]) + 10 /\ Len(sent[n]) \in Nat
    BY <2>1, BodyIsSeq DEF Fits
  <2>3. /\ start[n] \in Int /\ start[n] >= 1 /\ start[n + 1] <= Total + 1
    BY <1>1, <1>2, <2>1
  <2>4. ASSUME NEW i \in 1..(Len(sent[n]) + 10) PROVE start[n] + i - 1 \in 1..Total
    <3>1. i \in Nat /\ i >= 1 /\ i <= Len(sent[n]) + 10
      BY <2>2
    <3>2. start[n] + Len(sent[n]) + 10 <= Total + 1
      BY <2>2, <2>3
    <3>3. start[n] \in Int /\ start[n] >= 1 /\ Len(sent[n]) \in Int /\ Total \in Int /\ i \in Int
      BY <1>1, <2>2, <2>3, <3>1
    <3> QED BY <3>1, <3>2, <3>3, Inside
  <2> QED BY <2>2, <2>4
<1> QED BY <1>3, <1>4

(* A part is taken: the picture is the one sent, and the rest moves up. *)
LEMMA ExtractKeeps ==
    ASSUME BytesTypeOK, NEW start, Fits(start), Stream!extract_frame
    PROVE  BytesTypeOK' /\ \E new : Fits(new)'
<1>0. PICK s, p, n, c :
        s = Place(start) /\ p = NextBody /\ n = Len(NextBody) /\ c = Stream!Consumed(buf)
  OBVIOUS
<1>1. Len(got) < Len(sent) /\ s + 7 + n <= Len(buf)
  BY <1>0, WholePart DEF Stream!extract_frame
<1>2. /\ s \in {1, 3} /\ n \in Nat /\ p \in Pictures
      /\ start[Len(got) + 2] = s + n + 10
      /\ s + n + 9 <= Total
      /\ \A i \in 1..(n + 10) : StreamAt(s + i - 1) = Stream!Part(p)[i]
  BY <1>0, <1>1, Located
<1>3. Stream!BodyStart(buf) = s + 8 /\ Stream!BodyEnd(buf) = s + 7 + n
  <2>1. s + 7 <= Len(buf)
    BY <1>1, <1>2 DEF BytesTypeOK
  <2> QED BY <1>0, <1>1, <2>1, BodyFound
<1>4. /\ Len(buf) \in Nat /\ Len(wire) \in Nat /\ Len(got) \in Nat /\ Len(sent) \in Nat
      /\ Total = Len(buf) + Len(wire)
  BY DEF BytesTypeOK, Total
<1>5. /\ Stream!Part(p)[n + 9] = Stream!CR /\ Stream!Part(p)[n + 10] = Stream!LF
      /\ \A i \in 1..n : Stream!Part(p)[i + 8] = p[i]
  BY <1>0, <1>2, PartIs
<1>6. SubSeq(buf, s + 8, s + 7 + n) = p
  <2> DEFINE cutout == SubSeq(buf, s + 8, s + 7 + n)
  <2>1. \A i \in (s + 8)..(s + 7 + n) : buf[i] \in Symbols
    <3> SUFFICES ASSUME NEW i \in (s + 8)..(s + 7 + n) PROVE buf[i] \in Symbols
      OBVIOUS
    <3>1. i \in 1..Len(buf)
      BY <1>1, <1>2, <1>4
    <3> QED BY <3>1, ElementOfSeq DEF BytesTypeOK
  <2>2. /\ cutout \in Seq(Symbols)
        /\ Len(cutout) = IF s + 8 <= s + 7 + n THEN (s + 7 + n) - (s + 8) + 1 ELSE 0
        /\ \A i \in 1..((s + 7 + n) - (s + 8) + 1) : cutout[i] = buf[(s + 8) + i - 1]
    BY <1>2, <2>1, SubSeqProperties
  <2> HIDE DEF cutout
  <2>3. Len(cutout) = n
    BY <1>2, <2>2
  <2>4. \A i \in 1..n : cutout[i] = p[i]
    <3> SUFFICES ASSUME NEW i \in 1..n PROVE cutout[i] = p[i]
      OBVIOUS
    <3>1. i \in 1..((s + 7 + n) - (s + 8) + 1) /\ (s + 8) + i - 1 = s + (i + 8) - 1
      BY <1>2
    <3>2. cutout[i] = buf[s + (i + 8) - 1]
      BY <2>2, <3>1
    <3>3. i + 8 \in 1..(n + 10) /\ s + (i + 8) - 1 <= Len(buf)
      BY <1>1, <1>2, <1>4
    <3>4. buf[s + (i + 8) - 1] = Stream!Part(p)[i + 8]
      BY <1>2, <3>3 DEF StreamAt
    <3> QED BY <1>5, <3>2, <3>4
  <2>5. p \in Seq(Symbols) /\ Len(p) = n
    BY <1>0, <1>2, BodyIsSeq
  <2>6. cutout = p
    BY <2>2, <2>3, <2>4, <2>5, SeqEqual
  <2> QED BY <2>6 DEF cutout
<1>7. c = IF s + 9 + n <= Len(buf) THEN s + 9 + n ELSE s + 7 + n
  <2>1. CASE s + 9 + n <= Len(buf)
    <3> DEFINE end == SubSeq(buf, s + 8 + n, s + 9 + n)
               crlf == <<Stream!CR, Stream!LF>>
    <3>1. \A i \in (s + 8 + n)..(s + 9 + n) : buf[i] \in Symbols
      BY <1>2, <1>4, <2>1, ElementOfSeq DEF BytesTypeOK
    <3>2. /\ end \in Seq(Symbols) /\ Len(end) = 2
          /\ \A i \in 1..2 : end[i] = buf[(s + 8 + n) + i - 1]
      BY <1>2, <3>1, SubSeqProperties
    <3>3. crlf \in Seq(Symbols) /\ Len(crlf) = 2 /\ crlf[1] = Stream!CR /\ crlf[2] = Stream!LF
      BY DEF Symbols
    <3> HIDE DEF end, crlf
    <3>4. buf[s + 8 + n] = Stream!CR /\ buf[s + 9 + n] = Stream!LF
      <4>1. /\ n + 9 \in 1..(n + 10) /\ s + (n + 9) - 1 = s + 8 + n /\ s + 8 + n <= Len(buf)
            /\ n + 10 \in 1..(n + 10) /\ s + (n + 10) - 1 = s + 9 + n
        BY <1>2, <1>4, <2>1
      <4>2. StreamAt(s + 8 + n) = Stream!CR /\ StreamAt(s + 9 + n) = Stream!LF
        BY <1>2, <1>5, <4>1
      <4> QED BY <2>1, <4>1, <4>2 DEF StreamAt
    <3>5. end[1] = Stream!CR /\ end[2] = Stream!LF
      <4>1. /\ (s + 8 + n) + 1 - 1 = s + 8 + n /\ (s + 8 + n) + 2 - 1 = s + 9 + n
            /\ 1 \in 1..2 /\ 2 \in 1..2
        BY <1>2
      <4> QED BY <3>2, <3>4, <4>1
    <3>6. \A i \in 1..2 : end[i] = crlf[i]
      BY <3>3, <3>5
    <3>7. end = crlf
      BY <3>2, <3>3, <3>6, SeqEqual
    <3>8. /\ Stream!BodyEnd(buf) + 1 = s + 8 + n /\ Stream!BodyEnd(buf) + 2 = s + 9 + n
      BY <1>2, <1>3
    <3> QED BY <1>0, <2>1, <3>7, <3>8 DEF Stream!Consumed, end, crlf
  <2>2. CASE ~(s + 9 + n <= Len(buf))
    <3>1. Stream!BodyEnd(buf) + 2 = s + 9 + n
      BY <1>2, <1>3
    <3> QED BY <1>0, <1>3, <2>2, <3>1 DEF Stream!Consumed
  <2> QED BY <2>1, <2>2
<1>8. /\ got' = Append(got, p) /\ buf' = SubSeq(buf, c + 1, Len(buf))
      /\ wire' = wire /\ sent' = sent
  BY <1>0, <1>3, <1>6 DEF Stream!extract_frame
<1>9. /\ c \in Nat /\ c <= Len(buf) /\ c < s + n + 10
      /\ c = s + 9 + n \/ c = s + 7 + n
  BY <1>1, <1>2, <1>4, <1>7
<1>10. /\ buf' \in Seq(Symbols) /\ Len(buf') = Len(buf) - c
       /\ \A i \in 1..(Len(buf) - c) : buf'[i] = buf[i + c]
  <2>1. \A i \in (c + 1)..Len(buf) : buf[i] \in Symbols
    BY <1>4, <1>9, ElementOfSeq DEF BytesTypeOK
  <2>2. /\ buf' \in Seq(Symbols)
        /\ Len(buf') = IF c + 1 <= Len(buf) THEN Len(buf) - (c + 1) + 1 ELSE 0
        /\ \A i \in 1..(Len(buf) - (c + 1) + 1) : buf'[i] = buf[(c + 1) + i - 1]
    BY <1>4, <1>8, <1>9, <2>1, SubSeqProperties
  <2>3. Len(buf') = Len(buf) - c
    BY <1>4, <1>9, <2>2
  <2>4. ASSUME NEW i \in 1..(Len(buf) - c) PROVE buf'[i] = buf[i + c]
    <3>1. i \in 1..(Len(buf) - (c + 1) + 1) /\ (c + 1) + i - 1 = i + c
      BY <1>4, <1>9
    <3> QED BY <2>2, <3>1
  <2> QED BY <2>2, <2>3, <2>4
<1>11. BytesTypeOK'
  <2>1. got' \in Seq(Pictures) /\ Len(got') = Len(got) + 1
    BY <1>2, <1>8 DEF BytesTypeOK
  <2>2. \A i \in 1..Len(got') : got'[i] = sent[i]
    BY <1>0, <1>8, <2>1 DEF BytesTypeOK, NextBody
  <2> QED BY <1>1, <1>4, <1>8, <1>10, <2>1, <2>2 DEF BytesTypeOK
<1> DEFINE new == [k \in Nat |-> start[k] - c]
<1>12. Fits(new)'
  <2>1. Len(got') = Len(got) + 1 /\ Total' = Total - c
    <3>1. Len(got') = Len(got) + 1
      BY <1>2, <1>8 DEF BytesTypeOK
    <3> QED BY <1>4, <1>8, <1>9, <1>10, <3>1 DEF Total
  <2>2. \A i \in Int : i >= 1 => StreamAt(i)' = StreamAt(i + c)
    <3> SUFFICES ASSUME NEW i \in Int, i >= 1 PROVE StreamAt(i)' = StreamAt(i + c)
      OBVIOUS
    <3>1. CASE i <= Len(buf) - c
      BY <1>4, <1>9, <1>10, <3>1 DEF StreamAt
    <3>2. CASE ~(i <= Len(buf) - c)
      <4>1. StreamAt(i)' = wire[i - (Len(buf) - c)]
        BY <1>8, <1>10, <3>2 DEF StreamAt
      <4>2. i - (Len(buf) - c) = (i + c) - Len(buf) /\ ~(i + c <= Len(buf))
        BY <1>4, <1>9, <3>2
      <4> QED BY <4>1, <4>2 DEF StreamAt
    <3> QED BY <3>1, <3>2
  <2>3. start \in [Nat -> Int] /\ new \in [Nat -> Int]
        /\ \A k \in Nat : new[k] = start[k] - c
    BY <1>9 DEF Fits
  <2> HIDE DEF new
  <2>4. \/ new[Len(got') + 1] = 1
        \/ new[Len(got') + 1] = 3 /\ StreamAt(1)' = Stream!CR /\ StreamAt(2)' = Stream!LF
    <3>1. new[Len(got') + 1] = s + n + 10 - c
      <4>1. Len(got') + 1 = Len(got) + 2 /\ Len(got') + 1 \in Nat
        BY <1>4, <2>1
      <4>2. new[Len(got') + 1] = start[Len(got) + 2] - c
        BY <2>3, <4>1
      <4> QED BY <1>2, <1>9, <4>2
    <3>2. CASE c = s + 9 + n
      BY <1>2, <3>1, <3>2
    <3>3. CASE c = s + 7 + n
      <4>1. new[Len(got') + 1] = 3
        BY <1>2, <3>1, <3>3
      <4>2. StreamAt(1)' = StreamAt(1 + c) /\ StreamAt(2)' = StreamAt(2 + c)
        BY <2>2
      <4>3. 1 + c = s + (n + 9) - 1 /\ 2 + c = s + (n + 10) - 1
            /\ n + 9 \in 1..(n + 10) /\ n + 10 \in 1..(n + 10)
        BY <1>2, <3>3
      <4> QED BY <1>2, <1>5, <4>1, <4>2, <4>3
    <3> QED BY <1>9, <3>2, <3>3
  <2>5. new[Len(sent') + 1] = Total' + 1
    <3>1. start[Len(sent) + 1] = Total + 1 /\ Len(sent) + 1 \in Nat /\ Total \in Int
      BY <1>4 DEF Fits
    <3> QED BY <1>8, <1>9, <2>1, <2>3, <3>1
  <2>6. \A k, l \in (Len(got') + 1)..(Len(sent') + 1) : k <= l => new[k] <= new[l]
    <3> SUFFICES ASSUME NEW k \in (Len(got') + 1)..(Len(sent') + 1),
                        NEW l \in (Len(got') + 1)..(Len(sent') + 1), k <= l
                 PROVE  new[k] <= new[l]
      OBVIOUS
    <3>1. k \in (Len(got) + 1)..(Len(sent) + 1) /\ l \in (Len(got) + 1)..(Len(sent) + 1)
          /\ k \in Nat /\ l \in Nat
      BY <1>4, <1>8, <2>1
    <3>2. start[k] <= start[l] /\ start[k] \in Int /\ start[l] \in Int
      BY <3>1 DEF Fits
    <3> QED BY <1>9, <2>3, <3>1, <3>2
  <2>7. ASSUME NEW k \in (Len(got') + 1)..Len(sent')
        PROVE  /\ new[k + 1] = new[k] + Len(sent'[k]) + 10
               /\ \A i \in 1..(Len(sent'[k]) + 10) : StreamAt(new[k] + i - 1)' = Stream!Part(sent'[k])[i]
    <3>1. /\ k \in (Len(got) + 1)..Len(sent) /\ k \in Nat /\ k + 1 \in Nat
          /\ sent'[k] = sent[k] /\ sent[k] \in Pictures
      BY <1>4, <1>8, <2>1, <2>7 DEF BytesTypeOK
    <3>2. /\ start[k + 1] = start[k] + Len(sent[k]) + 10
          /\ \A i \in 1..(Len(sent[k]) + 10) : StreamAt(start[k] + i - 1) = Stream!Part(sent[k])[i]
          /\ start[k] \in Int /\ Len(sent[k]) \in Nat
      BY <3>1, BodyIsSeq DEF Fits
    <3>3. new[k] = start[k] - c /\ new[k + 1] = start[k + 1] - c
      BY <2>3, <3>1
    <3>4. start[k] >= s + n + 10
      <4>1. Len(got) + 2 \in (Len(got) + 1)..(Len(sent) + 1)
            /\ k \in (Len(got) + 1)..(Len(sent) + 1) /\ Len(got) + 2 <= k
        BY <1>4, <1>8, <2>1, <2>7, <3>1
      <4>2. start[Len(got) + 2] <= start[k]
        BY <4>1 DEF Fits
      <4> QED BY <1>2, <3>2, <4>2
    <3>5. ASSUME NEW i \in 1..(Len(sent[k]) + 10)
          PROVE  StreamAt(new[k] + i - 1)' = Stream!Part(sent[k])[i]
      <4>1. new[k] + i - 1 \in Int /\ new[k] + i - 1 >= 1 /\ (new[k] + i - 1) + c = start[k] + i - 1
        <5>1. i \in Nat /\ i >= 1
          BY <3>2
        <5>2. new[k] \in Int /\ start[k] \in Int /\ c \in Int /\ s + n + 10 \in Int /\ i \in Int
          BY <1>2, <1>9, <3>2, <3>3, <5>1
        <5>3. new[k] = start[k] - c /\ start[k] >= s + n + 10 /\ c < s + n + 10
          BY <1>9, <3>3, <3>4
        <5> QED BY <5>1, <5>2, <5>3, Shifted
      <4> DEFINE j == new[k] + i - 1
      <4> HIDE DEF j
      <4>2. StreamAt(j)' = StreamAt(j + c)
        BY <2>2, <4>1 DEF j
      <4>3. j + c = start[k] + i - 1
        BY <4>1 DEF j
      <4>4. StreamAt(j)' = Stream!Part(sent[k])[i]
        BY <3>2, <4>2, <4>3
      <4> QED BY <4>4 DEF j
    <3>6. new[k + 1] = new[k] + Len(sent[k]) + 10
      BY <1>9, <3>2, <3>3
    <3> QED BY <3>1, <3>5, <3>6
  <2> QED BY <2>3, <2>4, <2>5, <2>6, <2>7 DEF Fits
<1> QED BY <1>11, <1>12

(* A chunk is received: the stream stays what it is. *)
LEMMA ReceiveKeeps ==
    ASSUME BytesTypeOK, NEW start, Fits(start), Stream!Receive
    PROVE  BytesTypeOK' /\ Fits(start)'
<1>1. PICK n \in 1..MaxChunk :
        /\ n <= Len(wire)
        /\ buf' = buf \o SubSeq(wire, 1, n)
        /\ wire' = SubSeq(wire, n + 1, Len(wire))
  BY DEF Stream!Receive
<1>2. /\ Len(buf) \in Nat /\ Len(wire) \in Nat /\ Len(got) \in Nat /\ Len(sent) \in Nat
      /\ Total = Len(buf) + Len(wire) /\ n \in Nat /\ n >= 1
  BY StreamAssumption DEF BytesTypeOK, Total
<1> DEFINE chunk == SubSeq(wire, 1, n)
<1>3. /\ chunk \in Seq(Symbols) /\ Len(chunk) = n
      /\ \A i \in 1..n : chunk[i] = wire[i]
  <2>1. \A i \in 1..n : wire[i] \in Symbols
    BY <1>1, <1>2, ElementOfSeq DEF BytesTypeOK
  <2>2. /\ chunk \in Seq(Symbols)
        /\ Len(chunk) = IF 1 <= n THEN n - 1 + 1 ELSE 0
        /\ \A i \in 1..(n - 1 + 1) : chunk[i] = wire[1 + i - 1]
    BY <1>2, <2>1, SubSeqProperties
  <2> QED BY <1>2, <2>2
<1>4. /\ wire' \in Seq(Symbols) /\ Len(wire') = Len(wire) - n
      /\ \A i \in 1..(Len(wire) - n) : wire'[i] = wire[i + n]
  <2>1. \A i \in (n + 1)..Len(wire) : wire[i] \in Symbols
    BY <1>2, ElementOfSeq DEF BytesTypeOK
  <2>2. /\ wire' \in Seq(Symbols)
        /\ Len(wire') = IF n + 1 <= Len(wire) THEN Len(wire) - (n + 1) + 1 ELSE 0
        /\ \A i \in 1..(Len(wire) - (n + 1) + 1) : wire'[i] = wire[(n + 1) + i - 1]
    BY <1>1, <1>2, <2>1, SubSeqProperties
  <2> QED BY <1>1, <1>2, <2>2
<1>5. buf' = buf \o chunk
  BY <1>1
<1> HIDE DEF chunk
<1>6. /\ buf' \in Seq(Symbols) /\ Len(buf') = Len(buf) + n
      /\ \A i \in 1..(Len(buf) + n) :
           buf'[i] = IF i <= Len(buf) THEN buf[i] ELSE chunk[i - Len(buf)]
  <2>1. /\ buf \o chunk \in Seq(Symbols) /\ Len(buf \o chunk) = Len(buf) + Len(chunk)
        /\ \A i \in 1..(Len(buf) + Len(chunk)) :
             (buf \o chunk)[i] = IF i <= Len(buf) THEN buf[i] ELSE chunk[i - Len(buf)]
    BY <1>3, Joined, Zenon DEF BytesTypeOK
  <2> QED BY <1>3, <1>5, <2>1
<1>7. got' = got /\ sent' = sent
  BY DEF Stream!Receive
<1>8. BytesTypeOK'
  BY <1>4, <1>6, <1>7 DEF BytesTypeOK
<1>9. Total' = Total
  BY <1>2, <1>4, <1>6 DEF Total
<1>10. \A i \in 1..Total : StreamAt(i)' = StreamAt(i)
  <2> SUFFICES ASSUME NEW i \in 1..Total PROVE StreamAt(i)' = StreamAt(i)
    OBVIOUS
  <2>1. CASE i <= Len(buf)
    BY <1>2, <1>6, <2>1 DEF StreamAt
  <2>2. CASE i > Len(buf) /\ i <= Len(buf) + n
    <3>1. i - Len(buf) \in 1..n /\ ~(i <= Len(buf)) /\ i \in 1..(Len(buf) + n)
      BY <1>2, <2>2
    <3>2. StreamAt(i)' = chunk[i - Len(buf)]
      BY <1>6, <2>2, <3>1 DEF StreamAt
    <3> QED BY <1>3, <3>1, <3>2 DEF StreamAt
  <2>3. CASE i > Len(buf) + n
    <3>1. /\ i - (Len(buf) + n) \in 1..(Len(wire) - n)
          /\ (i - (Len(buf) + n)) + n = i - Len(buf)
          /\ ~(i <= Len(buf)) /\ ~(i <= Len(buf) + n)
      BY <1>2, <2>3
    <3>2. StreamAt(i)' = wire'[i - (Len(buf) + n)]
      BY <1>6, <3>1 DEF StreamAt
    <3>3. wire'[i - (Len(buf) + n)] = wire[(i - (Len(buf) + n)) + n]
      BY <1>4, <3>1
    <3> QED BY <3>1, <3>2, <3>3 DEF StreamAt
  <2> QED BY <1>2, <2>1, <2>2, <2>3
<1>11. Fits(start)'
  <2>1. \/ start[Len(got') + 1] = 1
        \/ start[Len(got') + 1] = 3 /\ StreamAt(1)' = Stream!CR /\ StreamAt(2)' = Stream!LF
    <3>1. CASE start[Len(got) + 1] = 1
      BY <1>7, <3>1
    <3>2. CASE start[Len(got) + 1] = 3
      <4>1. 1 \in 1..Total /\ 2 \in 1..Total
        BY <1>2, <3>2, Within
      <4>2. StreamAt(1) = Stream!CR /\ StreamAt(2) = Stream!LF
        BY <3>2 DEF Fits
      <4> QED BY <1>7, <1>10, <3>2, <4>1, <4>2
    <3> QED BY <3>1, <3>2 DEF Fits
  <2>2. /\ start \in [Nat -> Int]
        /\ start[Len(sent') + 1] = Total' + 1
        /\ \A m, k \in (Len(got') + 1)..(Len(sent') + 1) : m <= k => start[m] <= start[k]
    BY <1>7, <1>9 DEF Fits
  <2>3. \A k \in (Len(got') + 1)..Len(sent') :
          /\ start[k + 1] = start[k] + Len(sent'[k]) + 10
          /\ \A i \in 1..(Len(sent'[k]) + 10) : StreamAt(start[k] + i - 1)' = Stream!Part(sent'[k])[i]
    <3> SUFFICES ASSUME NEW k \in (Len(got) + 1)..Len(sent)
                 PROVE  /\ start[k + 1] = start[k] + Len(sent[k]) + 10
                        /\ \A i \in 1..(Len(sent[k]) + 10) :
                             StreamAt(start[k] + i - 1)' = Stream!Part(sent[k])[i]
      BY <1>7
    <3>1. start[k + 1] = start[k] + Len(sent[k]) + 10
      BY DEF Fits
    <3>2. ASSUME NEW i \in 1..(Len(sent[k]) + 10)
          PROVE  StreamAt(start[k] + i - 1)' = Stream!Part(sent[k])[i]
      <4>1. start[k] + i - 1 \in 1..Total
        BY Within
      <4>2. StreamAt(start[k] + i - 1) = Stream!Part(sent[k])[i]
        BY DEF Fits
      <4> QED BY <1>10, <4>1, <4>2
    <3> QED BY <3>1, <3>2
  <2> QED BY <2>1, <2>2, <2>3 DEF Fits
<1> QED BY <1>8, <1>11

(* A picture is sent: its part comes after all the others. *)
LEMMA SendKeeps ==
    ASSUME BytesTypeOK, NEW start, Fits(start), Stream!Send
    PROVE  BytesTypeOK' /\ \E new : Fits(new)'
<1>1. PICK body \in Pictures : wire' = wire \o Stream!Part(body) /\ sent' = Append(sent, body)
  BY DEF Stream!Send
<1>2. buf' = buf /\ got' = got /\ Len(sent) < MaxParts
  BY DEF Stream!Send
<1>3. PICK t, b, g, w, l :
        /\ t = Total /\ b = Len(body) /\ g = Len(got) /\ w = Len(wire) /\ l = Len(sent)
  OBVIOUS
<1>4. /\ t \in Nat /\ b \in Nat /\ g \in Nat /\ w \in Nat /\ l \in Nat /\ g <= l
      /\ Len(buf) \in Nat /\ t = Len(buf) + w
  BY <1>3, BodyIsSeq DEF BytesTypeOK, Total
<1>5. /\ Stream!Part(body) \in Seq(Symbols) /\ Len(Stream!Part(body)) = b + 10
  BY <1>3, PartIs
<1>6. /\ wire' \in Seq(Symbols) /\ Len(wire') = w + b + 10
      /\ \A i \in 1..(w + b + 10) :
           wire'[i] = IF i <= w THEN wire[i] ELSE Stream!Part(body)[i - w]
  <2> DEFINE p == Stream!Part(body)
  <2> HIDE DEF p
  <2>1. p \in Seq(Symbols) /\ Len(p) = b + 10
    BY <1>5 DEF p
  <2>2. /\ wire \o p \in Seq(Symbols) /\ Len(wire \o p) = Len(wire) + Len(p)
        /\ \A i \in 1..(Len(wire) + Len(p)) :
             (wire \o p)[i] = IF i <= Len(wire) THEN wire[i] ELSE p[i - Len(wire)]
    BY <2>1, Joined, Zenon DEF BytesTypeOK
  <2>3. wire' = wire \o p
    BY <1>1 DEF p
  <2>4. Len(wire) + Len(p) = w + b + 10
    BY <1>3, <1>4, <2>1
  <2>5. /\ wire' \in Seq(Symbols) /\ Len(wire') = w + b + 10
        /\ \A i \in 1..(w + b + 10) :
             wire'[i] = IF i <= w THEN wire[i] ELSE p[i - w]
    BY <1>3, <2>2, <2>3, <2>4
  <2> QED BY <2>5 DEF p
<1>7. /\ sent' \in Seq(Pictures) /\ Len(sent') = l + 1 /\ sent'[l + 1] = body
      /\ \A k \in 1..l : sent'[k] = sent[k]
  BY <1>1, <1>3, <1>4 DEF BytesTypeOK
<1>8. BytesTypeOK'
  <2>1. Len(sent') <= MaxParts
    BY <1>2, <1>3, <1>4, <1>7, StreamAssumption
  <2>2. \A i \in 1..Len(got') : got'[i] = sent'[i]
    <3> SUFFICES ASSUME NEW i \in 1..Len(got) PROVE got[i] = sent'[i]
      BY <1>2
    <3>1. i \in 1..l
      BY <1>3, <1>4
    <3>2. got[i] = sent[i]
      BY DEF BytesTypeOK
    <3> QED BY <1>7, <3>1, <3>2
  <2> QED BY <1>2, <1>3, <1>4, <1>6, <1>7, <2>1, <2>2 DEF BytesTypeOK
<1>9. Total' = t + b + 10
  BY <1>2, <1>4, <1>6 DEF Total
<1>10. /\ \A i \in 1..t : StreamAt(i)' = StreamAt(i)
       /\ \A i \in 1..(b + 10) : StreamAt(t + i)' = Stream!Part(body)[i]
  <2>1. ASSUME NEW i \in 1..t PROVE StreamAt(i)' = StreamAt(i)
    <3>1. CASE i <= Len(buf)
      BY <1>2, <3>1 DEF StreamAt
    <3>2. CASE ~(i <= Len(buf))
      <4>1. i - Len(buf) \in 1..(w + b + 10) /\ i - Len(buf) <= w
        BY <1>4, <3>2
      <4>2. wire'[i - Len(buf)] = wire[i - Len(buf)]
        BY <1>6, <4>1
      <4> QED BY <1>2, <3>2, <4>2 DEF StreamAt
    <3> QED BY <3>1, <3>2
  <2>2. ASSUME NEW i \in 1..(b + 10) PROVE StreamAt(t + i)' = Stream!Part(body)[i]
    <3>1. /\ ~(t + i <= Len(buf)) /\ (t + i) - Len(buf) = w + i
          /\ w + i \in 1..(w + b + 10) /\ ~(w + i <= w) /\ (w + i) - w = i
      BY <1>4
    <3>2. wire'[w + i] = Stream!Part(body)[i]
      BY <1>6, <3>1
    <3> QED BY <1>2, <3>1, <3>2 DEF StreamAt
  <2> QED BY <2>1, <2>2
<1> DEFINE new == [k \in Nat |-> IF k = l + 2 THEN t + b + 11 ELSE start[k]]
<1>11. /\ start \in [Nat -> Int] /\ new \in [Nat -> Int]
       /\ \A k \in Nat : k # l + 2 => new[k] = start[k]
       /\ new[l + 2] = t + b + 11
  BY <1>4 DEF Fits
<1> HIDE DEF new
<1>12. start[l + 1] = t + 1 /\ new[l + 1] = t + 1
  <2>1. l + 1 \in Nat /\ l + 1 # l + 2
    BY <1>4
  <2> QED BY <1>3, <1>11, <2>1 DEF Fits
<1>13. Fits(new)'
  <2>1. \/ new[Len(got') + 1] = 1
        \/ new[Len(got') + 1] = 3 /\ StreamAt(1)' = Stream!CR /\ StreamAt(2)' = Stream!LF
    <3>1. new[g + 1] = start[g + 1]
      BY <1>4, <1>11
    <3>2. CASE start[g + 1] = 1
      BY <1>2, <1>3, <3>1, <3>2
    <3>3. CASE start[g + 1] = 3
      <4>1. 1 \in 1..t /\ 2 \in 1..t
        BY <1>3, <1>4, <3>3, Within
      <4>2. StreamAt(1) = Stream!CR /\ StreamAt(2) = Stream!LF
        BY <1>3, <3>3 DEF Fits
      <4> QED BY <1>2, <1>3, <1>10, <3>1, <3>3, <4>1, <4>2
    <3> QED BY <1>3, <3>2, <3>3 DEF Fits
  <2>2. new[Len(sent') + 1] = Total' + 1
    <3>1. Len(sent') + 1 = l + 2 /\ Total' + 1 = t + b + 11
      BY <1>4, <1>7, <1>9
    <3> QED BY <1>11, <3>1
  <2>3. \A m, k \in (Len(got') + 1)..(Len(sent') + 1) : m <= k => new[m] <= new[k]
    <3> SUFFICES ASSUME NEW m \in (g + 1)..(l + 2), NEW k \in (g + 1)..(l + 2), m <= k
                 PROVE  new[m] <= new[k]
      <4>1. Len(got') + 1 = g + 1 /\ Len(sent') + 1 = l + 2
        BY <1>2, <1>3, <1>4, <1>7
      <4> QED BY <4>1
    <3>1. \A j \in (g + 1)..(l + 1) : j \in Nat /\ new[j] = start[j] /\ start[j] \in Int
      BY <1>4, <1>11
    <3>2. CASE k = l + 2 /\ m = l + 2
      BY <1>4, <1>11, <3>2
    <3>3. CASE k = l + 2 /\ m # l + 2
      <4>1. m \in (g + 1)..(l + 1) /\ l + 1 \in (g + 1)..(l + 1) /\ m <= l + 1
        BY <1>4, <3>3
      <4>2. start[m] <= start[l + 1] /\ start[m] \in Int /\ new[m] = start[m]
        BY <1>3, <3>1, <4>1 DEF Fits
      <4>3. new[m] \in Int /\ new[m] <= t + 1
        BY <1>12, <4>2
      <4>4. new[k] = t + b + 11 /\ t + 1 <= t + b + 11
        BY <1>4, <1>11, <3>3
      <4> QED BY <1>4, <4>3, <4>4
    <3>4. CASE k # l + 2
      <4>1. m \in (g + 1)..(l + 1) /\ k \in (g + 1)..(l + 1)
        BY <1>4, <3>4
      <4>2. start[m] <= start[k]
        BY <1>3, <4>1 DEF Fits
      <4> QED BY <3>1, <4>1, <4>2
    <3> QED BY <3>2, <3>3, <3>4
  <2>4. \A k \in (Len(got') + 1)..Len(sent') :
          /\ new[k + 1] = new[k] + Len(sent'[k]) + 10
          /\ \A i \in 1..(Len(sent'[k]) + 10) : StreamAt(new[k] + i - 1)' = Stream!Part(sent'[k])[i]
    <3> SUFFICES ASSUME NEW k \in (g + 1)..(l + 1)
                 PROVE  /\ new[k + 1] = new[k] + Len(sent'[k]) + 10
                        /\ \A i \in 1..(Len(sent'[k]) + 10) :
                             StreamAt(new[k] + i - 1)' = Stream!Part(sent'[k])[i]
      BY <1>2, <1>3, <1>7
    <3>1. CASE k = l + 1
      <4>1. sent'[k] = body /\ new[k] = t + 1 /\ new[k + 1] = t + b + 11
        <5>1. k + 1 = l + 2
          BY <1>4, <3>1
        <5> QED BY <1>7, <1>11, <1>12, <3>1, <5>1
      <4>2. ASSUME NEW i \in 1..(b + 10)
            PROVE  StreamAt(new[k] + i - 1)' = Stream!Part(body)[i]
        <5>1. (t + 1) + i - 1 = t + i
          BY <1>4
        <5>2. StreamAt(t + i)' = Stream!Part(body)[i]
          BY <1>10
        <5> QED BY <4>1, <5>1, <5>2
      <4> QED BY <1>3, <1>4, <4>1, <4>2
    <3>2. CASE k # l + 1
      <4>1. /\ k \in (g + 1)..l /\ k \in 1..l /\ k \in Nat /\ k + 1 \in Nat
            /\ k # l + 2 /\ k + 1 # l + 2
        BY <1>4, <3>2
      <4>2. sent'[k] = sent[k] /\ new[k] = start[k] /\ new[k + 1] = start[k + 1]
        BY <1>7, <1>11, <4>1
      <4>3. start[k + 1] = start[k] + Len(sent[k]) + 10
        BY <1>3, <4>1 DEF Fits
      <4>4. ASSUME NEW i \in 1..(Len(sent[k]) + 10)
            PROVE  StreamAt(start[k] + i - 1)' = Stream!Part(sent[k])[i]
        <5>1. start[k] + i - 1 \in 1..t
          BY <1>3, <4>1, Within
        <5>2. StreamAt(start[k] + i - 1) = Stream!Part(sent[k])[i]
          BY <1>3, <4>1 DEF Fits
        <5> QED BY <1>10, <5>1, <5>2
      <4> QED BY <4>2, <4>3, <4>4
    <3> QED BY <3>1, <3>2
  <2> QED BY <1>11, <2>1, <2>2, <2>3, <2>4 DEF Fits
<1> QED BY <1>8, <1>13

LEMMA StreamStep == StreamInv /\ [Stream!StreamNext]_Stream!streamVars => StreamInv'
<1> SUFFICES ASSUME StreamInv, [Stream!StreamNext]_Stream!streamVars PROVE StreamInv'
  OBVIOUS
<1>1. PICK start : Fits(start)
  BY DEF StreamInv
<1>2. BytesTypeOK
  BY DEF StreamInv
<1>3. CASE Stream!extract_frame
  BY <1>1, <1>2, <1>3, ExtractKeeps DEF StreamInv
<1>4. CASE Stream!Receive
  BY <1>1, <1>2, <1>4, ReceiveKeeps DEF StreamInv
<1>5. CASE Stream!Send
  BY <1>1, <1>2, <1>5, SendKeeps DEF StreamInv
<1>6. CASE UNCHANGED Stream!streamVars
  <2>1. wire' = wire /\ buf' = buf /\ sent' = sent /\ got' = got
    BY <1>6 DEF Stream!streamVars
  <2>2. BytesTypeOK'
    BY <1>2, <2>1 DEF BytesTypeOK
  <2>3. Fits(start)'
    BY <1>1, <2>1 DEF Fits, Total, StreamAt
  <2> QED BY <2>2, <2>3 DEF StreamInv
<1> QED BY <1>3, <1>4, <1>5, <1>6 DEF Stream!StreamNext

LEMMA StreamShows == StreamInv => Stream!StreamTypeOK /\ Stream!PicturesAsSent
<1> SUFFICES ASSUME StreamInv PROVE Stream!StreamTypeOK /\ Stream!PicturesAsSent
  OBVIOUS
<1>1. PICK start : Fits(start)
  BY DEF StreamInv
<1>2. BytesTypeOK
  BY DEF StreamInv
<1>3. /\ Len(got) \in Nat /\ Len(sent) \in Nat /\ Len(got) <= Len(sent)
      /\ Len(buf) \in Nat /\ got \in Seq(Pictures) /\ sent \in Seq(Pictures)
      /\ \A i \in 1..Len(got) : got[i] = sent[i] /\ sent[i] \in Pictures
  BY <1>2 DEF BytesTypeOK
<1>4. got = SubSeq(sent, 1, Len(got))
  <2> DEFINE front == SubSeq(sent, 1, Len(got))
  <2>1. /\ front \in Seq(Pictures)
        /\ Len(front) = IF 1 <= Len(got) THEN Len(got) - 1 + 1 ELSE 0
        /\ \A i \in 1..(Len(got) - 1 + 1) : front[i] = sent[1 + i - 1]
    BY <1>3, SubSeqProperties
  <2>2. Len(front) = Len(got) /\ \A i \in 1..Len(got) : got[i] = front[i]
    BY <1>3, <2>1
  <2> HIDE DEF front
  <2>3. got = front
    BY <1>3, <2>1, <2>2, SeqEqual
  <2> QED BY <2>3 DEF front
<1>5. ASSUME wire = <<>>, ~Stream!HasPart(buf) PROVE got = sent
  <2>1. ~(Len(got) < Len(sent))
    <3>1. ASSUME Len(got) < Len(sent) PROVE FALSE
      <4>1. /\ Place(start) \in {1, 3} /\ Len(NextBody) \in Nat
            /\ Place(start) + Len(NextBody) + 9 <= Total
        BY <1>1, <1>2, <3>1, Located
      <4>2. Total = Len(buf)
        BY <1>3, <1>5 DEF Total
      <4>3. ~(Place(start) + 7 + Len(NextBody) <= Len(buf))
        BY <1>1, <1>2, <1>5, <3>1, WholePart
      <4> QED BY <1>3, <4>1, <4>2, <4>3
    <3> QED BY <3>1
  <2>2. Len(got) = Len(sent)
    BY <1>3, <2>1
  <2> QED BY <1>3, <2>2, SeqEqual
<1>6. Stream!StreamTypeOK
  BY <1>2 DEF BytesTypeOK, Stream!StreamTypeOK
<1> QED BY <1>3, <1>4, <1>5, <1>6 DEF Stream!PicturesAsSent

-----------------------------------------------------------------------------
(* The first state chooses a backend; the others stay as they begin. *)
BackendsInv ==
  /\ RemoteInv /\ PixelsInv
  /\ GPhotoInv /\ WebcamInv /\ WindowsInv /\ Camera2Inv /\ StreamInv

LEMMA BackendsBegin == Init => BackendsInv
<1> SUFFICES ASSUME Init PROVE BackendsInv
  OBVIOUS
<1>1. RegistryInv
  <2> USE DEF RegistryIsSound, OneEntryPerUrl, EntriesWereAccepted
  <2>1. CASE backend = "peers"
    BY <2>1, RegistryBegins DEF Init
  <2>2. CASE backend # "peers"
    <3> DEFINE first == [id |-> 1, url |-> u, token |-> t1]
    <3>1. Registered
      BY <2>2 DEF Init
    <3>2. first \in Peer /\ u # Self
      BY PeerAssumption, PeerIsKnown DEF Peer
    <3>3. peers = <<first>> /\ lastId = 1 /\ accepted = {<<u, t1>>}
      BY <3>1 DEF Registered
    <3>4. first.id = 1 /\ first.url = u /\ first.token = t1
      OBVIOUS
    <3> HIDE DEF first
    <3>5. /\ peers \in Seq(Peer) /\ Len(peers) = 1
          /\ \A i \in 1..Len(peers) : i = 1 /\ peers[i] = first
      BY <3>2, <3>3
    <3>6. RegistryIsSound /\ \A i \in 1..Len(peers) : peers[i].id <= lastId
      BY <3>2, <3>3, <3>4, <3>5
    <3>7. /\ lastId \in 0..MaxPeers
          /\ accepted \subseteq (Urls \cup {Self}) \X (Tokens \cup {None})
      BY <3>3, PeerAssumption, PeerIsKnown
    <3>8. /\ adding \in [Adders -> Adding \cup {Idle}]
          /\ wants \in [Urls \cup {Self} -> Tokens]
          /\ \A a \in Adders : adding[a].at # "insert"
      BY <3>1, PeerIsKnown DEF Registered, Idle
    <3> QED BY <3>5, <3>6, <3>7, <3>8 DEF RegistryInv, PeersTypeOK
  <2> QED BY <2>1, <2>2
<1>2. RemoteInv
  BY <1>1, RemoteBegins DEF Init
<1>3. PixelsInv
  BY DEF Init, PixelsInit, PixelsInv
<1>4. GPhotoInv /\ WebcamInv /\ WindowsInv /\ Camera2Inv /\ StreamInv
  BY GPhotoBegins, WebcamBegins, WindowsBegins, Camera2Begins, StreamBegins, PhoneAssumption
     DEF Init
<1> QED BY <1>2, <1>3, <1>4 DEF BackendsInv

LEMMA PixelsStep == PixelsInv /\ [PixelsNext]_pixelVars => PixelsInv'
BY DEF PixelsInv, PixelsNext, pixelVars

LEMMA BackendsStep == BackendsInv /\ [Next]_vars => BackendsInv'
<1> SUFFICES ASSUME BackendsInv, [Next]_vars PROVE BackendsInv'
  OBVIOUS
<1> DEFINE
      RemoteMoves == [RemoteNext]_remoteVars
      PixelsMove == [PixelsNext]_pixelVars
      GPhotoMoves == [GPhoto!GPhotoNext]_GPhoto!gphotoVars
      LinuxMoves == [Linux!WebcamNext]_Linux!webcamVars
      WindowsMoves == [Windows!WindowsNext]_Windows!windowsVars
      Camera2Moves == [Camera2!Camera2Next]_Camera2!camera2Vars
      StreamMoves == [Stream!StreamNext]_Stream!streamVars
<1>1. /\ RemoteMoves /\ PixelsMove /\ GPhotoMoves /\ LinuxMoves /\ WindowsMoves
      /\ Camera2Moves /\ StreamMoves
  <2> USE DEF Stream!streamVars, streamVars, GPhoto!gphotoVars, Linux!webcamVars,
      Windows!windowsVars, Camera2!camera2Vars, gphotoVars, linuxVars, windowsVars, camera2Vars
  <2>1. CASE Remotes(PeersNext /\ UNCHANGED remoteOnly)
    BY <2>1 DEF Remotes, RemoteNext
  <2>2. CASE Remotes(Calls) \/ Remotes(Polls)
    BY <2>2 DEF Remotes, Calls, Polls
  <2>3. CASE Streams(Stream!StreamNext)
    BY <2>3 DEF Streams
  <2>4. CASE TurnsOf(PixelsNext)
    BY <2>4 DEF TurnsOf
  <2>5. CASE Camera2s(Camera2!Camera2Next)
    BY <2>5 DEF Camera2s
  <2>6. CASE GPhotos(GPhoto!GPhotoNext)
    BY <2>6 DEF GPhotos
  <2>7. CASE Linuxes(Linux!WebcamNext)
    BY <2>7 DEF Linuxes
  <2>8. CASE Windowses(Windows!WindowsNext)
    BY <2>8 DEF Windowses
  <2>9. CASE UNCHANGED vars
    BY <2>9 DEF vars
  <2> QED BY <2>1, <2>2, <2>3, <2>4, <2>5, <2>6, <2>7, <2>8, <2>9 DEF Next
<1>2. RemoteInv'
  BY <1>1, RemoteStep, RemoteAssumption DEF BackendsInv
<1>3. PixelsInv'
  BY <1>1, PixelsStep DEF BackendsInv
<1>4. GPhotoInv'
  BY <1>1, GPhotoStep DEF BackendsInv
<1>5. WebcamInv'
  BY <1>1, WebcamStep DEF BackendsInv
<1>6. WindowsInv'
  BY <1>1, WindowsStep DEF BackendsInv
<1>7. Camera2Inv'
  BY <1>1, Camera2Step, PhoneAssumption DEF BackendsInv
<1>8. StreamInv'
  BY <1>1, StreamStep DEF BackendsInv
<1> QED BY <1>2, <1>3, <1>4, <1>5, <1>6, <1>7, <1>8 DEF BackendsInv

LEMMA BackendsInvariant == Spec => []BackendsInv
BY BackendsBegin, BackendsStep, PTL DEF Spec

(* Every variable of every backend keeps its type, whichever backend the first
   state chose. *)
THEOREM BackendsKeepTypes == Spec => []BackendsTypeOK
<1>1. BackendsInv => BackendsTypeOK
  BY RemoteShows, StreamShows, WebcamShows
     DEF BackendsInv, BackendsTypeOK, Camera2Inv, GPhotoInv, WindowsInv
<1> QED BY <1>1, BackendsInvariant, PTL

(* However the stream of a peer is cut into chunks, extract_frame gives the
   pictures the peer sent, whole and in their order. *)
THEOREM PicturesComeAsSent == Spec => []PicturesAsSent
<1>1. BackendsInv => PicturesAsSent
  BY StreamShows DEF BackendsInv, PicturesAsSent
<1> QED BY <1>1, BackendsInvariant, PTL

(* A photo of a phone is turned once, by its camera, by its tag or by
   rotate_jpeg, and each map of rotation.rs puts a pixel where the turn says. *)
THEOREM PicturesComeUpright == Spec => []PicturesAreUpright
<1>1. BackendsInv => PicturesAreUpright
  BY WritesTurned, GathersTurned
     DEF BackendsInv, PicturesAreUpright, Camera2Inv, PixelsInv, PixelsTurn
<1> QED BY <1>1, BackendsInvariant, PTL

(* A client is given the photo of its own shot, the settings the live view
   runs with, frames in the format the driver sends and the focus of its own
   body; a camera found dead is no longer connected. *)
THEOREM AnswersStayTrue == Spec => []AnswersAreTrue
<1>1. BackendsInv => AnswersAreTrue
  BY WebcamShows DEF BackendsInv, AnswersAreTrue, Camera2Inv, WindowsInv, GPhotoInv
<1> QED BY <1>1, BackendsInvariant, PTL

(* A live view that a photo or another format interrupted is put back or has
   failed, and with a session goes what it held: the buffers of the Linux
   driver, the converter of a DirectShow graph. *)
THEOREM LiveViewIsPutBack == Spec => []LiveViewComesBack
<1>1. BackendsInv => LiveViewComesBack
  BY WebcamShows DEF BackendsInv, LiveViewComesBack, Camera2Inv, WindowsInv
<1> QED BY <1>1, BackendsInvariant, PTL

(* The registry of peers stays sound, a connected camera is open at its peer
   and the relays of a session end with it, in the run that composes them too. *)
THEOREM RemoteStaysSound ==
  Spec => [](RegistryIsSound /\ ConnectedIsOpen /\ RelaysAreReleased)
<1>1. BackendsInv => RegistryIsSound /\ ConnectedIsOpen /\ RelaysAreReleased
  BY RemoteShows DEF BackendsInv
<1> QED BY <1>1, BackendsInvariant, PTL
=============================================================================
