------------------------------ MODULE MCControls ------------------------------
(***************************************************************************)
(* The parameter lists of the vendor backends for TLC: the first state      *)
(* chooses a backend and a body.                                           *)
(***************************************************************************)
EXTENDS Controls

VARIABLE backend

GPhoto == INSTANCE GPhotoControls
Nikon == INSTANCE NikonControls
Canon == INSTANCE CanonControls
Sony == INSTANCE SonyControls

vars == <<controlVars, backend>>

(* "Nothing" is none of the things a setting can be. *)
ASSUME NoneAssumption ==
  /\ None \notin STRING /\ None \notin BOOLEAN /\ None \notin Nat
  /\ None \notin Nat \X Nat /\ None \notin Canon!Qualities

(* A word is a string, which the prover does not know. *)
ASSUME WordAssumption ==
  /\ "fine" \in STRING /\ "On" \in STRING /\ "Off" \in STRING
  /\ \A key \in DOMAIN GPhoto!CONFIG_KEYS : GPhoto!CONFIG_KEYS[key].type \in STRING

-----------------------------------------------------------------------------
(* gphoto2: widget trees with one ISO list of each shape, one or two widgets *)
(* for automatic ISO of the same kind (the second one may be stuck), one or   *)
(* two lists of focus modes in either order, and a few other widgets.        *)
Widget(key, kind, readonly, choices) ==
  [key |-> key, kind |-> kind, readonly |-> readonly, value |-> choices[1],
   choices |-> choices]

OnOff == <<"On", "Off">>

IsoLists ==
  {<<"100", "200">>, <<"Auto", "100", "200">>, <<"100", "Auto">>, <<"100", "Hi", "Lo">>}

IsoTrees == {<<Widget("iso", "radio", FALSE, c)>> : c \in IsoLists}

AutoIsoTrees ==
  {t \o a : t \in IsoTrees, a \in UNION {
     {<<Widget("autoiso", kind, FALSE, OnOff)>>,
      <<Widget("isoauto", kind, FALSE, OnOff), Widget("autoiso", kind, FALSE, OnOff)>>,
      <<Widget("isoauto", kind, TRUE, OnOff), Widget("autoiso", kind, FALSE, OnOff)>>} :
     kind \in {"toggle", "radio"}}}

FocusList(key, c) == Widget(key, "radio", FALSE, c)

Focusing == {<<"MF", "AF-S", "AF-C">>, <<"AF-S", "AF-C">>}

OtherTrees ==
  {<<FocusList("focusmode", c), Widget("manualfocusdrive", "range", FALSE, <<"-1", "1">>)>> :
     c \in Focusing \cup {<<"MF">>}}
  \cup {<<FocusList(pair[1], c), FocusList(pair[2], d)>> :
          pair \in {<<"focusmode", "focusmode2">>, <<"focusmode2", "focusmode">>},
          c \in Focusing, d \in Focusing}
  \cup {<<Widget("imageformat", "radio", FALSE, <<"NEF", "Fine", "Basic", "NEF+Fine">>),
          Widget("shutterspeed", "radio", FALSE, <<"bulb", "1/60", "1/30">>)>>}

-----------------------------------------------------------------------------
(* Nikon: all orders of a few focus modes and of a few qualities. *)
Cap(labels, settable) == [labels |-> labels, value |-> 1, settable |-> settable]

Labels(set, n) == UNION {[1..k -> set] : k \in 1..n}

Nikons ==
  LET plain == [isoAuto |-> None, iso |-> Cap(<<"100", "200">>, TRUE),
                speed |-> Cap(<<"1/60", "Bulb", "1/30">>, TRUE), focus |-> <<>>,
                quality |-> Cap(<<>>, TRUE), window |-> <<0, 0>>, header |-> None]
      qualities == {"RAW", "Fine*", "Fine", "Basic"}
  IN  {[plain EXCEPT !.isoAuto = a] : a \in {TRUE, FALSE}}
        \cup {[plain EXCEPT !.quality = Cap(l, TRUE)] : l \in Labels(qualities, 3)}
        \cup {[plain EXCEPT !.focus = <<Cap(l, s), Cap(<<"AF-S", "MF">>, r)>>] :
                l \in Labels({"MF", "AF-S", "AF-C"}, 3) \cup {<<>>},
                s \in BOOLEAN, r \in BOOLEAN}

(* Canon: every subset of a few qualities, in one order. *)
Offer(offers) == [offers |-> offers, value |-> offers[1]]

Canons ==
  LET codes == <<Canon!Quality(TRUE, None), Canon!Quality(TRUE, "basic"),
                 Canon!Quality(FALSE, "basic"), Canon!Quality(FALSE, "fine")>>
      plain == [iso |-> Offer(<<0, 1, 2>>), speed |-> Offer(<<Canon!Bulb, 1, 2>>),
                quality |-> Offer(codes), window |-> <<0, 0>>, tells |-> TRUE]
  IN  {[plain EXCEPT !.quality = Offer(SelectSeq(codes, LAMBDA c : c \in s))] :
         s \in SUBSET ToSet(codes) \ {{}}}
        \cup {[plain EXCEPT !.iso = Offer(i)] : i \in {<<0>>, <<0, 2>>, <<1, 2>>}}
        \cup {[plain EXCEPT !.tells = FALSE]}

(* Sony: every list of up to three of the four values. *)
Sonys ==
  {[IsoP |-> [offers |-> i, value |-> i[1], writable |-> w],
    SpeedP |-> [offers |-> s, value |-> s[1], writable |-> TRUE],
    BiasP |-> [offers |-> <<3, 0, 1>>, value |-> 15, writable |-> TRUE]] :
     i \in {<<3>>, <<3, 1>>, <<2, 1, 3>>, <<0, 1>>}, s \in {<<0>>, <<0, 1>>, <<1, 2>>},
     w \in BOOLEAN}

-----------------------------------------------------------------------------
Bodies(b) ==
  CASE b = "gphoto2" -> IsoTrees \cup AutoIsoTrees \cup OtherTrees
    [] b = "nikon" -> Nikons
    [] b = "canon" -> Canons
    [] b = "sony" -> Sonys

Backends == {"gphoto2", "nikon", "canon", "sony"}

(* What the settings of a body may be at all. *)
BodyOK ==
  CASE backend = "gphoto2" -> GPhoto!TreeOK(body)
    [] backend = "nikon" -> Nikon!BodyOK
    [] backend = "canon" -> Canon!BodyOK
    [] backend = "sony" -> Sony!BodyOK

Init ==
  /\ backend \in Backends
  /\ body \in Bodies(backend)
  /\ BodyOK
  /\ changed = None

Next ==
  /\ \/ backend = "gphoto2" /\ GPhoto!GPhotoControlsNext
     \/ backend = "nikon" /\ Nikon!NikonControlsNext
     \/ backend = "canon" /\ Canon!CanonControlsNext
     \/ backend = "sony" /\ Sony!SonyControlsNext
  /\ UNCHANGED backend

Spec == Init /\ [][Next]_vars

(* What a client is shown. *)
Listed ==
  CASE backend = "gphoto2" -> {t.control : t \in GPhoto!get_parameters}
    [] backend = "nikon" -> Nikon!get_parameters_impl
    [] backend = "canon" -> Canon!get_parameters_impl
    [] backend = "sony" -> Sony!get_parameters_impl

Positions == {"LiveViewPan", "LiveViewTilt"}

-----------------------------------------------------------------------------

(* A body keeps to what it offers: whatever is written, its settings are      *)
(* again some that a body may have.                                         *)
ControlsTypeOK == backend \in Backends /\ BodyOK

(* The types that gphoto2 makes up of two widgets. *)
Torn == IF backend = "gphoto2" THEN GPhoto!Torn ELSE {}

(* What came of a write that was accepted is what the client is shown next:   *)
(* the value it set, on gphoto2, Nikon and Canon; on Sony that value if the   *)
(* body took it within the wait of the call, else what the body is at, for    *)
(* the call says that it went well in both cases.  The position of a live     *)
(* view is shown by the next frame.                                         *)
SetIsSeen ==
  changed # None /\ changed.type \notin Positions \cup {"Shot", "Connected"} \cup Torn =>
    \E t \in Listed : t.type = changed.type /\ t.current = changed.value

(* No type is listed twice; the list that a toggle rules is shut exactly     *)
(* while that says so; what an open control shows is one of its options,     *)
(* unless the body is at one that is kept from clients; and an open control  *)
(* of gphoto2 and Sony is a choice between two things at least.             *)
ListIsSound ==
  /\ \A t, u \in Listed : t.type = u.type => t = u
  /\ \A t, u \in Listed :
       \/ t.type = "IsoAuto" /\ t.current /\ u.type = "Iso"
       \/ t.type = "FocusAuto" /\ ~t.current /\ u.type = "FocusMode" /\ t.type \notin Torn
       => u.disabled
  /\ \A t \in Listed :
       t.disabled \/ t.current \in t.options \/ t.type \in {"ShutterSpeed", "ImageQuality"}
  /\ backend \in {"gphoto2", "sony"} =>
       \A t \in Listed : t.disabled \/ Cardinality(t.options) >= 2

(* gphoto2: a write lands on the widget that the client looks at, unless the  *)
(* control is made up of two.                                               *)
WriteLandsOnShown == [][backend = "gphoto2" => GPhoto!WriteLandsOnShown]_vars

(* A photo has the quality that was asked for.  Nikon: the one that is       *)
(* listed.  Canon: a connected body shoots JPEG alone, if it can.          *)
QualityIsKept ==
  [][/\ backend = "nikon" => Nikon!ShownIsShot
     /\ backend = "canon" => Canon!ForcedToJpeg]_vars

(* Moving the magnified window along one axis leaves the other alone. *)
OneAxisMoves ==
  [][changed' # None =>
       /\ changed'.type = "LiveViewPan" => body'.window[2] = body.window[2]
       /\ changed'.type = "LiveViewTilt" => body'.window[1] = body.window[1]]_vars

=============================================================================
