--------------------------- MODULE GPhotoControls ---------------------------
(***************************************************************************)
(* The parameters of a libgphoto2 body.  The body is a tree of widgets      *)
(* under names of the driver's choosing; get_parameters makes one list of  *)
(* typed controls of them, and set_parameter has to find the way back.     *)
(* Labels are members of a small set that the classifications tell apart.  *)
(***************************************************************************)
EXTENDS Controls

(* body = the widgets, in the order of the tree. *)
Kinds == {"radio", "toggle", "range"}
Widget ==
  [key : STRING, kind : Kinds, readonly : BOOLEAN, value : STRING, choices : Seq(STRING)]

(* The names a type is known by, each with its place in the table: of two    *)
(* names of a type the earlier one is preferred.  They stand for all names.  *)
CONFIG_KEYS ==
  [iso |-> [place |-> 1, type |-> "Iso"],
   autoiso |-> [place |-> 2, type |-> "IsoAuto"],
   isoauto |-> [place |-> 3, type |-> "IsoAuto"],
   shutterspeed |-> [place |-> 4, type |-> "ShutterSpeed"],
   imageformat |-> [place |-> 5, type |-> "ImageQuality"],
   focusmode |-> [place |-> 6, type |-> "FocusMode"],
   focusmode2 |-> [place |-> 7, type |-> "FocusMode"],
   manualfocusdrive |-> [place |-> 8, type |-> "Focus"]]

Unnamed == 9  \* the rank of a control that has no name of its own

Concrete == {"100", "200"}          \* plain integers
JpegFormats == {"Fine", "Basic"}
Speeds == {"1/60", "1/30"}
ManualModes == {"MF"}

param_type_for(key) ==
  IF key \in DOMAIN CONFIG_KEYS THEN CONFIG_KEYS[key].type ELSE None

(* The widget of the kind under the preferred name of the type: its place in *)
(* the tree, or 0.  Read-only widgets are not skipped.                      *)
widget_for(type, kind) ==
  LET named == {i \in DOMAIN body : param_type_for(body[i].key) = type /\ body[i].kind = kind}
      place(i) == CONFIG_KEYS[body[i].key].place
  IN  IF named = {} THEN 0
      ELSE CHOOSE i \in named : \A j \in named : place(i) <= place(j)

on_off_choice(choices, on) ==
  IF ToSet(choices) = {"On", "Off"} THEN IF on THEN "On" ELSE "Off" ELSE None

(* The one choice that is no number, if there is exactly one. *)
auto_iso_choice(choices) ==
  LET odd == {i \in DOMAIN choices : choices[i] \notin Concrete}
  IN  IF \E i \in odd : odd = {i} THEN choices[CHOOSE i \in odd : TRUE] ELSE None

(* What a driver makes of a body: no name twice; the widgets of a type are of *)
(* one kind, ISO and focus modes lists that are no switch; a switch has two  *)
(* positions and a range two ends; of two lists of focus modes, each has one *)
(* that focuses.                                                            *)
TreeOK(tree) ==
  /\ tree \in Seq(Widget)
  /\ \A i, j \in DOMAIN tree : tree[i].key = tree[j].key => i = j
  /\ \A i, j \in DOMAIN tree :
       LET type == param_type_for(tree[i].key)
       IN  type = param_type_for(tree[j].key) /\ type # None =>
             /\ tree[i].kind = tree[j].kind
             /\ type = "FocusMode" /\ i # j => ~ ToSet(tree[i].choices) \subseteq ManualModes
  /\ \A i \in DOMAIN tree :
       LET w == tree[i]
           type == param_type_for(w.key)
       IN  /\ w.value \in ToSet(w.choices)
           /\ w.kind = "toggle" => ToSet(w.choices) = {"On", "Off"}
           /\ w.kind = "range" => Cardinality(ToSet(w.choices)) >= 2
           /\ type \in {"Iso", "FocusMode"} =>
                w.kind = "radio" /\ on_off_choice(w.choices, TRUE) = None
           /\ type = "IsoAuto" => w.kind # "range"

-----------------------------------------------------------------------------
(* Reading. *)

IsoControls(w) ==
  LET auto == auto_iso_choice(w.choices)
      options == ToSet(w.choices) \ {auto}
      on == auto # None /\ w.value = auto
  IN  IF options = {} THEN {}
      ELSE {Control("Iso", IF on THEN FirstOf(w.choices, options) ELSE w.value, options, on)}
             \cup IF auto = None THEN {} ELSE {Toggle("IsoAuto", on, FALSE)}

FocusControls(w) ==
  LET auto == w.value \notin ManualModes
      options == ToSet(w.choices) \ ManualModes
  IN  {Toggle("FocusAuto", auto, FALSE)}
        \cup IF options = {} THEN {}
             ELSE {Control("FocusMode", IF auto THEN w.value ELSE FirstOf(w.choices, options),
                           options, ~auto)}

(* What a choice list offers of a type: bulb, and formats that are not JPEG *)
(* alone, are kept from the client.                                        *)
Offered(type, choices) ==
  CASE type = "ShutterSpeed" -> ToSet(choices) \cap Speeds
    [] type = "ImageQuality" -> ToSet(choices) \cap JpegFormats
    [] OTHER -> ToSet(choices)

walk_leaf(w) ==
  LET type == param_type_for(w.key)
      pair == on_off_choice(w.choices, TRUE) # None
      switch == w.kind = "toggle" \/ (w.kind = "radio" /\ pair)
      list == w.kind = "radio" /\ ~pair
  IN  IF w.readonly \/ type = None THEN {}
      ELSE CASE switch -> {Toggle(type, w.value = "On", FALSE)}
             [] w.kind = "range" -> {Control(type, w.value, ToSet(w.choices), FALSE)}
             [] list /\ type = "Iso" -> IsoControls(w)
             [] list /\ type = "FocusMode" -> FocusControls(w)
             [] OTHER -> {Control(type, w.value, Offered(type, w.choices), FALSE)}

(* Every control, tagged with the name and the place of its widget.  Those of *)
(* one widget differ in type.                                               *)
walk_widget ==
  UNION {{[key |-> body[i].key, place |-> i, control |-> c] : c \in walk_leaf(body[i])} :
           i \in DOMAIN body}

(* Mutant: all names of a type are worth the same. *)
RankOfTree(tagged) == IF param_type_for(tagged.key) # tagged.control.type THEN Unnamed ELSE 1

(* A control that was made up of a widget of another type comes last. *)
rank(tagged) ==
  IF param_type_for(tagged.key) # tagged.control.type THEN Unnamed
  ELSE CONFIG_KEYS[tagged.key].place

(* One control of each type: the best ranked, the first of those. *)
dedup_by_type(tagged) ==
  LET beats(u, t) == /\ u.control.type = t.control.type
                     /\ \/ rank(u) < rank(t)
                        \/ rank(u) = rank(t) /\ u.place < t.place
  IN  {t \in tagged : ~\E u \in tagged : beats(u, t)}

(* Mutant: only the automatic entry of the list itself shuts it. *)
Unreconciled(tagged) == tagged

(* The ISO list is shut while automatic ISO is on, wherever that is kept. *)
reconcile_iso_auto(tagged) ==
  IF \E t \in tagged : t.control.type = "IsoAuto" /\ t.control.current
  THEN {IF t.control.type = "Iso" THEN [t EXCEPT !.control.disabled = TRUE] ELSE t :
          t \in tagged}
  ELSE tagged

(* A list with less than two options is no choice. *)
get_parameters ==
  {t \in reconcile_iso_auto(dedup_by_type(walk_widget)) :
     Cardinality(t.control.options) >= 2}

-----------------------------------------------------------------------------
(* Writing. *)

Writes(type, shown, i, value) ==
  /\ i # 0
  /\ value # None
  /\ ~body[i].readonly
  /\ body' = [body EXCEPT ![i].value = value]
  /\ Accepts(type, shown)

OnOff(on) == IF on THEN "On" ELSE "Off"

(* A toggle, an on/off list, or an entry of the ISO list, in this order. *)
set_iso_auto(on) ==
  LET toggle == widget_for("IsoAuto", "toggle")
      radio == widget_for("IsoAuto", "radio")
      iso == widget_for("Iso", "radio")
      choices == body[iso].choices
  IN  IF toggle # 0 THEN Writes("IsoAuto", on, toggle, OnOff(on))
      ELSE IF radio # 0
      THEN Writes("IsoAuto", on, radio, on_off_choice(body[radio].choices, on))
      ELSE /\ iso # 0
           /\ Writes("IsoAuto", on, iso,
                     IF on THEN auto_iso_choice(choices) ELSE FirstOf(choices, Concrete))

set_focus_auto(on) ==
  LET i == widget_for("FocusMode", "radio")
      modes == ToSet(body[i].choices)
  IN  /\ i # 0
      /\ Writes("FocusAuto", on, i,
                FirstOf(body[i].choices, IF on THEN modes \ ManualModes ELSE ManualModes))

(* Any other control: a list first, then a range, then a toggle. *)
set_widget(type, value) ==
  LET radio == widget_for(type, "radio")
      range == widget_for(type, "range")
      toggle == widget_for(type, "toggle")
      pair == on_off_choice(body[radio].choices, value = TRUE)
  IN  CASE radio # 0 -> Writes(type, value, radio, IF pair = None THEN value ELSE pair)
        [] radio = 0 /\ range # 0 -> Writes(type, value, range, value)
        [] OTHER -> Writes(type, value, toggle, OnOff(value))

set_parameter(type, value) ==
  CASE type = "IsoAuto" -> set_iso_auto(value)
    [] type = "FocusAuto" -> set_focus_auto(value)
    [] OTHER -> set_widget(type, value)

(* A client sets a control as it is listed; the body may refuse. *)
SetListed ==
  \E t \in get_parameters :
    \/ /\ ~t.control.disabled
       /\ \E value \in t.control.options : set_parameter(t.control.type, value)
    \/ Refuses

(* The owner turns a dial of the body. *)
Dial ==
  /\ \E i \in DOMAIN body : \E value \in ToSet(body[i].choices) :
       body' = [body EXCEPT ![i].value = value]
  /\ changed' = None

GPhotoControlsNext == SetListed \/ Dial

-----------------------------------------------------------------------------
(* The types made up of two widgets: no name says which to show, so the first *)
(* in the tree is shown, and the preferred one is written.                  *)
Torn ==
  {t.control.type : t \in
     {t \in walk_widget : \E u \in walk_widget \ {t} :
        u.control.type = t.control.type /\ rank(u) = Unnamed /\ rank(t) = Unnamed}}

Lands(type) ==
  changed' # None /\ changed'.type = type =>
    \A t \in get_parameters, i \in DOMAIN body :
      t.control.type = type /\ body[i] # body'[i] => body[i].key = t.key

(* A write lands on the widget that the client is looking at. *)
WriteLandsOnShown == \A t \in get_parameters : t.control.type \notin Torn => Lands(t.control.type)

=============================================================================
