---------------------------- MODULE ControlsProofs ----------------------------
(***************************************************************************)
(* The parameter lists of the vendor backends, for every body: every tree   *)
(* of widgets, every list of labels, codes or values that the SDK reports.   *)
(* For each backend, its list is first said control by control (what is in   *)
(* it, and the fields of each), then what a write does to it.               *)
(***************************************************************************)
EXTENDS MCControls, FiniteSetTheorems, WellFoundedInduction, SequenceTheorems, TLAPS

-----------------------------------------------------------------------------
(* The first of some choices. *)
LEMMA MinIsLeast ==
    ASSUME NEW S, S # {}, \A x \in S : x \in Nat
    PROVE  Min(S) \in S /\ \A x \in S : Min(S) <= x
<1> DEFINE Below(n) == {m \in S : n > m}
           Sets == {Below(n) : n \in S}
           R == StrictSubsetOrdering(S)
<1>1. IsWellFoundedOn(R, FiniteSubsetsOf(S))
  BY FS_StrictSubsetOrderingWellFounded
<1>2. \A n \in S : Below(n) \in SUBSET S /\ IsFiniteSet(Below(n))
  <2> TAKE n \in S
  <2>1. n \in Nat /\ \A x \in S : x \in Nat
    OBVIOUS
  <2>2. Below(n) \in SUBSET Nat
    BY <2>1
  <2>3. \A x \in Below(n) : x <= n
    BY <2>1
  <2>4. IsFiniteSet(Below(n))
    <3> HIDE DEF Below
    <3> QED  BY <2>1, <2>2, <2>3, FS_BoundedSetOfNaturals
  <2> QED  BY <2>4
<1>3. Sets \subseteq FiniteSubsetsOf(S) /\ Sets # {}
  BY <1>2 DEF FiniteSubsetsOf
<1>4. PICK T \in Sets : \A U \in Sets : <<U, T>> \notin R
  <2> HIDE DEF Sets, R
  <2> QED  BY <1>1, <1>3, WFMin
<1>5. PICK n \in S : T = Below(n)
  OBVIOUS
<1>6. \A x \in S : n <= x
  <2> SUFFICES ASSUME NEW x \in S, x < n  PROVE FALSE
    OBVIOUS
  <2>1. n \in Nat /\ x \in Nat /\ \A y \in S : y \in Nat
    OBVIOUS
  <2>2. \A y \in Below(x) : y \in T
    BY <1>5, <2>1
  <2>3. x \in T /\ x \notin Below(x)
    BY <1>5, <2>1
  <2>4. <<Below(x), T>> \in R
    BY <1>2, <1>5, <2>2, <2>3 DEF StrictSubsetOrdering
  <2> QED  BY <1>4, <2>4
<1> QED  BY <1>6 DEF Min

LEMMA FirstOfIsChosen ==
    ASSUME NEW T, NEW choices \in Seq(T), NEW set
    PROVE  \/ FirstOf(choices, set) = None /\ ToSet(choices) \cap set = {}
           \/ FirstOf(choices, set) \in ToSet(choices) \cap set
<1> DEFINE hits == {i \in DOMAIN choices : choices[i] \in set}
<1>1. \A i \in hits : i \in Nat
  OBVIOUS
<1>2. CASE hits = {}
  BY <1>2 DEF FirstOf, ToSet
<1>3. CASE hits # {}
  <2>1. Min(hits) \in hits
    <3> HIDE DEF hits
    <3> QED  BY <1>1, <1>3, MinIsLeast
  <2> QED  BY <1>3, <2>1 DEF FirstOf, ToSet
<1> QED  BY <1>2, <1>3

-----------------------------------------------------------------------------
(* gphoto2. *)
LEMMA GPhotoToSet == \A s : GPhoto!ToSet(s) = ToSet(s)
  BY DEF GPhoto!ToSet, ToSet

LEMMA GPhotoFirstOf ==
    ASSUME NEW T, NEW choices \in Seq(T), NEW set
    PROVE  \/ GPhoto!FirstOf(choices, set) = None /\ ToSet(choices) \cap set = {}
           \/ GPhoto!FirstOf(choices, set) \in ToSet(choices) \cap set
<1>1. GPhoto!FirstOf(choices, set) = FirstOf(choices, set)
  BY DEF GPhoto!FirstOf, FirstOf, GPhoto!Min, Min
<1> QED  BY <1>1, FirstOfIsChosen

TypeFor(i) == GPhoto!param_type_for(body[i].key)
Place(key) == GPhoto!CONFIG_KEYS[key].place

(* The names that a type is known by are each at a place of its own. *)
LEMMA KeyTable ==
    /\ \A k : GPhoto!param_type_for(k) # None <=> k \in DOMAIN GPhoto!CONFIG_KEYS
    /\ \A k \in DOMAIN GPhoto!CONFIG_KEYS :
         /\ Place(k) \in 1..8
         /\ GPhoto!param_type_for(k) = "Iso" => k = "iso"
         /\ GPhoto!param_type_for(k) # "FocusAuto"
         /\ GPhoto!param_type_for(k) \notin Positions \cup {"Shot", "Connected"}
    /\ \A k, l \in DOMAIN GPhoto!CONFIG_KEYS : Place(k) = Place(l) => k = l
<1>1. DOMAIN GPhoto!CONFIG_KEYS =
        {"iso", "autoiso", "isoauto", "shutterspeed", "imageformat", "focusmode",
         "focusmode2", "manualfocusdrive"}
  BY DEF GPhoto!CONFIG_KEYS
<1>2. /\ Place("iso") = 1 /\ Place("autoiso") = 2 /\ Place("isoauto") = 3
      /\ Place("shutterspeed") = 4 /\ Place("imageformat") = 5 /\ Place("focusmode") = 6
      /\ Place("focusmode2") = 7 /\ Place("manualfocusdrive") = 8
  BY DEF GPhoto!CONFIG_KEYS, Place
<1>3. \A k \in DOMAIN GPhoto!CONFIG_KEYS :
        GPhoto!param_type_for(k) = GPhoto!CONFIG_KEYS[k].type
  BY DEF GPhoto!param_type_for
<1>4. \A k \in DOMAIN GPhoto!CONFIG_KEYS : GPhoto!CONFIG_KEYS[k].type # None
  BY WordAssumption, NoneAssumption
<1>5. \A k \in DOMAIN GPhoto!CONFIG_KEYS :
         /\ GPhoto!CONFIG_KEYS[k].type = "Iso" => k = "iso"
         /\ GPhoto!CONFIG_KEYS[k].type # "FocusAuto"
         /\ GPhoto!CONFIG_KEYS[k].type \notin Positions \cup {"Shot", "Connected"}
  BY <1>1 DEF GPhoto!CONFIG_KEYS, Positions
<1>6. \A k \in DOMAIN GPhoto!CONFIG_KEYS : Place(k) \in 1..8
  BY <1>1, <1>2
<1>7. \A k, l \in DOMAIN GPhoto!CONFIG_KEYS : Place(k) = Place(l) => k = l
  BY <1>1, <1>2
<1>8. \A k : GPhoto!param_type_for(k) # None <=> k \in DOMAIN GPhoto!CONFIG_KEYS
  BY <1>3, <1>4 DEF GPhoto!param_type_for
<1> QED  BY <1>3, <1>5, <1>6, <1>7, <1>8

(* The parts of a widget. *)
Named(w) == GPhoto!param_type_for(w.key)
Switch(w) == ToSet(w.choices) = {"On", "Off"}
IsOn(w) == w.value = "On"
AutoOf(w) == GPhoto!auto_iso_choice(w.choices)
IsoOptions(w) == ToSet(w.choices) \ {AutoOf(w)}
IsoIsOn(w) == AutoOf(w) # None /\ w.value = AutoOf(w)
FocusOptions(w) == ToSet(w.choices) \ GPhoto!ManualModes
FocusIsAuto(w) == w.value \notin GPhoto!ManualModes
FocusIsShut(w) == ~FocusIsAuto(w)

GSwitch(w) == GPhoto!Toggle(Named(w), IsOn(w), FALSE)
GRange(w) == GPhoto!Control(Named(w), w.value, ToSet(w.choices), FALSE)
GList(w) == GPhoto!Control(Named(w), w.value, GPhoto!Offered(Named(w), w.choices), FALSE)
GIso(w) ==
  GPhoto!Control("Iso", IF IsoIsOn(w) THEN GPhoto!FirstOf(w.choices, IsoOptions(w)) ELSE w.value,
                 IsoOptions(w), IsoIsOn(w))
GIsoAuto(w) == GPhoto!Toggle("IsoAuto", IsoIsOn(w), FALSE)
GFocusAuto(w) == GPhoto!Toggle("FocusAuto", FocusIsAuto(w), FALSE)
GFocusMode(w) ==
  GPhoto!Control("FocusMode",
                 IF FocusIsAuto(w) THEN w.value ELSE GPhoto!FirstOf(w.choices, FocusOptions(w)),
                 FocusOptions(w), FocusIsShut(w))

IsA(c, type) ==
  c.type = type /\ DOMAIN c = {"type", "current", "options", "disabled"}

LEMMA GPhotoParts ==
    ASSUME NEW w
    PROVE  /\ /\ IsA(GSwitch(w), Named(w)) /\ GSwitch(w).current = IsOn(w)
              /\ GSwitch(w).options = {TRUE, FALSE} /\ GSwitch(w).disabled = FALSE
           /\ /\ IsA(GRange(w), Named(w)) /\ GRange(w).current = w.value
              /\ GRange(w).options = ToSet(w.choices) /\ GRange(w).disabled = FALSE
           /\ /\ IsA(GList(w), Named(w)) /\ GList(w).current = w.value
              /\ GList(w).options = GPhoto!Offered(Named(w), w.choices)
              /\ GList(w).disabled = FALSE
           /\ /\ IsA(GIso(w), "Iso") /\ (~IsoIsOn(w) => GIso(w).current = w.value)
              /\ GIso(w).options = IsoOptions(w) /\ GIso(w).disabled = IsoIsOn(w)
           /\ /\ IsA(GIsoAuto(w), "IsoAuto") /\ GIsoAuto(w).current = IsoIsOn(w)
              /\ GIsoAuto(w).options = {TRUE, FALSE} /\ GIsoAuto(w).disabled = FALSE
           /\ /\ IsA(GFocusAuto(w), "FocusAuto") /\ GFocusAuto(w).current = FocusIsAuto(w)
              /\ GFocusAuto(w).options = {TRUE, FALSE} /\ GFocusAuto(w).disabled = FALSE
           /\ /\ IsA(GFocusMode(w), "FocusMode")
              /\ FocusIsAuto(w) => GFocusMode(w).current = w.value
              /\ GFocusMode(w).options = FocusOptions(w)
              /\ GFocusMode(w).disabled = FocusIsShut(w)
<1>1. /\ IsA(GSwitch(w), Named(w)) /\ GSwitch(w).current = IsOn(w)
      /\ GSwitch(w).options = {TRUE, FALSE} /\ GSwitch(w).disabled = FALSE
  BY DEF IsA, GSwitch, GPhoto!Toggle, GPhoto!Control
<1>2. /\ IsA(GRange(w), Named(w)) /\ GRange(w).current = w.value
      /\ GRange(w).options = ToSet(w.choices) /\ GRange(w).disabled = FALSE
  BY DEF IsA, GRange, GPhoto!Control
<1>3. /\ IsA(GList(w), Named(w)) /\ GList(w).current = w.value
      /\ GList(w).options = GPhoto!Offered(Named(w), w.choices)
      /\ GList(w).disabled = FALSE
  BY DEF IsA, GList, GPhoto!Control
<1>4. /\ IsA(GIso(w), "Iso") /\ (~IsoIsOn(w) => GIso(w).current = w.value)
      /\ GIso(w).options = IsoOptions(w) /\ GIso(w).disabled = IsoIsOn(w)
  BY DEF IsA, GIso, GPhoto!Control
<1>5. /\ IsA(GIsoAuto(w), "IsoAuto") /\ GIsoAuto(w).current = IsoIsOn(w)
      /\ GIsoAuto(w).options = {TRUE, FALSE} /\ GIsoAuto(w).disabled = FALSE
  BY DEF IsA, GIsoAuto, GPhoto!Toggle, GPhoto!Control
<1>6. /\ IsA(GFocusAuto(w), "FocusAuto") /\ GFocusAuto(w).current = FocusIsAuto(w)
      /\ GFocusAuto(w).options = {TRUE, FALSE} /\ GFocusAuto(w).disabled = FALSE
  BY DEF IsA, GFocusAuto, GPhoto!Toggle, GPhoto!Control
<1>7. /\ IsA(GFocusMode(w), "FocusMode")
      /\ FocusIsAuto(w) => GFocusMode(w).current = w.value
      /\ GFocusMode(w).options = FocusOptions(w)
      /\ GFocusMode(w).disabled = FocusIsShut(w)
  BY DEF IsA, GFocusMode, GPhoto!Control
<1> QED  BY <1>1, <1>2, <1>3, <1>4, <1>5, <1>6, <1>7

(* What a driver makes of one widget, and what comes of it. *)
WidgetOK(w) ==
  /\ w \in GPhoto!Widget
  /\ w.value \in ToSet(w.choices)
  /\ w.kind = "toggle" => Switch(w)
  /\ w.kind = "range" => GPhoto!Cardinality(ToSet(w.choices)) >= 2
  /\ Named(w) \in {"Iso", "FocusMode"} => w.kind = "radio" /\ ~Switch(w)
  /\ Named(w) = "IsoAuto" => w.kind # "range"

LeafOf(w, c) ==
  /\ ~w.readonly /\ Named(w) # None
  /\ \/ c = GSwitch(w) /\ (w.kind = "toggle" \/ (w.kind = "radio" /\ Switch(w)))
     \/ c = GRange(w) /\ w.kind = "range"
     \/ /\ c = GIso(w) \/ (c = GIsoAuto(w) /\ AutoOf(w) # None)
        /\ Named(w) = "Iso" /\ IsoOptions(w) # {}
     \/ /\ c = GFocusAuto(w) \/ (c = GFocusMode(w) /\ FocusOptions(w) # {})
        /\ Named(w) = "FocusMode"
     \/ /\ c = GList(w) /\ w.kind = "radio" /\ ~Switch(w)
        /\ Named(w) \notin {"Iso", "FocusMode"}

LEMMA OnOffChoice ==
    ASSUME NEW choices, NEW on
    PROVE  /\ GPhoto!on_off_choice(choices, on) # None <=> ToSet(choices) = {"On", "Off"}
           /\ ToSet(choices) = {"On", "Off"} =>
                GPhoto!on_off_choice(choices, on) = IF on THEN "On" ELSE "Off"
<1>1. "On" # None /\ "Off" # None
  BY WordAssumption, NoneAssumption
<1> QED  BY <1>1, GPhotoToSet DEF GPhoto!on_off_choice

LEMMA Leaves ==
    ASSUME NEW w, WidgetOK(w), NEW c
    PROVE  c \in GPhoto!walk_leaf(w) <=> LeafOf(w, c)
<1>1. GPhoto!on_off_choice(w.choices, TRUE) # None <=> Switch(w)
  BY OnOffChoice DEF Switch
<1>2. c \in GPhoto!IsoControls(w) <=>
        IsoOptions(w) # {} /\ (c = GIso(w) \/ (c = GIsoAuto(w) /\ AutoOf(w) # None))
  <2>1. GPhoto!IsoControls(w) =
          IF IsoOptions(w) = {} THEN {}
          ELSE {GIso(w)} \cup IF AutoOf(w) = None THEN {} ELSE {GIsoAuto(w)}
    BY GPhotoToSet DEF GPhoto!IsoControls, IsoOptions, AutoOf, GIso, GIsoAuto, IsoIsOn
  <2> QED  BY <2>1
<1>3. c \in GPhoto!FocusControls(w) <=>
        c = GFocusAuto(w) \/ (c = GFocusMode(w) /\ FocusOptions(w) # {})
  <2>1. GPhoto!FocusControls(w) =
          {GFocusAuto(w)} \cup IF FocusOptions(w) = {} THEN {} ELSE {GFocusMode(w)}
    BY GPhotoToSet DEF GPhoto!FocusControls, FocusOptions, GFocusAuto, GFocusMode, FocusIsAuto,
                    FocusIsShut
  <2> QED  BY <2>1
<1>4. w.kind \in {"radio", "toggle", "range"}
  BY DEF WidgetOK, GPhoto!Widget, GPhoto!Kinds
<1> DEFINE switch == w.kind = "toggle" \/ (w.kind = "radio" /\ Switch(w))
           list == w.kind = "radio" /\ ~Switch(w)
           leaves == CASE switch -> {GSwitch(w)}
                       [] w.kind = "range" -> {GRange(w)}
                       [] list /\ Named(w) = "Iso" -> GPhoto!IsoControls(w)
                       [] list /\ Named(w) = "FocusMode" -> GPhoto!FocusControls(w)
                       [] OTHER -> {GList(w)}
<1>5. GPhoto!walk_leaf(w) = IF w.readonly \/ Named(w) = None THEN {} ELSE leaves
  <2>1. ToSet(w.choices) = GPhoto!ToSet(w.choices)
    BY GPhotoToSet
  <2>2. (GPhoto!on_off_choice(w.choices, TRUE) # None) = Switch(w)
    BY <1>1 DEF Switch
  <2> QED  BY <2>1, <2>2, Zenon DEF GPhoto!walk_leaf, Named, GSwitch, GRange, GList, IsOn
<1>6. CASE switch
  <2>1. leaves = {GSwitch(w)}
    BY <1>6
  <2> QED  BY <1>5, <1>6, <2>1 DEF LeafOf, WidgetOK
<1>7. CASE w.kind = "range"
  <2>1. leaves = {GRange(w)}
    BY <1>7
  <2> QED  BY <1>5, <1>7, <2>1 DEF LeafOf, WidgetOK
<1>8. CASE list /\ Named(w) = "Iso"
  <2>1. leaves = GPhoto!IsoControls(w)
    BY <1>8
  <2> QED  BY <1>2, <1>5, <1>8, <2>1 DEF LeafOf
<1>9. CASE list /\ Named(w) = "FocusMode"
  <2>1. leaves = GPhoto!FocusControls(w)
    BY <1>9
  <2> QED  BY <1>3, <1>5, <1>9, <2>1 DEF LeafOf
<1>10. CASE list /\ Named(w) \notin {"Iso", "FocusMode"}
  <2>1. leaves = {GList(w)}
    BY <1>10
  <2> QED  BY <1>5, <1>10, <2>1 DEF LeafOf
<1> QED  BY <1>4, <1>6, <1>7, <1>8, <1>9, <1>10

Agree(tree, i, j) ==
  Named(tree[i]) = Named(tree[j]) /\ Named(tree[i]) # None =>
    /\ tree[i].kind = tree[j].kind
    /\ Named(tree[i]) = "FocusMode" /\ i # j => FocusOptions(tree[i]) # {}

TreeIs(tree) ==
  /\ tree \in Seq(GPhoto!Widget)
  /\ \A i, j \in DOMAIN tree : tree[i].key = tree[j].key => i = j
  /\ \A i, j \in DOMAIN tree : Agree(tree, i, j)
  /\ \A i \in DOMAIN tree : WidgetOK(tree[i])

LEMMA Trees ==
    ASSUME NEW tree
    PROVE  GPhoto!TreeOK(tree) <=> TreeIs(tree)
<1> SUFFICES ASSUME tree \in Seq(GPhoto!Widget)
             PROVE  GPhoto!TreeOK(tree) <=> TreeIs(tree)
  BY DEF GPhoto!TreeOK, TreeIs
<1>1. ASSUME NEW i \in DOMAIN tree, NEW j \in DOMAIN tree
      PROVE  LET type == GPhoto!param_type_for(tree[i].key)
             IN  (type = GPhoto!param_type_for(tree[j].key) /\ type # None =>
                   /\ tree[i].kind = tree[j].kind
                   /\ type = "FocusMode" /\ i # j =>
                        ~ GPhoto!ToSet(tree[i].choices) \subseteq GPhoto!ManualModes)
                 <=> Agree(tree, i, j)
  <2>1. ~ GPhoto!ToSet(tree[i].choices) \subseteq GPhoto!ManualModes <=> FocusOptions(tree[i]) # {}
    BY GPhotoToSet DEF FocusOptions
  <2> QED  BY <2>1 DEF Agree, Named
<1>2. ASSUME NEW i \in DOMAIN tree
      PROVE  LET w == tree[i]
                 type == GPhoto!param_type_for(w.key)
             IN  (/\ w.value \in GPhoto!ToSet(w.choices)
                  /\ w.kind = "toggle" => GPhoto!ToSet(w.choices) = {"On", "Off"}
                  /\ w.kind = "range" => GPhoto!Cardinality(GPhoto!ToSet(w.choices)) >= 2
                  /\ type \in {"Iso", "FocusMode"} =>
                       w.kind = "radio" /\ GPhoto!on_off_choice(w.choices, TRUE) = None
                  /\ type = "IsoAuto" => w.kind # "range")
                 <=> WidgetOK(w)
  <2>1. GPhoto!ToSet(tree[i].choices) = ToSet(tree[i].choices)
    BY GPhotoToSet
  <2>2. GPhoto!on_off_choice(tree[i].choices, TRUE) = None <=> ~Switch(tree[i])
    BY OnOffChoice DEF Switch
  <2>3. tree[i] \in GPhoto!Widget
    OBVIOUS
  <2> QED  BY <2>1, <2>2, <2>3 DEF WidgetOK, Named, Switch
<1> QED  BY <1>1, <1>2 DEF GPhoto!TreeOK, TreeIs

LEMMA GPhotoTypes ==
    ASSUME NEW w
    PROVE  /\ GSwitch(w).type = Named(w) /\ GRange(w).type = Named(w) /\ GList(w).type = Named(w)
           /\ GIso(w).type = "Iso" /\ GIsoAuto(w).type = "IsoAuto"
           /\ GFocusAuto(w).type = "FocusAuto" /\ GFocusMode(w).type = "FocusMode"
  BY GPhotoParts DEF IsA

LEMMA GPhotoOptions ==
    ASSUME NEW w
    PROVE  /\ GSwitch(w).options = {TRUE, FALSE} /\ GRange(w).options = ToSet(w.choices)
           /\ GList(w).options = GPhoto!Offered(Named(w), w.choices)
           /\ GIso(w).options = IsoOptions(w) /\ GIsoAuto(w).options = {TRUE, FALSE}
           /\ GFocusAuto(w).options = {TRUE, FALSE} /\ GFocusMode(w).options = FocusOptions(w)
  BY GPhotoParts

LEMMA OneOfAType ==
    ASSUME NEW w, WidgetOK(w), NEW c, LeafOf(w, c), NEW d, LeafOf(w, d), c.type = d.type
    PROVE  c = d
<1>1. w.kind \in {"radio", "toggle", "range"}
  BY DEF WidgetOK, GPhoto!Widget, GPhoto!Kinds
<1>2. Named(w) # "FocusAuto"
  BY KeyTable DEF LeafOf, Named
<1>3. Named(w) \in {"Iso", "FocusMode"} => w.kind = "radio" /\ ~Switch(w)
  BY DEF WidgetOK
<1> QED  BY <1>1, <1>2, <1>3, GPhotoTypes DEF LeafOf

LEMMA LeafTypes ==
    ASSUME NEW w, NEW c, LeafOf(w, c)
    PROVE  /\ IsA(c, c.type)
           /\ \/ c.type = Named(w)
              \/ c = GIsoAuto(w) /\ c.type = "IsoAuto" /\ Named(w) = "Iso"
              \/ c = GFocusAuto(w) /\ c.type = "FocusAuto" /\ Named(w) = "FocusMode"
  BY GPhotoParts DEF LeafOf, IsA

(* A widget, and the same one with another value. *)
Alike(w, x) ==
  /\ WidgetOK(w) /\ WidgetOK(x)
  /\ w.key = x.key /\ w.kind = x.kind /\ w.readonly = x.readonly /\ w.choices = x.choices

LEMMA AlikeParts ==
    ASSUME NEW w, NEW x, Alike(w, x)
    PROVE  /\ Named(x) = Named(w) /\ Switch(x) = Switch(w) /\ AutoOf(x) = AutoOf(w)
           /\ IsoOptions(x) = IsoOptions(w) /\ FocusOptions(x) = FocusOptions(w)
           /\ x.kind = w.kind /\ x.readonly = w.readonly /\ x.choices = w.choices
  BY DEF Alike, Named, Switch, AutoOf, IsoOptions, FocusOptions

LEMMA AlikeControls ==
    ASSUME NEW w, NEW x, Alike(w, x)
    PROVE  /\ GSwitch(x).type = GSwitch(w).type /\ GSwitch(x).options = GSwitch(w).options
           /\ GRange(x).type = GRange(w).type /\ GRange(x).options = GRange(w).options
           /\ GList(x).type = GList(w).type /\ GList(x).options = GList(w).options
           /\ GIso(x).type = GIso(w).type /\ GIso(x).options = GIso(w).options
           /\ GIsoAuto(x).type = GIsoAuto(w).type /\ GIsoAuto(x).options = GIsoAuto(w).options
           /\ GFocusAuto(x).type = GFocusAuto(w).type
           /\ GFocusAuto(x).options = GFocusAuto(w).options
           /\ GFocusMode(x).type = GFocusMode(w).type
           /\ GFocusMode(x).options = GFocusMode(w).options
<1>1. /\ Named(x) = Named(w) /\ IsoOptions(x) = IsoOptions(w)
      /\ FocusOptions(x) = FocusOptions(w) /\ x.choices = w.choices
  BY AlikeParts
<1>2. GSwitch(x).type = GSwitch(w).type /\ GSwitch(x).options = GSwitch(w).options
  BY <1>1, GPhotoTypes, GPhotoOptions
<1>3. GRange(x).type = GRange(w).type /\ GRange(x).options = GRange(w).options
  BY <1>1, GPhotoTypes, GPhotoOptions
<1>4. GList(x).type = GList(w).type /\ GList(x).options = GList(w).options
  BY <1>1, GPhotoTypes, GPhotoOptions
<1>5. GIso(x).type = GIso(w).type /\ GIso(x).options = GIso(w).options
  BY <1>1, GPhotoTypes, GPhotoOptions
<1>6. GIsoAuto(x).type = GIsoAuto(w).type /\ GIsoAuto(x).options = GIsoAuto(w).options
  BY <1>1, GPhotoTypes, GPhotoOptions
<1>7. GFocusAuto(x).type = GFocusAuto(w).type /\ GFocusAuto(x).options = GFocusAuto(w).options
  BY <1>1, GPhotoTypes, GPhotoOptions
<1>8. GFocusMode(x).type = GFocusMode(w).type /\ GFocusMode(x).options = GFocusMode(w).options
  BY <1>1, GPhotoTypes, GPhotoOptions
<1> QED  BY <1>2, <1>3, <1>4, <1>5, <1>6, <1>7, <1>8

LEMMA AlikeLeaves ==
    ASSUME NEW w, NEW x, Alike(w, x), NEW c, LeafOf(w, c)
    PROVE  \E d : LeafOf(x, d) /\ d.type = c.type /\ d.options = c.options
<1>1. /\ Named(x) = Named(w) /\ Switch(x) = Switch(w) /\ AutoOf(x) = AutoOf(w)
      /\ IsoOptions(x) = IsoOptions(w) /\ FocusOptions(x) = FocusOptions(w)
      /\ x.kind = w.kind /\ x.readonly = w.readonly
  BY AlikeParts
<1>2. ASSUME NEW d, LeafOf(x, d), d.type = c.type, d.options = c.options
      PROVE  \E e : LeafOf(x, e) /\ e.type = c.type /\ e.options = c.options
  BY <1>2
<1>3. CASE c = GSwitch(w) /\ (w.kind = "toggle" \/ (w.kind = "radio" /\ Switch(w)))
  <2>1. LeafOf(x, GSwitch(x))
    BY <1>1, <1>3 DEF LeafOf
  <2>2. GSwitch(x).type = GSwitch(w).type /\ GSwitch(x).options = GSwitch(w).options
    BY AlikeControls
  <2> QED  BY <1>2, <1>3, <2>1, <2>2
<1>4. CASE c = GRange(w) /\ w.kind = "range"
  <2>1. LeafOf(x, GRange(x))
    BY <1>1, <1>4 DEF LeafOf
  <2>2. GRange(x).type = GRange(w).type /\ GRange(x).options = GRange(w).options
    BY AlikeControls
  <2> QED  BY <1>2, <1>4, <2>1, <2>2
<1>5. CASE c = GIso(w) /\ Named(w) = "Iso" /\ IsoOptions(w) # {}
  <2>1. LeafOf(x, GIso(x))
    BY <1>1, <1>5 DEF LeafOf
  <2>2. GIso(x).type = GIso(w).type /\ GIso(x).options = GIso(w).options
    BY AlikeControls
  <2> QED  BY <1>2, <1>5, <2>1, <2>2
<1>6. CASE c = GIsoAuto(w) /\ AutoOf(w) # None /\ Named(w) = "Iso" /\ IsoOptions(w) # {}
  <2>1. LeafOf(x, GIsoAuto(x))
    BY <1>1, <1>6 DEF LeafOf
  <2>2. GIsoAuto(x).type = GIsoAuto(w).type /\ GIsoAuto(x).options = GIsoAuto(w).options
    BY AlikeControls
  <2> QED  BY <1>2, <1>6, <2>1, <2>2
<1>7. CASE c = GFocusAuto(w) /\ Named(w) = "FocusMode"
  <2>1. LeafOf(x, GFocusAuto(x))
    BY <1>1, <1>7 DEF LeafOf
  <2>2. GFocusAuto(x).type = GFocusAuto(w).type /\ GFocusAuto(x).options = GFocusAuto(w).options
    BY AlikeControls
  <2> QED  BY <1>2, <1>7, <2>1, <2>2
<1>8. CASE c = GFocusMode(w) /\ Named(w) = "FocusMode" /\ FocusOptions(w) # {}
  <2>1. LeafOf(x, GFocusMode(x))
    BY <1>1, <1>8 DEF LeafOf
  <2>2. GFocusMode(x).type = GFocusMode(w).type /\ GFocusMode(x).options = GFocusMode(w).options
    BY AlikeControls
  <2> QED  BY <1>2, <1>8, <2>1, <2>2
<1>9. CASE c = GList(w) /\ w.kind = "radio" /\ ~Switch(w) /\ Named(w) \notin {"Iso", "FocusMode"}
  <2>1. LeafOf(x, GList(x))
    BY <1>1, <1>9 DEF LeafOf
  <2>2. GList(x).type = GList(w).type /\ GList(x).options = GList(w).options
    BY AlikeControls
  <2> QED  BY <1>2, <1>9, <2>1, <2>2
<1> QED  BY <1>3, <1>4, <1>5, <1>6, <1>7, <1>8, <1>9 DEF LeafOf

LEMMA Revalued ==
    ASSUME NEW w, WidgetOK(w), NEW v \in ToSet(w.choices)
    PROVE  LET x == [w EXCEPT !.value = v]
           IN  Alike(w, x) /\ x.value = v
<1> DEFINE x == [w EXCEPT !.value = v]
<1>1. v \in STRING
  BY DEF WidgetOK, GPhoto!Widget, ToSet
<1>2. /\ x \in GPhoto!Widget /\ x.value = v
      /\ x.key = w.key /\ x.kind = w.kind /\ x.readonly = w.readonly /\ x.choices = w.choices
  BY <1>1 DEF WidgetOK, GPhoto!Widget
<1> HIDE DEF x
<1>3. Named(x) = Named(w) /\ Switch(x) = Switch(w)
  BY <1>2 DEF Named, Switch
<1>4. WidgetOK(x)
  BY <1>2, <1>3 DEF WidgetOK
<1> QED  BY <1>2, <1>4 DEF Alike, x

-----------------------------------------------------------------------------
(* The tree of widgets as a whole. *)
Tag(i, c) == [key |-> body[i].key, place |-> i, control |-> c]

LEMMA Tags ==
    \A i, c : LET t == Tag(i, c)
              IN  /\ t.key = body[i].key /\ t.place = i /\ t.control = c
                  /\ DOMAIN t = {"key", "place", "control"}
  BY DEF Tag

WalkIs ==
  GPhoto!TreeOK(body) =>
    \A t : t \in GPhoto!walk_widget <=>
      \E i \in DOMAIN body : \E c : LeafOf(body[i], c) /\ t = Tag(i, c)

LEMMA Walk == WalkIs
<1> SUFFICES ASSUME GPhoto!TreeOK(body), NEW t
             PROVE  t \in GPhoto!walk_widget <=>
                      \E i \in DOMAIN body : \E c : LeafOf(body[i], c) /\ t = Tag(i, c)
  BY DEF WalkIs
<1>1. \A i \in DOMAIN body : WidgetOK(body[i])
  BY Trees DEF TreeIs
<1> DEFINE tags(i) == {Tag(i, c) : c \in GPhoto!walk_leaf(body[i])}
<1>2. t \in GPhoto!walk_widget <=> \E i \in DOMAIN body : t \in tags(i)
  <2>1. GPhoto!walk_widget = UNION {tags(i) : i \in DOMAIN body}
    BY DEF GPhoto!walk_widget, Tag
  <2> HIDE DEF tags
  <2> QED  BY <2>1
<1>3. \A i : t \in tags(i) <=> \E c \in GPhoto!walk_leaf(body[i]) : t = Tag(i, c)
  OBVIOUS
<1> HIDE DEF tags
<1> QED  BY <1>1, <1>2, <1>3, Leaves

Beats(u, t) ==
  /\ u.control.type = t.control.type
  /\ \/ GPhoto!rank(u) < GPhoto!rank(t)
     \/ GPhoto!rank(u) = GPhoto!rank(t) /\ u.place < t.place

(* The best of each type. *)
Best == GPhoto!dedup_by_type(GPhoto!walk_widget)

BestIs ==
  \A t : t \in Best <=>
    t \in GPhoto!walk_widget /\ \A u \in GPhoto!walk_widget : ~Beats(u, t)

LEMMA Bests == BestIs
  BY DEF BestIs, Best, GPhoto!dedup_by_type, Beats

(* What the rank of a control is. *)
LEMMA Ranks ==
    ASSUME GPhoto!TreeOK(body), NEW i \in DOMAIN body, NEW c, LeafOf(body[i], c)
    PROVE  LET t == Tag(i, c)
           IN  /\ GPhoto!rank(t) \in Nat
               /\ c.type = Named(body[i]) =>
                    GPhoto!rank(t) = Place(body[i].key) /\ GPhoto!rank(t) < 9
               /\ c.type # Named(body[i]) => GPhoto!rank(t) = 9
               /\ c.type = Named(body[i]) <=> GPhoto!rank(t) # GPhoto!Unnamed
<1>1. body[i].key \in DOMAIN GPhoto!CONFIG_KEYS
  BY KeyTable DEF LeafOf, Named
<1>2. Place(body[i].key) \in 1..8
  BY <1>1, KeyTable
<1>3. GPhoto!rank(Tag(i, c)) = IF Named(body[i]) # c.type THEN 9 ELSE Place(body[i].key)
  BY Tags DEF GPhoto!rank, GPhoto!Unnamed, Named, Place
<1> QED  BY <1>2, <1>3 DEF GPhoto!Unnamed

LEMMA OneBest ==
    ASSUME GPhoto!TreeOK(body), NEW t \in Best, NEW u \in Best,
           t.control.type = u.control.type
    PROVE  t = u
<1>1. t \in GPhoto!walk_widget /\ u \in GPhoto!walk_widget /\ ~Beats(u, t) /\ ~Beats(t, u)
  BY Bests DEF BestIs
<1>2. PICK i \in DOMAIN body : \E c : LeafOf(body[i], c) /\ t = Tag(i, c)
  BY <1>1, Walk DEF WalkIs
<1>3. PICK c : LeafOf(body[i], c) /\ t = Tag(i, c)
  BY <1>2
<1>4. PICK j \in DOMAIN body : \E d : LeafOf(body[j], d) /\ u = Tag(j, d)
  BY <1>1, Walk DEF WalkIs
<1>5. PICK d : LeafOf(body[j], d) /\ u = Tag(j, d)
  BY <1>4
<1>6. GPhoto!rank(t) \in Nat /\ GPhoto!rank(u) \in Nat
  BY <1>3, <1>5, Ranks
<1>7. i \in Nat /\ j \in Nat /\ \A k \in DOMAIN body : WidgetOK(body[k])
  BY Trees DEF TreeIs
<1>8. t.place = i /\ u.place = j /\ t.control = c /\ u.control = d
  BY <1>3, <1>5, Tags
<1>9. i = j
  BY <1>1, <1>6, <1>7, <1>8 DEF Beats
<1>10. c = d
  BY <1>3, <1>5, <1>7, <1>8, <1>9, OneOfAType
<1> QED  BY <1>3, <1>5, <1>9, <1>10

(* Automatic ISO is on, wherever that is kept. *)
AutoOn == \E t \in Best : t.control.type = "IsoAuto" /\ t.control.current

Shut(t) == [t EXCEPT !.control.disabled = TRUE]

Reconciled(t) == IF AutoOn /\ t.control.type = "Iso" THEN Shut(t) ELSE t

(* What is listed of the best of a type. *)
Shows(s, t) ==
  /\ s.key = t.key /\ s.place = t.place
  /\ s.control.type = t.control.type /\ s.control.current = t.control.current
  /\ s.control.options = t.control.options
  /\ t.control.disabled => s.control.disabled
  /\ AutoOn /\ t.control.type = "Iso" => s.control.disabled

BestTag ==
  GPhoto!TreeOK(body) =>
    \A t \in Best : \E i \in DOMAIN body : \E c : LeafOf(body[i], c) /\ t = Tag(i, c)

LEMMA BestTags == BestTag
  BY Walk, Bests DEF BestIs, WalkIs, BestTag

LEMMA Shown ==
    ASSUME GPhoto!TreeOK(body), NEW t \in Best
    PROVE  Shows(Reconciled(t), t)
<1>1. PICK i \in DOMAIN body : \E c : LeafOf(body[i], c) /\ t = Tag(i, c)
  BY BestTags DEF BestTag
<1>2. PICK c : LeafOf(body[i], c) /\ t = Tag(i, c)
  BY <1>1
<1>3. /\ DOMAIN t = {"key", "place", "control"} /\ t.control = c
      /\ DOMAIN c = {"type", "current", "options", "disabled"}
  BY <1>2, Tags, LeafTypes DEF IsA
<1>4. CASE AutoOn /\ t.control.type = "Iso"
  <2>1. /\ Shut(t).key = t.key /\ Shut(t).place = t.place
        /\ Shut(t).control = [c EXCEPT !.disabled = TRUE]
    BY <1>3 DEF Shut
  <2>2. LET d == [c EXCEPT !.disabled = TRUE]
        IN  d.type = c.type /\ d.current = c.current /\ d.options = c.options /\ d.disabled = TRUE
    BY <1>3
  <2>3. Reconciled(t) = Shut(t)
    BY <1>4 DEF Reconciled
  <2> QED  BY <1>3, <2>1, <2>2, <2>3 DEF Shows
<1>5. CASE ~(AutoOn /\ t.control.type = "Iso")
  BY <1>5 DEF Reconciled, Shows
<1> QED  BY <1>4, <1>5

LEMMA ListedParts ==
    \A s : s \in GPhoto!get_parameters <=>
      GPhoto!Cardinality(s.control.options) >= 2 /\ \E t \in Best : s = Reconciled(t)
<1>1. GPhoto!reconcile_iso_auto(Best) = {Reconciled(t) : t \in Best}
  <2>1. CASE AutoOn
    <3>1. GPhoto!reconcile_iso_auto(Best) =
            {IF t.control.type = "Iso" THEN Shut(t) ELSE t : t \in Best}
      BY <2>1, Zenon DEF GPhoto!reconcile_iso_auto, AutoOn, Shut
    <3>2. \A t : Reconciled(t) = IF t.control.type = "Iso" THEN Shut(t) ELSE t
      BY <2>1 DEF Reconciled
    <3> QED  BY <3>1, <3>2
  <2>2. CASE ~AutoOn
    <3>1. GPhoto!reconcile_iso_auto(Best) = Best
      BY <2>2, Zenon DEF GPhoto!reconcile_iso_auto, AutoOn
    <3>2. \A t : Reconciled(t) = t
      BY <2>2 DEF Reconciled
    <3> QED  BY <3>1, <3>2
  <2> QED  BY <2>1, <2>2
<1>2. \A s : s \in GPhoto!get_parameters <=>
        s \in GPhoto!reconcile_iso_auto(Best) /\ GPhoto!Cardinality(s.control.options) >= 2
  BY DEF GPhoto!get_parameters, Best
<1>3. \A s : s \in {Reconciled(t) : t \in Best} <=> \E t \in Best : s = Reconciled(t)
  OBVIOUS
<1> QED  BY <1>1, <1>2, <1>3

ListedIs ==
  GPhoto!TreeOK(body) =>
    /\ \A s \in GPhoto!get_parameters :
         /\ GPhoto!Cardinality(s.control.options) >= 2
         /\ \E t \in Best : Shows(s, t)
    /\ \A t \in Best :
         GPhoto!Cardinality(t.control.options) >= 2 =>
           \E s \in GPhoto!get_parameters : Shows(s, t)
    /\ \A s, u \in GPhoto!get_parameters : s.control.type = u.control.type => s = u

LEMMA ListedOnes == ListedIs
<1> SUFFICES ASSUME GPhoto!TreeOK(body)
             PROVE  /\ \A s \in GPhoto!get_parameters :
                         /\ GPhoto!Cardinality(s.control.options) >= 2
                         /\ \E t \in Best : Shows(s, t)
                    /\ \A t \in Best :
                         GPhoto!Cardinality(t.control.options) >= 2 =>
                           \E s \in GPhoto!get_parameters : Shows(s, t)
                    /\ \A s, u \in GPhoto!get_parameters : s.control.type = u.control.type => s = u
  BY DEF ListedIs
<1>1. ASSUME NEW s \in GPhoto!get_parameters
      PROVE  /\ GPhoto!Cardinality(s.control.options) >= 2
             /\ \E t \in Best : Shows(s, t)
  BY ListedParts, Shown
<1>2. ASSUME NEW t \in Best, GPhoto!Cardinality(t.control.options) >= 2
      PROVE  \E s \in GPhoto!get_parameters : Shows(s, t)
  <2>1. Shows(Reconciled(t), t)
    BY Shown
  <2>2. GPhoto!Cardinality(Reconciled(t).control.options) >= 2
    BY <1>2, <2>1 DEF Shows
  <2>3. Reconciled(t) \in GPhoto!get_parameters
    BY <2>2, ListedParts
  <2> QED  BY <2>1, <2>3
<1>3. ASSUME NEW s \in GPhoto!get_parameters, NEW u \in GPhoto!get_parameters,
             s.control.type = u.control.type
      PROVE  s = u
  <2>1. PICK t \in Best : s = Reconciled(t)
    BY ListedParts
  <2>2. PICK v \in Best : u = Reconciled(v)
    BY ListedParts
  <2>3. t.control.type = v.control.type
    BY <1>3, <2>1, <2>2, Shown DEF Shows
  <2> QED  BY <2>1, <2>2, <2>3, OneBest
<1> QED  BY <1>1, <1>2, <1>3

(* Two controls of one type that are not of their own name. *)
IsTorn(type) ==
  \E i, j \in DOMAIN body : \E c, d :
    /\ i # j /\ LeafOf(body[i], c) /\ LeafOf(body[j], d)
    /\ c.type = type /\ d.type = type
    /\ Named(body[i]) # type /\ Named(body[j]) # type

TornIs == GPhoto!TreeOK(body) => \A type : type \in GPhoto!Torn <=> IsTorn(type)

LEMMA Torns == TornIs
<1> SUFFICES ASSUME GPhoto!TreeOK(body), NEW type
             PROVE  type \in GPhoto!Torn <=> IsTorn(type)
  BY DEF TornIs
<1> DEFINE odd(t) == GPhoto!rank(t) = GPhoto!Unnamed
           walk == GPhoto!walk_widget
<1>1. type \in GPhoto!Torn <=>
        \E t \in walk : \E u \in walk :
          t # u /\ u.control.type = t.control.type /\ odd(u) /\ odd(t) /\ t.control.type = type
  BY DEF GPhoto!Torn
<1>2. \A i \in DOMAIN body : WidgetOK(body[i])
  BY Trees DEF TreeIs
<1>3. ASSUME NEW t \in walk, NEW u \in walk, t # u, u.control.type = t.control.type,
             odd(u), odd(t), t.control.type = type
      PROVE  IsTorn(type)
  <2>1. PICK i \in DOMAIN body : \E c : LeafOf(body[i], c) /\ t = Tag(i, c)
    BY Walk DEF WalkIs
  <2>2. PICK c : LeafOf(body[i], c) /\ t = Tag(i, c)
    BY <2>1
  <2>3. PICK j \in DOMAIN body : \E d : LeafOf(body[j], d) /\ u = Tag(j, d)
    BY Walk DEF WalkIs
  <2>4. PICK d : LeafOf(body[j], d) /\ u = Tag(j, d)
    BY <2>3
  <2>5. c.type = type /\ d.type = type
    BY <1>3, <2>2, <2>4, Tags
  <2>6. c.type # Named(body[i]) /\ d.type # Named(body[j])
    BY <1>3, <2>2, <2>4, Ranks
  <2>7. i # j
    BY <1>2, <1>3, <2>2, <2>4, <2>5, OneOfAType
  <2> QED  BY <2>2, <2>4, <2>5, <2>6, <2>7 DEF IsTorn
<1>4. ASSUME IsTorn(type)
      PROVE  \E t \in walk : \E u \in walk :
               t # u /\ u.control.type = t.control.type /\ odd(u) /\ odd(t) /\ t.control.type = type
  <2>1. PICK i \in DOMAIN body, j \in DOMAIN body : \E c, d :
          /\ i # j /\ LeafOf(body[i], c) /\ LeafOf(body[j], d)
          /\ c.type = type /\ d.type = type
          /\ Named(body[i]) # type /\ Named(body[j]) # type
    BY <1>4 DEF IsTorn
  <2>2. PICK c, d :
          /\ i # j /\ LeafOf(body[i], c) /\ LeafOf(body[j], d)
          /\ c.type = type /\ d.type = type
          /\ Named(body[i]) # type /\ Named(body[j]) # type
    BY <2>1
  <2>3. Tag(i, c) \in walk /\ Tag(j, d) \in walk
    BY <2>2, Walk DEF WalkIs
  <2>4. odd(Tag(i, c)) /\ odd(Tag(j, d))
    BY <2>2, Ranks
  <2>5. /\ Tag(i, c).control.type = type /\ Tag(j, d).control.type = type
        /\ Tag(i, c) # Tag(j, d)
    BY <2>2, Tags
  <2> QED  BY <2>3, <2>4, <2>5
<1> QED  BY <1>1, <1>3, <1>4

LEMMA GPhotoPrimed == ListedIs' /\ TornIs' /\ BestIs' /\ WalkIs'
  BY ListedOnes, Torns, Bests, Walk, PTL

LEMMA ListedLeaf ==
    ASSUME GPhoto!TreeOK(body), NEW s \in GPhoto!get_parameters
    PROVE  \E i \in DOMAIN body : \E c :
             LeafOf(body[i], c) /\ Tag(i, c) \in Best /\ Shows(s, Tag(i, c))
<1>1. PICK t \in Best : Shows(s, t)
  BY ListedOnes DEF ListedIs
<1>2. PICK i \in DOMAIN body : \E c : LeafOf(body[i], c) /\ t = Tag(i, c)
  BY BestTags DEF BestTag
<1> QED  BY <1>1, <1>2

(* What an open control shows is one of its options. *)
LEMMA LeafIsSound ==
    ASSUME NEW w, WidgetOK(w), NEW c, LeafOf(w, c)
    PROVE  c.disabled \/ c.current \in c.options \/ c.type \in {"ShutterSpeed", "ImageQuality"}
<1>1. w.value \in ToSet(w.choices) /\ w.value # None
  <2>1. \A v \in ToSet(w.choices) : v \in STRING
    BY DEF WidgetOK, GPhoto!Widget, ToSet
  <2> QED  BY <2>1, NoneAssumption DEF WidgetOK
<1>2. CASE c = GSwitch(w)
  <2>1. GSwitch(w).current = IsOn(w) /\ GSwitch(w).options = {TRUE, FALSE}
    BY GPhotoParts
  <2>2. IsOn(w) \in {TRUE, FALSE}
    BY DEF IsOn
  <2> QED  BY <1>2, <2>1, <2>2
<1>3. CASE c = GRange(w)
  BY <1>1, <1>3, GPhotoParts
<1>4. CASE c = GIso(w)
  <2>1. /\ ~IsoIsOn(w) => GIso(w).current = w.value
        /\ GIso(w).options = IsoOptions(w) /\ GIso(w).disabled = IsoIsOn(w)
    BY GPhotoParts
  <2>2. IsoIsOn(w) \/ w.value \in IsoOptions(w)
    BY <1>1 DEF IsoIsOn, IsoOptions
  <2> QED  BY <1>4, <2>1, <2>2
<1>5. CASE c = GIsoAuto(w)
  <2>1. GIsoAuto(w).current = IsoIsOn(w) /\ GIsoAuto(w).options = {TRUE, FALSE}
    BY GPhotoParts
  <2>2. IsoIsOn(w) \in {TRUE, FALSE}
    BY DEF IsoIsOn
  <2> QED  BY <1>5, <2>1, <2>2
<1>6. CASE c = GFocusAuto(w)
  <2>1. GFocusAuto(w).current = FocusIsAuto(w) /\ GFocusAuto(w).options = {TRUE, FALSE}
    BY GPhotoParts
  <2>2. FocusIsAuto(w) \in {TRUE, FALSE}
    BY DEF FocusIsAuto
  <2> QED  BY <1>6, <2>1, <2>2
<1>7. CASE c = GFocusMode(w)
  <2>1. /\ FocusIsAuto(w) => GFocusMode(w).current = w.value
        /\ GFocusMode(w).options = FocusOptions(w) /\ GFocusMode(w).disabled = FocusIsShut(w)
    BY GPhotoParts
  <2>2. FocusIsShut(w) \/ (FocusIsAuto(w) /\ w.value \in FocusOptions(w))
    BY <1>1 DEF FocusIsShut, FocusIsAuto, FocusOptions
  <2> QED  BY <1>7, <2>1, <2>2
<1>8. CASE c = GList(w)
  <2>1. /\ GList(w).type = Named(w) /\ GList(w).current = w.value
        /\ GList(w).options = GPhoto!Offered(Named(w), w.choices)
    BY GPhotoTypes, GPhotoParts
  <2>2. Named(w) \notin {"ShutterSpeed", "ImageQuality"} =>
          GPhoto!Offered(Named(w), w.choices) = ToSet(w.choices)
    BY GPhotoToSet DEF GPhoto!Offered
  <2> QED  BY <1>1, <1>8, <2>1, <2>2
<1> QED  BY <1>2, <1>3, <1>4, <1>5, <1>6, <1>7, <1>8 DEF LeafOf

LEMMA GPhotoIsSound ==
    ASSUME GPhoto!TreeOK(body)
    PROVE  LET list == GPhoto!get_parameters
           IN  /\ \A s, u \in list : s.control.type = u.control.type => s = u
               /\ \A s, u \in list :
                    \/ /\ s.control.type = "IsoAuto" /\ s.control.current
                       /\ u.control.type = "Iso"
                    \/ /\ s.control.type = "FocusAuto" /\ ~s.control.current
                       /\ u.control.type = "FocusMode" /\ s.control.type \notin GPhoto!Torn
                    => u.control.disabled
               /\ \A s \in list :
                    \/ s.control.disabled
                    \/ s.control.current \in s.control.options
                    \/ s.control.type \in {"ShutterSpeed", "ImageQuality"}
               /\ \A s \in list : GPhoto!Cardinality(s.control.options) >= 2
<1>1. \A i \in DOMAIN body : WidgetOK(body[i])
  BY Trees DEF TreeIs
<1>2. ASSUME NEW s \in GPhoto!get_parameters, NEW u \in GPhoto!get_parameters,
             s.control.type = "IsoAuto", s.control.current, u.control.type = "Iso"
      PROVE  u.control.disabled
  <2>1. PICK t \in Best : Shows(s, t)
    BY ListedOnes DEF ListedIs
  <2>2. PICK v \in Best : Shows(u, v)
    BY ListedOnes DEF ListedIs
  <2>3. AutoOn
    BY <1>2, <2>1 DEF AutoOn, Shows
  <2> QED  BY <1>2, <2>2, <2>3 DEF Shows
<1>3. ASSUME NEW s \in GPhoto!get_parameters, NEW u \in GPhoto!get_parameters,
             s.control.type = "FocusAuto", ~s.control.current,
             u.control.type = "FocusMode", "FocusAuto" \notin GPhoto!Torn
      PROVE  u.control.disabled
  <2>1. PICK i \in DOMAIN body : \E c :
          LeafOf(body[i], c) /\ Tag(i, c) \in Best /\ Shows(s, Tag(i, c))
    BY ListedLeaf
  <2>2. PICK c : LeafOf(body[i], c) /\ Tag(i, c) \in Best /\ Shows(s, Tag(i, c))
    BY <2>1
  <2>3. PICK j \in DOMAIN body : \E d :
          LeafOf(body[j], d) /\ Tag(j, d) \in Best /\ Shows(u, Tag(j, d))
    BY ListedLeaf
  <2>4. PICK d : LeafOf(body[j], d) /\ Tag(j, d) \in Best /\ Shows(u, Tag(j, d))
    BY <2>3
  <2>5. /\ c.type = "FocusAuto" /\ c.current = s.control.current
        /\ d.type = "FocusMode" /\ (d.disabled => u.control.disabled)
    BY <1>3, <2>2, <2>4, Tags DEF Shows
  <2>6. Named(body[i]) # "FocusAuto" /\ Named(body[j]) # "FocusAuto"
    BY <2>2, <2>4, KeyTable DEF LeafOf, Named
  <2>7. Named(body[j]) = "FocusMode" /\ c = GFocusAuto(body[i])
    BY <2>2, <2>4, <2>5, <2>6, LeafTypes
  <2>8. LeafOf(body[j], GFocusAuto(body[j])) /\ GFocusAuto(body[j]).type = "FocusAuto"
    BY <2>4, <2>7, GPhotoTypes DEF LeafOf
  <2>9. i = j
    BY <1>3, <2>2, <2>5, <2>6, <2>8, Torns DEF TornIs, IsTorn
  <2>10. d = GFocusMode(body[j])
    <3>1. WidgetOK(body[j]) /\ body[j].kind = "radio" /\ ~Switch(body[j])
      BY <1>1, <2>7 DEF WidgetOK
    <3> QED  BY <2>4, <2>5, <2>7, <3>1, GPhotoTypes DEF LeafOf
  <2>11. ~FocusIsAuto(body[i])
    <3>1. GFocusAuto(body[i]).current = FocusIsAuto(body[i])
      BY GPhotoParts
    <3>2. GFocusAuto(body[i]).current = s.control.current
      BY <2>5, <2>7
    <3> QED  BY <1>3, <3>1, <3>2
  <2>12. d.disabled = FocusIsShut(body[j])
    BY <2>10, GPhotoParts
  <2> QED  BY <2>5, <2>9, <2>11, <2>12 DEF FocusIsShut
<1>4. ASSUME NEW s \in GPhoto!get_parameters
      PROVE  \/ s.control.disabled
             \/ s.control.current \in s.control.options
             \/ s.control.type \in {"ShutterSpeed", "ImageQuality"}
  <2>1. PICK i \in DOMAIN body : \E c :
          LeafOf(body[i], c) /\ Tag(i, c) \in Best /\ Shows(s, Tag(i, c))
    BY ListedLeaf
  <2>2. PICK c : LeafOf(body[i], c) /\ Tag(i, c) \in Best /\ Shows(s, Tag(i, c))
    BY <2>1
  <2>3. c.disabled \/ c.current \in c.options \/ c.type \in {"ShutterSpeed", "ImageQuality"}
    BY <1>1, <2>2, LeafIsSound
  <2> QED  BY <2>2, <2>3, Tags DEF Shows
<1> QED  BY <1>2, <1>3, <1>4, ListedOnes DEF ListedIs

Value(w, x) == [w EXCEPT !.value = x]

(* With another value, a widget shows that a client's wish came true. *)
Becomes(w, x, c, v) ==
  /\ x \in ToSet(w.choices)
  /\ \E d : /\ LeafOf(Value(w, x), d)
            /\ d.type = c.type /\ d.options = c.options /\ d.current = v

LEMMA SwitchBecomes ==
    ASSUME NEW w, WidgetOK(w), ~w.readonly, Named(w) # None, Switch(w),
           w.kind \in {"toggle", "radio"}, NEW v \in {TRUE, FALSE}, NEW x,
           x = IF v THEN "On" ELSE "Off"
    PROVE  Becomes(w, x, GSwitch(w), v)
<1>1. x \in ToSet(w.choices)
  BY DEF Switch
<1>2. Alike(w, Value(w, x)) /\ Value(w, x).value = x
  BY <1>1, Revalued DEF Value
<1>3. LeafOf(Value(w, x), GSwitch(Value(w, x)))
  BY <1>2, AlikeParts DEF LeafOf
<1>4. /\ GSwitch(Value(w, x)).type = GSwitch(w).type
      /\ GSwitch(Value(w, x)).options = GSwitch(w).options
  BY <1>2, AlikeControls
<1>5. GSwitch(Value(w, x)).current = IsOn(Value(w, x))
  BY GPhotoParts
<1>6. IsOn(Value(w, x)) = v
  BY <1>2 DEF IsOn
<1> QED  BY <1>1, <1>3, <1>4, <1>5, <1>6 DEF Becomes

LEMMA RangeBecomes ==
    ASSUME NEW w, WidgetOK(w), ~w.readonly, Named(w) # None, w.kind = "range",
           NEW v \in ToSet(w.choices)
    PROVE  Becomes(w, v, GRange(w), v)
<1>2. Alike(w, Value(w, v)) /\ Value(w, v).value = v
  BY Revalued DEF Value
<1>3. LeafOf(Value(w, v), GRange(Value(w, v)))
  BY <1>2, AlikeParts DEF LeafOf
<1>4. /\ GRange(Value(w, v)).type = GRange(w).type
      /\ GRange(Value(w, v)).options = GRange(w).options
  BY <1>2, AlikeControls
<1>5. GRange(Value(w, v)).current = Value(w, v).value
  BY GPhotoParts
<1> QED  BY <1>2, <1>3, <1>4, <1>5 DEF Becomes

LEMMA ListBecomes ==
    ASSUME NEW w, WidgetOK(w), ~w.readonly, Named(w) \notin {None, "Iso", "FocusMode"},
           w.kind = "radio", ~Switch(w), NEW v \in GPhoto!Offered(Named(w), w.choices)
    PROVE  Becomes(w, v, GList(w), v)
<1>1. v \in ToSet(w.choices)
  BY GPhotoToSet DEF GPhoto!Offered
<1>2. Alike(w, Value(w, v)) /\ Value(w, v).value = v
  BY <1>1, Revalued DEF Value
<1>3. LeafOf(Value(w, v), GList(Value(w, v)))
  BY <1>2, AlikeParts DEF LeafOf
<1>4. /\ GList(Value(w, v)).type = GList(w).type
      /\ GList(Value(w, v)).options = GList(w).options
  BY <1>2, AlikeControls
<1>5. GList(Value(w, v)).current = Value(w, v).value
  BY GPhotoParts
<1> QED  BY <1>1, <1>2, <1>3, <1>4, <1>5 DEF Becomes

LEMMA IsoBecomes ==
    ASSUME NEW w, WidgetOK(w), ~w.readonly, Named(w) = "Iso", Named(w) # None,
           NEW v \in IsoOptions(w)
    PROVE  Becomes(w, v, GIso(w), v)
<1>1. v \in ToSet(w.choices) /\ v # AutoOf(w)
  BY DEF IsoOptions
<1>2. Alike(w, Value(w, v)) /\ Value(w, v).value = v
  BY <1>1, Revalued DEF Value
<1>3. LeafOf(Value(w, v), GIso(Value(w, v)))
  BY <1>2, AlikeParts DEF LeafOf
<1>4. /\ GIso(Value(w, v)).type = GIso(w).type
      /\ GIso(Value(w, v)).options = GIso(w).options
  BY <1>2, AlikeControls
<1>5. ~IsoIsOn(Value(w, v))
  BY <1>1, <1>2, AlikeParts DEF IsoIsOn
<1>6. GIso(Value(w, v)).current = Value(w, v).value
  BY <1>5, GPhotoParts
<1> QED  BY <1>1, <1>2, <1>3, <1>4, <1>6 DEF Becomes

LEMMA IsoAutoBecomes ==
    ASSUME NEW w, WidgetOK(w), ~w.readonly, Named(w) = "Iso", Named(w) # None,
           IsoOptions(w) # {}, AutoOf(w) # None,
           NEW v \in {TRUE, FALSE}, NEW x \in ToSet(w.choices), (x = AutoOf(w)) = v
    PROVE  Becomes(w, x, GIsoAuto(w), v)
<1>2. Alike(w, Value(w, x)) /\ Value(w, x).value = x
  BY Revalued DEF Value
<1>3. LeafOf(Value(w, x), GIsoAuto(Value(w, x)))
  BY <1>2, AlikeParts DEF LeafOf
<1>4. /\ GIsoAuto(Value(w, x)).type = GIsoAuto(w).type
      /\ GIsoAuto(Value(w, x)).options = GIsoAuto(w).options
  BY <1>2, AlikeControls
<1>5. IsoIsOn(Value(w, x)) = v
  BY <1>2, AlikeParts DEF IsoIsOn
<1>6. GIsoAuto(Value(w, x)).current = IsoIsOn(Value(w, x))
  BY GPhotoParts
<1> QED  BY <1>2, <1>3, <1>4, <1>5, <1>6 DEF Becomes

LEMMA FocusAutoBecomes ==
    ASSUME NEW w, WidgetOK(w), ~w.readonly, Named(w) = "FocusMode", Named(w) # None,
           NEW v \in {TRUE, FALSE}, NEW x \in ToSet(w.choices),
           (x \notin GPhoto!ManualModes) = v
    PROVE  Becomes(w, x, GFocusAuto(w), v)
<1>2. Alike(w, Value(w, x)) /\ Value(w, x).value = x
  BY Revalued DEF Value
<1>3. LeafOf(Value(w, x), GFocusAuto(Value(w, x)))
  BY <1>2, AlikeParts DEF LeafOf
<1>4. /\ GFocusAuto(Value(w, x)).type = GFocusAuto(w).type
      /\ GFocusAuto(Value(w, x)).options = GFocusAuto(w).options
  BY <1>2, AlikeControls
<1>5. FocusIsAuto(Value(w, x)) = v
  BY <1>2 DEF FocusIsAuto
<1>6. GFocusAuto(Value(w, x)).current = FocusIsAuto(Value(w, x))
  BY GPhotoParts
<1> QED  BY <1>2, <1>3, <1>4, <1>5, <1>6 DEF Becomes

LEMMA FocusModeBecomes ==
    ASSUME NEW w, WidgetOK(w), ~w.readonly, Named(w) = "FocusMode", Named(w) # None,
           NEW v \in FocusOptions(w)
    PROVE  Becomes(w, v, GFocusMode(w), v)
<1>1. v \in ToSet(w.choices) /\ v \notin GPhoto!ManualModes
  BY DEF FocusOptions
<1>2. Alike(w, Value(w, v)) /\ Value(w, v).value = v
  BY <1>1, Revalued DEF Value
<1>3. LeafOf(Value(w, v), GFocusMode(Value(w, v)))
  BY <1>2, AlikeParts DEF LeafOf
<1>4. /\ GFocusMode(Value(w, v)).type = GFocusMode(w).type
      /\ GFocusMode(Value(w, v)).options = GFocusMode(w).options
  BY <1>2, AlikeControls
<1>5. FocusIsAuto(Value(w, v))
  BY <1>1, <1>2 DEF FocusIsAuto
<1>6. GFocusMode(Value(w, v)).current = Value(w, v).value
  BY <1>5, GPhotoParts
<1> QED  BY <1>1, <1>2, <1>3, <1>4, <1>6 DEF Becomes

-----------------------------------------------------------------------------
(* The widget that is written. *)
IsFirst(i, type, kind) ==
  /\ i \in DOMAIN body /\ Named(body[i]) = type /\ body[i].kind = kind
  /\ \A j \in DOMAIN body :
       Named(body[j]) = type /\ body[j].kind = kind => Place(body[i].key) <= Place(body[j].key)

LEMMA WidgetFor ==
    ASSUME GPhoto!TreeOK(body), NEW type, type # None, NEW kind
    PROVE  LET i == GPhoto!widget_for(type, kind)
           IN  /\ i # 0 => IsFirst(i, type, kind)
               /\ i = 0 => \A j \in DOMAIN body : Named(body[j]) # type \/ body[j].kind # kind
<1> DEFINE named == {j \in DOMAIN body : Named(body[j]) = type /\ body[j].kind = kind}
           place(j) == Place(body[j].key)
           places == {place(j) : j \in named}
           i == GPhoto!widget_for(type, kind)
<1>1. \A j \in DOMAIN body : j \in Nat /\ j # 0
  BY Trees DEF TreeIs
<1>2. \A j \in named : place(j) \in Nat
  BY KeyTable DEF Named
<1>3. i = IF named = {} THEN 0
          ELSE CHOOSE k \in named : \A j \in named : place(k) <= place(j)
  BY DEF GPhoto!widget_for, Named, Place
<1>4. CASE named # {}
  <2>1. \E k \in named : \A j \in named : place(k) <= place(j)
    <3>1. places # {} /\ \A x \in places : x \in Nat
      BY <1>2, <1>4
    <3>2. Min(places) \in places /\ \A x \in places : Min(places) <= x
      <4> HIDE DEF places
      <4> QED  BY <3>1, MinIsLeast
    <3> QED  BY <3>2
  <2>2. i \in named /\ \A j \in named : place(i) <= place(j)
    <3> HIDE DEF named, place
    <3> QED  BY <1>3, <1>4, <2>1
  <2>3. i # 0
    BY <1>1, <2>2
  <2> QED  BY <2>2, <2>3 DEF IsFirst
<1>5. CASE named = {}
  BY <1>3, <1>5
<1> QED  BY <1>4, <1>5

LEMMA WrittenIsBest ==
    ASSUME GPhoto!TreeOK(body), NEW type, type # None, NEW kind,
           NEW i, IsFirst(i, type, kind), NEW d, LeafOf(body[i], d), d.type = type,
           NEW j \in DOMAIN body, NEW c, LeafOf(body[j], c), c.type = type, Tag(j, c) \in Best
    PROVE  i = j
<1> DEFINE t == Tag(j, c)
           u == Tag(i, d)
<1>1. i \in DOMAIN body /\ Named(body[i]) = type
  BY DEF IsFirst
<1>2. u \in GPhoto!walk_widget /\ t \in GPhoto!walk_widget
  BY <1>1, Walk DEF WalkIs
<1>3. ~Beats(u, t)
  BY <1>2, Bests DEF BestIs
<1>4. u.control.type = t.control.type
  BY Tags
<1>5. /\ GPhoto!rank(u) \in Nat /\ GPhoto!rank(t) \in Nat
      /\ GPhoto!rank(u) = Place(body[i].key) /\ GPhoto!rank(u) < 9
  BY <1>1, Ranks
<1>6. GPhoto!rank(u) >= GPhoto!rank(t)
  BY <1>3, <1>4, <1>5 DEF Beats
<1>7. Named(body[j]) = type
  BY <1>5, <1>6, Ranks
<1>8. GPhoto!rank(t) = Place(body[j].key)
  BY <1>7, Ranks
<1>9. body[i].kind = body[j].kind
  BY <1>1, <1>7, Trees DEF TreeIs, Agree
<1>10. Place(body[i].key) <= Place(body[j].key)
  BY <1>7, <1>9 DEF IsFirst
<1>11. Place(body[i].key) = Place(body[j].key)
  BY <1>5, <1>6, <1>8, <1>10
<1>12. body[i].key = body[j].key
  <2>1. body[i].key \in DOMAIN GPhoto!CONFIG_KEYS /\ body[j].key \in DOMAIN GPhoto!CONFIG_KEYS
    BY <1>1, <1>7, KeyTable DEF Named
  <2> QED  BY <1>11, <2>1, KeyTable
<1> QED  BY <1>1, <1>12, Trees DEF TreeIs

(* A client's wish for a control is written to a widget, to the one that shows *)
(* it if the control is not made up of two.                                 *)
Granted(j, c, v) ==
  \E i \in DOMAIN body : \E x \in ToSet(body[i].choices) :
    /\ body' = [body EXCEPT ![i].value = x]
    /\ changed' = [type |-> c.type, value |-> v]
    /\ c.type \notin GPhoto!Torn => i = j /\ Becomes(body[j], x, c, v)

LEMMA FocusAutoWrite ==
    ASSUME GPhoto!TreeOK(body), NEW j \in DOMAIN body, NEW c, LeafOf(body[j], c),
           c.type = "FocusAuto", NEW v \in c.options, GPhoto!set_focus_auto(v)
    PROVE  Granted(j, c, v)
<1> DEFINE i == GPhoto!widget_for("FocusMode", "radio")
           w == body[i]
           modes == ToSet(w.choices)
           wanted == IF v THEN modes \ GPhoto!ManualModes ELSE GPhoto!ManualModes
           x == GPhoto!FirstOf(w.choices, wanted)
<1>1. /\ Named(body[j]) = "FocusMode" /\ c = GFocusAuto(body[j]) /\ Named(body[j]) # None
  BY LeafTypes, KeyTable DEF LeafOf, Named
<1>2. v \in {TRUE, FALSE}
  BY <1>1, GPhotoOptions
<1>3. GPhoto!Writes("FocusAuto", v, i, x) /\ i # 0
  BY GPhotoToSet DEF GPhoto!set_focus_auto
<1>4. /\ x # None /\ ~w.readonly
      /\ body' = [body EXCEPT ![i].value = x]
      /\ changed' = [type |-> c.type, value |-> v]
  BY <1>3 DEF GPhoto!Writes, GPhoto!Accepts
<1>5. i \in DOMAIN body /\ Named(w) = "FocusMode"
  BY <1>1, <1>3, WidgetFor DEF IsFirst
<1>6. WidgetOK(w)
  BY <1>5, Trees DEF TreeIs
<1>7. w.choices \in Seq(STRING)
  BY <1>6 DEF WidgetOK, GPhoto!Widget
<1>8. x \in ToSet(w.choices) /\ x \in wanted
  <2> HIDE DEF w, wanted
  <2> QED  BY <1>4, <1>7, GPhotoFirstOf
<1>9. (x \notin GPhoto!ManualModes) = v
  BY <1>2, <1>8
<1> HIDE DEF x, w, i, wanted
<1>10. ASSUME c.type \notin GPhoto!Torn
       PROVE  i = j /\ Becomes(body[j], x, c, v)
  <2>1. LeafOf(w, GFocusAuto(w)) /\ GFocusAuto(w).type = "FocusAuto"
    BY <1>1, <1>4, <1>5, GPhotoTypes DEF LeafOf
  <2>2. i = j
    BY <1>1, <1>5, <1>10, <2>1, Torns DEF TornIs, IsTorn, w
  <2>3. Becomes(w, x, GFocusAuto(w), v)
    BY <1>1, <1>2, <1>4, <1>5, <1>6, <1>8, <1>9, FocusAutoBecomes
  <2> QED  BY <1>1, <2>2, <2>3 DEF w
<1> QED  BY <1>4, <1>5, <1>8, <1>10 DEF Granted, w

LEMMA SwitchWrite ==
    ASSUME GPhoto!TreeOK(body), NEW j \in DOMAIN body, NEW c, LeafOf(body[j], c),
           Tag(j, c) \in Best, NEW v \in c.options,
           NEW kind \in {"toggle", "radio"}, NEW i, IsFirst(i, c.type, kind), c.type # None,
           NEW x, GPhoto!Writes(c.type, v, i, x), Switch(body[i]),
           v \in {TRUE, FALSE} => x = IF v THEN "On" ELSE "Off"
    PROVE  Granted(j, c, v)
<1> DEFINE w == body[i]
<1>1. /\ i \in DOMAIN body /\ Named(w) = c.type /\ w.kind = kind
  BY DEF IsFirst
<1>2. WidgetOK(w)
  BY <1>1, Trees DEF TreeIs
<1>3. /\ ~w.readonly
      /\ body' = [body EXCEPT ![i].value = x]
      /\ changed' = [type |-> c.type, value |-> v]
  BY DEF GPhoto!Writes, GPhoto!Accepts
<1>4. LeafOf(w, GSwitch(w)) /\ GSwitch(w).type = c.type
  BY <1>1, <1>3, GPhotoTypes DEF LeafOf
<1>5. i = j
  BY <1>4, WrittenIsBest
<1>6. c = GSwitch(w)
  BY <1>2, <1>4, <1>5, OneOfAType
<1>7. v \in {TRUE, FALSE}
  BY <1>6, GPhotoOptions
<1>8. Becomes(w, x, GSwitch(w), v)
  BY <1>1, <1>2, <1>3, <1>7, SwitchBecomes
<1> QED  BY <1>1, <1>3, <1>5, <1>6, <1>8 DEF Granted, Becomes

LEMMA AutoIsoChoice ==
    ASSUME NEW w, WidgetOK(w), AutoOf(w) # None
    PROVE  AutoOf(w) \in ToSet(w.choices) /\ AutoOf(w) \notin GPhoto!Concrete
<1> DEFINE odd == {i \in DOMAIN w.choices : w.choices[i] \notin GPhoto!Concrete}
<1>1. AutoOf(w) = IF \E i \in odd : odd = {i} THEN w.choices[CHOOSE i \in odd : TRUE] ELSE None
  BY DEF AutoOf, GPhoto!auto_iso_choice
<1>2. odd # {}
  BY <1>1
<1>3. (CHOOSE i \in odd : TRUE) \in odd
  BY <1>2
<1> QED  BY <1>1, <1>3 DEF ToSet

LEMMA IsoAutoWrite ==
    ASSUME GPhoto!TreeOK(body), NEW j \in DOMAIN body, NEW c, LeafOf(body[j], c),
           Tag(j, c) \in Best, c.type = "IsoAuto", NEW v \in c.options, GPhoto!set_iso_auto(v)
    PROVE  Granted(j, c, v)
<1> DEFINE toggle == GPhoto!widget_for("IsoAuto", "toggle")
           radio == GPhoto!widget_for("IsoAuto", "radio")
           iso == GPhoto!widget_for("Iso", "radio")
           w == body[iso]
<1>1. "IsoAuto" # None /\ "Iso" # None
  <2>1. /\ GPhoto!CONFIG_KEYS["autoiso"].type = "IsoAuto" /\ GPhoto!CONFIG_KEYS["iso"].type = "Iso"
        /\ "autoiso" \in DOMAIN GPhoto!CONFIG_KEYS /\ "iso" \in DOMAIN GPhoto!CONFIG_KEYS
    BY DEF GPhoto!CONFIG_KEYS
  <2> QED  BY <2>1, WordAssumption, NoneAssumption
<1>2. \A i \in DOMAIN body : WidgetOK(body[i])
  BY Trees DEF TreeIs
<1>3. CASE toggle # 0
  <2> DEFINE x == GPhoto!OnOff(v)
  <2>1. GPhoto!Writes(c.type, v, toggle, x)
    BY <1>3 DEF GPhoto!set_iso_auto
  <2>2. v \in {TRUE, FALSE} => x = IF v THEN "On" ELSE "Off"
    BY DEF GPhoto!OnOff
  <2>3. IsFirst(toggle, c.type, "toggle")
    BY <1>1, <1>3, WidgetFor
  <2>4. Switch(body[toggle])
    BY <1>2, <2>3 DEF IsFirst, WidgetOK
  <2> HIDE DEF toggle, x
  <2> QED  BY <1>1, <2>1, <2>2, <2>3, <2>4, SwitchWrite
<1>4. CASE toggle = 0 /\ radio # 0
  <2> DEFINE x == GPhoto!on_off_choice(body[radio].choices, v)
  <2>1. GPhoto!Writes(c.type, v, radio, x)
    BY <1>4 DEF GPhoto!set_iso_auto
  <2>2. x # None
    BY <2>1 DEF GPhoto!Writes
  <2>3. IsFirst(radio, c.type, "radio")
    BY <1>1, <1>4, WidgetFor
  <2>4. Switch(body[radio]) /\ x = IF v THEN "On" ELSE "Off"
    BY <2>2, OnOffChoice DEF Switch
  <2> HIDE DEF radio, x
  <2> QED  BY <1>1, <2>1, <2>3, <2>4, SwitchWrite
<1>5. CASE toggle = 0 /\ radio = 0
  <2> DEFINE x == IF v THEN GPhoto!auto_iso_choice(w.choices)
                  ELSE GPhoto!FirstOf(w.choices, GPhoto!Concrete)
  <2>1. GPhoto!Writes("IsoAuto", v, iso, x) /\ iso # 0
    BY <1>5 DEF GPhoto!set_iso_auto
  <2>2. \A k \in DOMAIN body : Named(body[k]) # "IsoAuto"
    <3> SUFFICES ASSUME NEW k \in DOMAIN body, Named(body[k]) = "IsoAuto"  PROVE FALSE
      OBVIOUS
    <3>1. body[k].kind \in {"toggle", "radio"}
      BY <1>2 DEF WidgetOK, GPhoto!Widget, GPhoto!Kinds
    <3> QED  BY <1>1, <1>5, <3>1, WidgetFor
  <2>3. /\ x # None /\ ~w.readonly
        /\ body' = [body EXCEPT ![iso].value = x]
        /\ changed' = [type |-> c.type, value |-> v]
    BY <2>1 DEF GPhoto!Writes, GPhoto!Accepts
  <2>4. iso \in DOMAIN body /\ Named(w) = "Iso"
    BY <1>1, <2>1, WidgetFor DEF IsFirst
  <2>5. c = GIsoAuto(body[j]) /\ Named(body[j]) = "Iso"
    BY <2>2, LeafTypes
  <2>6. iso = j
    <3>1. w.key = "iso" /\ body[j].key = "iso"
      BY <1>1, <2>4, <2>5, KeyTable DEF Named
    <3> QED  BY <2>4, <3>1, Trees DEF TreeIs
  <2>7. WidgetOK(w) /\ LeafOf(w, c) /\ c = GIsoAuto(w)
    BY <1>2, <2>5, <2>6
  <2>8. v \in {TRUE, FALSE}
    BY <2>7, GPhotoOptions
  <2>9. IsoOptions(w) # {} /\ AutoOf(w) # None
    <3>1. w.kind = "radio" /\ ~Switch(w)
      BY <2>4, <2>7 DEF WidgetOK
    <3> QED  BY <2>4, <2>7, <3>1, GPhotoTypes DEF LeafOf
  <2>10. w.choices \in Seq(STRING)
    BY <2>7 DEF WidgetOK, GPhoto!Widget
  <2>11. x \in ToSet(w.choices) /\ (x = AutoOf(w)) = v
    <3>1. CASE v = TRUE
      <4>1. x = AutoOf(w)
        BY <3>1 DEF AutoOf
      <4> QED  BY <2>7, <2>9, <3>1, <4>1, AutoIsoChoice
    <3>2. CASE v = FALSE
      <4>1. x = GPhoto!FirstOf(w.choices, GPhoto!Concrete)
        BY <3>2
      <4>2. x \in ToSet(w.choices) \cap GPhoto!Concrete
        <5> HIDE DEF w, x
        <5> QED  BY <2>3, <2>10, <4>1, GPhotoFirstOf
      <4> QED  BY <2>7, <2>9, <3>2, <4>2, AutoIsoChoice
    <3> QED  BY <2>8, <3>1, <3>2
  <2> HIDE DEF x, w, iso
  <2>12. Becomes(w, x, GIsoAuto(w), v)
    BY <1>1, <2>3, <2>4, <2>7, <2>8, <2>9, <2>11, IsoAutoBecomes
  <2> QED  BY <2>3, <2>4, <2>6, <2>7, <2>11, <2>12 DEF Granted, w
<1> QED  BY <1>3, <1>4, <1>5

LEMMA NamedWrite ==
    ASSUME GPhoto!TreeOK(body), NEW j \in DOMAIN body, NEW c, LeafOf(body[j], c),
           Tag(j, c) \in Best, c.type \notin {"IsoAuto", "FocusAuto"}, NEW v \in c.options,
           GPhoto!set_widget(c.type, v)
    PROVE  Granted(j, c, v)
<1> DEFINE type == c.type
           radio == GPhoto!widget_for(type, "radio")
           range == GPhoto!widget_for(type, "range")
           toggle == GPhoto!widget_for(type, "toggle")
           pair == GPhoto!on_off_choice(body[radio].choices, v = TRUE)
<1>1. Named(body[j]) = type /\ type # None
  BY LeafTypes DEF LeafOf
<1>2. \A i \in DOMAIN body : WidgetOK(body[i])
  BY Trees DEF TreeIs
<1>3. CASE radio # 0
  <2> DEFINE w == body[radio]
             x == IF pair = None THEN v ELSE pair
  <2>1. GPhoto!Writes(type, v, radio, x)
    BY <1>3 DEF GPhoto!set_widget
  <2>2. /\ IsFirst(radio, type, "radio") /\ radio \in DOMAIN body
        /\ Named(w) = type /\ w.kind = "radio"
    BY <1>1, <1>3, WidgetFor DEF IsFirst
  <2>3. WidgetOK(w)
    BY <1>2, <2>2
  <2>4. /\ ~w.readonly
        /\ body' = [body EXCEPT ![radio].value = x]
        /\ changed' = [type |-> c.type, value |-> v]
    BY <2>1 DEF GPhoto!Writes, GPhoto!Accepts
  <2>5. CASE Switch(w)
    <3>1. x = IF v = TRUE THEN "On" ELSE "Off"
      BY <2>5, OnOffChoice DEF Switch
    <3>2. v \in {TRUE, FALSE} => x = IF v THEN "On" ELSE "Off"
      BY <3>1
    <3> HIDE DEF radio, x
    <3> QED  BY <1>1, <2>1, <2>2, <2>5, <3>2, SwitchWrite
  <2>6. CASE ~Switch(w)
    <3>1. x = v
      BY <2>6, OnOffChoice DEF Switch
    <3> HIDE DEF x, radio, pair
    <3>2. ASSUME radio = j, Becomes(w, v, c, v)
          PROVE  Granted(j, c, v)
      BY <2>2, <2>4, <3>1, <3>2 DEF Granted, Becomes
    <3>3. CASE type = "Iso"
      <4>1. radio = j
        <5>1. body[radio].key = "iso" /\ body[j].key = "iso"
          BY <1>1, <2>2, <3>3, KeyTable DEF Named
        <5> QED  BY <2>2, <5>1, Trees DEF TreeIs
      <4>2. c = GIso(w)
        BY <2>2, <2>6, <3>3, <4>1, GPhotoTypes DEF LeafOf
      <4>3. v \in IsoOptions(w)
        BY <4>2, GPhotoOptions
      <4>4. Becomes(w, v, GIso(w), v)
        BY <1>1, <2>2, <2>3, <2>4, <3>3, <4>3, IsoBecomes
      <4> QED  BY <3>2, <4>1, <4>2, <4>4
    <3>4. CASE type = "FocusMode"
      <4>1. radio = j
        <5> SUFFICES ASSUME radio # j  PROVE FALSE
          OBVIOUS
        <5>1. FocusOptions(w) # {}
          BY <1>1, <2>2, <3>4, Trees DEF TreeIs, Agree
        <5>2. LeafOf(w, GFocusMode(w)) /\ GFocusMode(w).type = type
          BY <1>1, <2>2, <2>4, <3>4, <5>1, GPhotoTypes DEF LeafOf
        <5> QED  BY <1>1, <2>2, <5>2, WrittenIsBest
      <4>2. c = GFocusMode(w)
        BY <2>2, <2>6, <3>4, <4>1, GPhotoTypes DEF LeafOf
      <4>3. v \in FocusOptions(w)
        BY <4>2, GPhotoOptions
      <4>4. Becomes(w, v, GFocusMode(w), v)
        BY <1>1, <2>2, <2>3, <2>4, <3>4, <4>3, FocusModeBecomes
      <4> QED  BY <3>2, <4>1, <4>2, <4>4
    <3>5. CASE type \notin {"Iso", "FocusMode"}
      <4>1. LeafOf(w, GList(w)) /\ GList(w).type = type
        BY <1>1, <2>2, <2>4, <2>6, <3>5, GPhotoTypes DEF LeafOf
      <4>2. radio = j
        BY <1>1, <2>2, <4>1, WrittenIsBest
      <4>3. c = GList(w)
        BY <2>3, <4>1, <4>2, OneOfAType
      <4>4. v \in GPhoto!Offered(Named(w), w.choices)
        BY <4>3, GPhotoOptions
      <4>5. Becomes(w, v, GList(w), v)
        BY <1>1, <2>2, <2>3, <2>4, <2>6, <3>5, <4>4, ListBecomes
      <4> QED  BY <3>2, <4>2, <4>3, <4>5
    <3> QED  BY <3>3, <3>4, <3>5
  <2> QED  BY <2>5, <2>6
<1>4. CASE radio = 0 /\ range # 0
  <2> DEFINE w == body[range]
  <2>1. GPhoto!Writes(type, v, range, v)
    BY <1>4 DEF GPhoto!set_widget
  <2>2. /\ IsFirst(range, type, "range") /\ range \in DOMAIN body
        /\ Named(w) = type /\ w.kind = "range"
    BY <1>1, <1>4, WidgetFor DEF IsFirst
  <2>3. WidgetOK(w)
    BY <1>2, <2>2
  <2>4. /\ ~w.readonly
        /\ body' = [body EXCEPT ![range].value = v]
        /\ changed' = [type |-> c.type, value |-> v]
    BY <2>1 DEF GPhoto!Writes, GPhoto!Accepts
  <2> HIDE DEF range
  <2>5. LeafOf(w, GRange(w)) /\ GRange(w).type = type
    BY <1>1, <2>2, <2>4, GPhotoTypes DEF LeafOf
  <2>6. range = j
    BY <1>1, <2>2, <2>5, WrittenIsBest
  <2>7. c = GRange(w)
    BY <2>3, <2>5, <2>6, OneOfAType
  <2>8. v \in ToSet(w.choices)
    BY <2>7, GPhotoOptions
  <2>9. Becomes(w, v, GRange(w), v)
    BY <1>1, <2>2, <2>3, <2>4, <2>8, RangeBecomes
  <2> QED  BY <2>2, <2>4, <2>6, <2>7, <2>8, <2>9 DEF Granted
<1>5. CASE radio = 0 /\ range = 0
  <2> DEFINE x == GPhoto!OnOff(v)
  <2>1. GPhoto!Writes(type, v, toggle, x)
    BY <1>5 DEF GPhoto!set_widget
  <2>2. toggle # 0
    BY <2>1 DEF GPhoto!Writes
  <2>3. IsFirst(toggle, type, "toggle")
    BY <1>1, <2>2, WidgetFor
  <2>4. Switch(body[toggle])
    BY <1>2, <2>3 DEF IsFirst, WidgetOK
  <2>5. v \in {TRUE, FALSE} => x = IF v THEN "On" ELSE "Off"
    BY DEF GPhoto!OnOff
  <2> HIDE DEF toggle, x
  <2> QED  BY <1>1, <2>1, <2>3, <2>4, <2>5, SwitchWrite
<1> QED  BY <1>3, <1>4, <1>5

LEMMA GPhotoWrite ==
    ASSUME GPhoto!TreeOK(body), NEW j \in DOMAIN body, NEW c, LeafOf(body[j], c),
           Tag(j, c) \in Best, NEW v \in c.options, GPhoto!set_parameter(c.type, v)
    PROVE  Granted(j, c, v)
<1>1. CASE c.type = "IsoAuto"
  <2>1. GPhoto!set_iso_auto(v)
    BY <1>1 DEF GPhoto!set_parameter
  <2> QED  BY <1>1, <2>1, IsoAutoWrite
<1>2. CASE c.type = "FocusAuto"
  <2>1. GPhoto!set_focus_auto(v)
    BY <1>2 DEF GPhoto!set_parameter
  <2> QED  BY <1>2, <2>1, FocusAutoWrite
<1>3. CASE c.type \notin {"IsoAuto", "FocusAuto"}
  <2>1. GPhoto!set_widget(c.type, v)
    BY <1>3 DEF GPhoto!set_parameter
  <2> QED  BY <1>3, <2>1, NamedWrite
<1> QED  BY <1>1, <1>2, <1>3

-----------------------------------------------------------------------------
(* After a write. *)
LEMMA TreeValued ==
    ASSUME GPhoto!TreeOK(body), NEW i \in DOMAIN body, NEW x \in ToSet(body[i].choices),
           body' = [body EXCEPT ![i].value = x]
    PROVE  /\ GPhoto!TreeOK(body') /\ DOMAIN body' = DOMAIN body
           /\ \A k \in DOMAIN body : Alike(body[k], body'[k])
           /\ body'[i] = Value(body[i], x)
           /\ \A k \in DOMAIN body : k # i => body'[k] = body[k]
<1>1. TreeIs(body) /\ body \in Seq(GPhoto!Widget)
  BY Trees DEF TreeIs
<1>2. WidgetOK(body[i]) /\ Alike(body[i], Value(body[i], x))
  BY <1>1, Revalued DEF TreeIs, Value
<1>3. body' = [body EXCEPT ![i] = Value(body[i], x)]
  BY DEF Value
<1>4. /\ DOMAIN body' = DOMAIN body /\ body'[i] = Value(body[i], x)
      /\ \A k \in DOMAIN body : k # i => body'[k] = body[k]
  BY <1>1, <1>3
<1>5. \A k \in DOMAIN body : Alike(body[k], body'[k])
  BY <1>1, <1>2, <1>4 DEF TreeIs, Alike
<1>6. body' \in Seq(GPhoto!Widget)
  <2>1. Value(body[i], x) \in GPhoto!Widget
    BY <1>2 DEF Alike, WidgetOK
  <2> QED  BY <1>1, <1>3, <2>1, ExceptSeq
<1>7. \A k \in DOMAIN body :
        /\ WidgetOK(body'[k]) /\ Named(body'[k]) = Named(body[k])
        /\ FocusOptions(body'[k]) = FocusOptions(body[k])
        /\ body'[k].key = body[k].key /\ body'[k].kind = body[k].kind
  BY <1>5 DEF Alike, Named, FocusOptions
<1>8. \A k, l \in DOMAIN body : body'[k].key = body'[l].key => k = l
  BY <1>1, <1>7 DEF TreeIs
<1>9. \A k, l \in DOMAIN body : Agree(body', k, l)
  BY <1>1, <1>7 DEF TreeIs, Agree
<1>10. TreeIs(body')
  BY <1>4, <1>6, <1>7, <1>8, <1>9 DEF TreeIs
<1> QED  BY <1>4, <1>5, <1>10, Trees

(* The same names, and the same of each. *)
SameShape ==
  /\ GPhoto!TreeOK(body) /\ GPhoto!TreeOK(body') /\ DOMAIN body' = DOMAIN body
  /\ \A k \in DOMAIN body : Alike(body[k], body'[k])

LEMMA BestStays ==
    ASSUME SameShape, NEW j \in DOMAIN body, NEW c, LeafOf(body[j], c), Tag(j, c) \in Best,
           NEW d, LeafOf(body'[j], d), d.type = c.type
    PROVE  Tag(j, d)' \in Best'
<1>1. \A k \in DOMAIN body : \A e : Tag(k, e)' = Tag(k, e)
  BY DEF SameShape, Alike, Tag
<1>2. Tag(j, d)' \in GPhoto!walk_widget'
  BY GPhotoPrimed DEF SameShape, WalkIs
<1>3. ASSUME NEW u \in GPhoto!walk_widget'
      PROVE  ~Beats(u, Tag(j, d)')
  <2>1. PICK k \in DOMAIN body : \E e : LeafOf(body'[k], e) /\ u = Tag(k, e)'
    BY GPhotoPrimed DEF SameShape, WalkIs
  <2>2. PICK e : LeafOf(body'[k], e) /\ u = Tag(k, e)'
    BY <2>1
  <2>3. Alike(body'[k], body[k])
    BY DEF SameShape, Alike
  <2>4. PICK f : LeafOf(body[k], f) /\ f.type = e.type
    BY <2>2, <2>3, AlikeLeaves
  <2>5. ~Beats(Tag(k, f), Tag(j, c))
    <3>1. Tag(k, f) \in GPhoto!walk_widget
      BY <2>4, Walk DEF SameShape, WalkIs
    <3> QED  BY <3>1, Bests DEF BestIs
  <2>6. /\ Tag(k, f).key = Tag(k, e).key /\ Tag(k, f).place = Tag(k, e).place
        /\ Tag(k, f).control.type = Tag(k, e).control.type
        /\ Tag(j, c).key = Tag(j, d).key /\ Tag(j, c).place = Tag(j, d).place
        /\ Tag(j, c).control.type = Tag(j, d).control.type
    BY <2>4, Tags
  <2>7. /\ GPhoto!rank(Tag(k, f)) = GPhoto!rank(Tag(k, e))
        /\ GPhoto!rank(Tag(j, c)) = GPhoto!rank(Tag(j, d))
    BY <2>6 DEF GPhoto!rank
  <2>8. ~Beats(Tag(k, e), Tag(j, d))
    BY <2>5, <2>6, <2>7 DEF Beats
  <2> QED  BY <1>1, <2>2, <2>8
<1> QED  BY <1>2, <1>3, GPhotoPrimed DEF BestIs

LEMMA TornStays ==
    ASSUME SameShape, NEW type, type \notin GPhoto!Torn'
    PROVE  type \notin GPhoto!Torn
<1> SUFFICES ASSUME type \in GPhoto!Torn  PROVE FALSE
  OBVIOUS
<1>1. IsTorn(type)
  BY Torns DEF SameShape, TornIs
<1>2. PICK i \in DOMAIN body, j \in DOMAIN body : \E c, d :
        /\ i # j /\ LeafOf(body[i], c) /\ LeafOf(body[j], d)
        /\ c.type = type /\ d.type = type
        /\ Named(body[i]) # type /\ Named(body[j]) # type
  BY <1>1 DEF IsTorn
<1>3. PICK c, d :
        /\ i # j /\ LeafOf(body[i], c) /\ LeafOf(body[j], d)
        /\ c.type = type /\ d.type = type
        /\ Named(body[i]) # type /\ Named(body[j]) # type
  BY <1>2
<1>4. Alike(body[i], body'[i]) /\ Alike(body[j], body'[j])
  BY DEF SameShape
<1>5. PICK e : LeafOf(body'[i], e) /\ e.type = type
  BY <1>3, <1>4, AlikeLeaves
<1>6. PICK f : LeafOf(body'[j], f) /\ f.type = type
  BY <1>3, <1>4, AlikeLeaves
<1>7. Named(body'[i]) # type /\ Named(body'[j]) # type
  BY <1>3, <1>4, AlikeParts
<1>8. IsTorn(type)'
  BY <1>3, <1>5, <1>6, <1>7 DEF SameShape, IsTorn
<1> QED  BY <1>8, GPhotoPrimed DEF SameShape, TornIs

LEMMA GPhotoSteps ==
    ASSUME GPhoto!TreeOK(body), GPhoto!GPhotoControlsNext
    PROVE  /\ GPhoto!TreeOK(body')
           /\ GPhoto!WriteLandsOnShown
           /\ changed' # None /\ changed'.type \notin GPhoto!Torn' =>
                \E t \in GPhoto!get_parameters' :
                  t.control.type = changed'.type /\ t.control.current = changed'.value
           /\ changed' # None => changed'.type \notin Positions \cup {"Shot", "Connected"}
<1>1. CASE GPhoto!Refuses
  BY <1>1 DEF GPhoto!Refuses, GPhoto!WriteLandsOnShown, GPhoto!Lands
<1>2. CASE GPhoto!Dial
  <2>1. changed' = None
    BY <1>2 DEF GPhoto!Dial
  <2>2. PICK i \in DOMAIN body : \E x \in ToSet(body[i].choices) :
          body' = [body EXCEPT ![i].value = x]
    BY <1>2, GPhotoToSet DEF GPhoto!Dial
  <2>3. PICK x \in ToSet(body[i].choices) : body' = [body EXCEPT ![i].value = x]
    BY <2>2
  <2>4. GPhoto!TreeOK(body')
    BY <2>3, TreeValued
  <2> QED  BY <2>1, <2>4 DEF GPhoto!WriteLandsOnShown, GPhoto!Lands
<1>3. ASSUME NEW s \in GPhoto!get_parameters, NEW v \in s.control.options,
             GPhoto!set_parameter(s.control.type, v)
      PROVE  /\ GPhoto!TreeOK(body')
             /\ GPhoto!WriteLandsOnShown
             /\ changed' # None /\ changed'.type \notin GPhoto!Torn' =>
                  \E t \in GPhoto!get_parameters' :
                    t.control.type = changed'.type /\ t.control.current = changed'.value
             /\ changed'.type \notin Positions \cup {"Shot", "Connected"}
  <2>1. PICK j \in DOMAIN body : \E c :
          LeafOf(body[j], c) /\ Tag(j, c) \in Best /\ Shows(s, Tag(j, c))
    BY ListedLeaf
  <2>2. PICK c : LeafOf(body[j], c) /\ Tag(j, c) \in Best /\ Shows(s, Tag(j, c))
    BY <2>1
  <2>3. /\ s.control.type = c.type /\ s.control.options = c.options
        /\ s.key = body[j].key
    BY <2>2, Tags DEF Shows
  <2>4. Granted(j, c, v)
    BY <1>3, <2>2, <2>3, GPhotoWrite
  <2>5. PICK i \in DOMAIN body : \E x \in ToSet(body[i].choices) :
          /\ body' = [body EXCEPT ![i].value = x]
          /\ changed' = [type |-> c.type, value |-> v]
          /\ c.type \notin GPhoto!Torn => i = j /\ Becomes(body[j], x, c, v)
    BY <2>4 DEF Granted
  <2>6. PICK x \in ToSet(body[i].choices) :
          /\ body' = [body EXCEPT ![i].value = x]
          /\ changed' = [type |-> c.type, value |-> v]
          /\ c.type \notin GPhoto!Torn => i = j /\ Becomes(body[j], x, c, v)
    BY <2>5
  <2>7. /\ SameShape
        /\ body'[i] = Value(body[i], x)
        /\ \A k \in DOMAIN body : k # i => body'[k] = body[k]
    BY <2>6, TreeValued DEF SameShape
  <2>8. changed'.type = c.type /\ changed'.value = v
    BY <2>6
  <2>9. GPhoto!WriteLandsOnShown
    <3> SUFFICES ASSUME NEW t \in GPhoto!get_parameters, t.control.type \notin GPhoto!Torn,
                        changed'.type = t.control.type,
                        NEW u \in GPhoto!get_parameters, NEW k \in DOMAIN body,
                        u.control.type = t.control.type, body[k] # body'[k]
                 PROVE  body[k].key = u.key
      BY DEF GPhoto!WriteLandsOnShown, GPhoto!Lands
    <3>1. u = s
      BY <2>3, <2>8, ListedOnes DEF ListedIs
    <3>2. k = i /\ i = j
      BY <2>3, <2>6, <2>7, <2>8
    <3> QED  BY <2>3, <3>1, <3>2
  <2>10. ASSUME changed'.type \notin GPhoto!Torn'
         PROVE  \E t \in GPhoto!get_parameters' :
                  t.control.type = changed'.type /\ t.control.current = changed'.value
    <3>1. i = j /\ Becomes(body[j], x, c, v)
      BY <2>6, <2>7, <2>8, <2>10, TornStays
    <3>2. PICK d : /\ LeafOf(Value(body[j], x), d)
                   /\ d.type = c.type /\ d.options = c.options /\ d.current = v
      BY <3>1 DEF Becomes
    <3>3. Tag(j, d)' \in Best'
      BY <2>2, <2>7, <3>1, <3>2, BestStays
    <3>4. Tag(j, d)'.control = d
      BY DEF Tag
    <3>5. GPhoto!Cardinality(d.options) >= 2
      BY <2>3, <3>2, ListedOnes DEF ListedIs
    <3>6. PICK t \in GPhoto!get_parameters' : Shows(t, Tag(j, d))'
      <4>1. GPhoto!Cardinality(Tag(j, d)'.control.options) >= 2
        BY <3>4, <3>5
      <4> QED  BY <2>7, <3>3, <4>1, GPhotoPrimed DEF SameShape, ListedIs
    <3> QED  BY <2>8, <3>2, <3>4, <3>6 DEF Shows
  <2>11. c.type \notin Positions \cup {"Shot", "Connected"}
    BY <2>2, LeafTypes, KeyTable DEF LeafOf, Named, Positions
  <2> QED  BY <2>7, <2>8, <2>9, <2>10, <2>11 DEF SameShape
<1>4. CASE \E s \in GPhoto!get_parameters : \E v \in s.control.options :
             GPhoto!set_parameter(s.control.type, v)
  <2>1. PICK s \in GPhoto!get_parameters : \E v \in s.control.options :
             GPhoto!set_parameter(s.control.type, v)
    BY <1>4
  <2>2. PICK v \in s.control.options : GPhoto!set_parameter(s.control.type, v)
    BY <2>1
  <2> QED  BY <1>3, <2>2
<1> QED  BY <1>1, <1>2, <1>4 DEF GPhoto!GPhotoControlsNext, GPhoto!SetListed

-----------------------------------------------------------------------------
(* Canon. *)
LEMMA CanonFirstOf ==
    ASSUME NEW T, NEW choices \in Seq(T), NEW set
    PROVE  \/ Canon!FirstOf(choices, set) = None /\ ToSet(choices) \cap set = {}
           \/ Canon!FirstOf(choices, set) \in ToSet(choices) \cap set
<1>1. Canon!FirstOf(choices, set) = FirstOf(choices, set)
  BY DEF Canon!FirstOf, FirstOf, Canon!Min, Min
<1> QED  BY <1>1, FirstOfIsChosen

(* What a Canon body is, setting by setting. *)
LEMMA CanonBody ==
    ASSUME Canon!BodyOK
    PROVE  /\ body.iso \in Canon!Offered(Nat)
           /\ body.speed \in Canon!Offered(Nat)
           /\ body.quality \in Canon!Offered(Canon!Qualities)
           /\ body.window \in {0, 1} \X {0, 1}
           /\ body.tells \in BOOLEAN
  BY DEF Canon!BodyOK

LEMMA CanonToSet == \A s : Canon!ToSet(s) = ToSet(s)
  BY DEF Canon!ToSet, ToSet

LEMMA CanonOffered ==
    ASSUME NEW codes, NEW p \in Canon!Offered(codes)
    PROVE  /\ p.offers \in Seq(codes) /\ p.value \in codes
           /\ \A c \in ToSet(p.offers) : c \in codes
           /\ p.offers # <<>> => p.value \in ToSet(p.offers)
<1>1. p.offers \in Seq(codes) /\ p.value \in codes
  BY DEF Canon!Offered
<1>2. p.offers # <<>> => p.value \in ToSet(p.offers)
  BY CanonToSet DEF Canon!Offered
<1>3. \A c \in ToSet(p.offers) : c \in codes
  BY <1>1 DEF ToSet
<1> QED  BY <1>1, <1>2, <1>3

LEMMA CanonRevalued ==
    ASSUME NEW codes, NEW p \in Canon!Offered(codes), NEW c \in codes,
           p.offers = <<>> \/ c \in ToSet(p.offers)
    PROVE  [p EXCEPT !.value = c] \in Canon!Offered(codes)
<1>1. p \in [offers : Seq(codes), value : codes]
  BY DEF Canon!Offered
<1>2. /\ [p EXCEPT !.value = c] \in [offers : Seq(codes), value : codes]
      /\ [p EXCEPT !.value = c].offers = p.offers
      /\ [p EXCEPT !.value = c].value = c
  BY <1>1
<1> QED  BY <1>2, CanonToSet DEF Canon!Offered

(* The controls that a Canon body may have. *)
CanonJpegs == {c \in ToSet(body.quality.offers) : ~c.raw}
CanonSpeeds == ToSet(body.speed.offers) \ {Canon!Bulb}
CanonConcrete == ToSet(body.iso.offers) \ {Canon!AutoIso}
CanonAuto == body.iso.value = Canon!AutoIso

CanonQuality == Canon!Control("ImageQuality", body.quality.value, CanonJpegs, FALSE)
CanonSpeed == Canon!Control("ShutterSpeed", body.speed.value, CanonSpeeds, FALSE)
CanonIsoAuto == Canon!Toggle("IsoAuto", CanonAuto, FALSE)
CanonIso ==
  Canon!Control("Iso", IF CanonAuto THEN Canon!FirstOf(body.iso.offers, CanonConcrete)
                       ELSE body.iso.value, CanonConcrete, CanonAuto)

CanonListIs ==
    \A t : t \in Canon!get_parameters_impl <=>
      \/ t = CanonQuality /\ body.quality.offers # <<>> /\ CanonJpegs # {}
      \/ t = CanonSpeed /\ body.speed.offers # <<>> /\ CanonSpeeds # {}
      \/ (t = CanonIsoAuto \/ t = CanonIso) /\ body.iso.offers # <<>>

LEMMA CanonList == CanonListIs
<1>1. /\ CanonJpegs = {c \in Canon!ToSet(body.quality.offers) : ~Canon!image_quality_has_raw(c)}
      /\ CanonSpeeds = Canon!ToSet(body.speed.offers) \ {Canon!Bulb}
      /\ CanonConcrete = Canon!ToSet(body.iso.offers) \ {Canon!AutoIso}
  BY CanonToSet DEF CanonJpegs, CanonSpeeds, CanonConcrete, Canon!image_quality_has_raw
<1> DEFINE qualities == Canon!Property("ImageQuality", body.quality, CanonJpegs)
           speeds == Canon!Property("ShutterSpeed", body.speed, CanonSpeeds)
           isos == IF body.iso.offers = <<>> THEN {} ELSE {CanonIsoAuto, CanonIso}
<1>2. Canon!get_parameters_impl = qualities \cup (speeds \cup isos)
  BY <1>1 DEF Canon!get_parameters_impl, CanonIsoAuto, CanonIso, CanonAuto
<1>3. qualities = IF body.quality.offers = <<>> \/ CanonJpegs = {} THEN {} ELSE {CanonQuality}
  BY DEF Canon!Property, CanonQuality
<1>4. speeds = IF body.speed.offers = <<>> \/ CanonSpeeds = {} THEN {} ELSE {CanonSpeed}
  BY DEF Canon!Property, CanonSpeed
<1> HIDE DEF qualities, speeds
<1> QED  BY <1>2, <1>3, <1>4 DEF CanonListIs

CanonPartsAre ==
    /\ CanonQuality.type = "ImageQuality" /\ CanonQuality.current = body.quality.value
    /\ CanonQuality.options = CanonJpegs /\ CanonQuality.disabled = FALSE
    /\ CanonSpeed.type = "ShutterSpeed" /\ CanonSpeed.current = body.speed.value
    /\ CanonSpeed.options = CanonSpeeds /\ CanonSpeed.disabled = FALSE
    /\ CanonIsoAuto.type = "IsoAuto" /\ CanonIsoAuto.current = CanonAuto
    /\ CanonIsoAuto.options = {TRUE, FALSE} /\ CanonIsoAuto.disabled = FALSE
    /\ CanonIso.type = "Iso" /\ CanonIso.options = CanonConcrete /\ CanonIso.disabled = CanonAuto
    /\ ~CanonAuto => CanonIso.current = body.iso.value

LEMMA CanonParts == CanonPartsAre
<1>1. /\ CanonQuality.type = "ImageQuality" /\ CanonQuality.current = body.quality.value
      /\ CanonQuality.options = CanonJpegs /\ CanonQuality.disabled = FALSE
  BY DEF CanonQuality, Canon!Control
<1>2. /\ CanonSpeed.type = "ShutterSpeed" /\ CanonSpeed.current = body.speed.value
      /\ CanonSpeed.options = CanonSpeeds /\ CanonSpeed.disabled = FALSE
  BY DEF CanonSpeed, Canon!Control
<1>3. /\ CanonIsoAuto.type = "IsoAuto" /\ CanonIsoAuto.current = CanonAuto
      /\ CanonIsoAuto.options = {TRUE, FALSE} /\ CanonIsoAuto.disabled = FALSE
  BY DEF CanonIsoAuto, Canon!Toggle, Canon!Control
<1>4. /\ CanonIso.type = "Iso" /\ CanonIso.options = CanonConcrete /\ CanonIso.disabled = CanonAuto
      /\ ~CanonAuto => CanonIso.current = body.iso.value
  BY DEF CanonIso, Canon!Control
<1> QED  BY <1>1, <1>2, <1>3, <1>4 DEF CanonPartsAre

LEMMA CanonPrimed == CanonListIs' /\ CanonPartsAre'
  BY CanonList, CanonParts, PTL

LEMMA CanonIsSound ==
    ASSUME Canon!BodyOK
    PROVE  LET list == Canon!get_parameters_impl
           IN  /\ \A t, u \in list : t.type = u.type => t = u
               /\ \A t, u \in list :
                    t.type = "IsoAuto" /\ t.current /\ u.type = "Iso" => u.disabled
               /\ \A t \in list : t.type # "FocusAuto"
               /\ \A t \in list :
                    \/ t.disabled \/ t.current \in t.options
                    \/ t.type \in {"ShutterSpeed", "ImageQuality"}
<1>1. \A t, u \in Canon!get_parameters_impl : t.type = u.type => t = u
  BY CanonList, CanonParts DEF CanonListIs, CanonPartsAre
<1>2. ASSUME NEW t \in Canon!get_parameters_impl, NEW u \in Canon!get_parameters_impl,
             t.type = "IsoAuto", t.current, u.type = "Iso"
      PROVE  u.disabled
  BY <1>2, CanonList, CanonParts DEF CanonListIs, CanonPartsAre
<1>3. ASSUME NEW t \in Canon!get_parameters_impl  PROVE t.type # "FocusAuto"
  BY <1>3, CanonList, CanonParts DEF CanonListIs, CanonPartsAre
<1>4. ASSUME NEW t \in Canon!get_parameters_impl
      PROVE  t.disabled \/ t.current \in t.options \/ t.type \in {"ShutterSpeed", "ImageQuality"}
  <2>1. CASE t = CanonIsoAuto
    BY <2>1, CanonParts DEF CanonAuto, CanonPartsAre
  <2>2. CASE t = CanonIso /\ ~CanonAuto /\ body.iso.offers # <<>>
    <3>1. body.iso.value \in ToSet(body.iso.offers)
      BY <2>2, CanonBody, CanonOffered
    <3>2. body.iso.value \in CanonConcrete
      BY <2>2, <3>1 DEF CanonConcrete, CanonAuto
    <3> QED  BY <2>2, <3>2, CanonParts DEF CanonPartsAre
  <2>3. CASE t = CanonIso /\ CanonAuto
    BY <2>3, CanonParts DEF CanonPartsAre
  <2>4. CASE t = CanonQuality \/ t = CanonSpeed
    BY <2>4, CanonParts DEF CanonPartsAre
  <2> QED  BY <2>1, <2>2, <2>3, <2>4, CanonList DEF CanonListIs
<1> QED  BY <1>1, <1>2, <1>3, <1>4

(* What a write that the body takes does. *)
LEMMA CanonWrite ==
    ASSUME Canon!BodyOK, NEW t \in Canon!get_parameters_impl, NEW v \in t.options, ~t.disabled,
           LET p == Canon!PropertyOf(t.type)
               code == Canon!Code(t.type, v)
           IN  /\ Canon!Takes(body[p], code)
               /\ body' = [body EXCEPT ![p].value = code]
    PROVE  /\ Canon!BodyOK'
           /\ \E u \in Canon!get_parameters_impl' : u.type = t.type /\ u.current = v
<1> USE CanonBody
<1>1. CASE t = CanonQuality /\ body.quality.offers # <<>> /\ CanonJpegs # {}
  <2>1. v \in CanonJpegs /\ t.type = "ImageQuality"
    BY <1>1, CanonParts DEF CanonPartsAre
  <2>2. Canon!PropertyOf(t.type) = "quality" /\ Canon!Code(t.type, v) = v
    BY <2>1 DEF Canon!PropertyOf, Canon!Code
  <2>3. body' = [body EXCEPT !.quality.value = v]
    BY <2>2
  <2>4. v \in ToSet(body.quality.offers) /\ v \in Canon!Qualities
    BY <2>1, CanonOffered DEF CanonJpegs
  <2>5. [body.quality EXCEPT !.value = v] \in Canon!Offered(Canon!Qualities)
    BY <2>4, CanonRevalued
  <2>6. Canon!BodyOK'
    BY <2>3, <2>5 DEF Canon!BodyOK
  <2>7. body'.quality.offers = body.quality.offers /\ body'.quality.value = v
    BY <2>3, CanonOffered DEF Canon!BodyOK, Canon!Offered
  <2>8. CanonJpegs' = CanonJpegs
    BY <2>7 DEF CanonJpegs
  <2>9. CanonQuality' \in Canon!get_parameters_impl'
    BY <1>1, <2>7, <2>8, CanonPrimed DEF CanonListIs
  <2> QED  BY <2>1, <2>6, <2>7, <2>9, CanonPrimed DEF CanonPartsAre
<1>2. CASE t = CanonSpeed /\ body.speed.offers # <<>> /\ CanonSpeeds # {}
  <2>1. v \in CanonSpeeds /\ t.type = "ShutterSpeed"
    BY <1>2, CanonParts DEF CanonPartsAre
  <2>2. Canon!PropertyOf(t.type) = "speed" /\ Canon!Code(t.type, v) = v
    BY <2>1 DEF Canon!PropertyOf, Canon!Code
  <2>3. body' = [body EXCEPT !.speed.value = v]
    BY <2>2
  <2>4. v \in ToSet(body.speed.offers) /\ v \in Nat
    BY <2>1, CanonOffered DEF CanonSpeeds
  <2>5. [body.speed EXCEPT !.value = v] \in Canon!Offered(Nat)
    BY <2>4, CanonRevalued
  <2>6. Canon!BodyOK'
    BY <2>3, <2>5 DEF Canon!BodyOK
  <2>7. body'.speed.offers = body.speed.offers /\ body'.speed.value = v
    BY <2>3, CanonOffered DEF Canon!BodyOK, Canon!Offered
  <2>8. CanonSpeeds' = CanonSpeeds
    BY <2>7 DEF CanonSpeeds
  <2>9. CanonSpeed' \in Canon!get_parameters_impl'
    BY <1>2, <2>7, <2>8, CanonPrimed DEF CanonListIs
  <2> QED  BY <2>1, <2>6, <2>7, <2>9, CanonPrimed DEF CanonPartsAre
<1>3. CASE (t = CanonIsoAuto \/ t = CanonIso) /\ body.iso.offers # <<>>
  <2> DEFINE code == Canon!Code(t.type, v)
  <2>1. /\ Canon!PropertyOf(t.type) = "iso"
        /\ t = CanonIsoAuto \/ t.type = "Iso"
    BY <1>3, CanonParts DEF CanonPartsAre, Canon!PropertyOf
  <2>2. body' = [body EXCEPT !.iso.value = code]
    BY <2>1
  <2>3. code \in ToSet(body.iso.offers)
    BY <1>3, <2>1, CanonToSet DEF Canon!Takes
  <2>4. code \in Nat
    BY <2>3, CanonOffered
  <2>5. [body.iso EXCEPT !.value = code] \in Canon!Offered(Nat)
    <3> HIDE DEF code
    <3> QED  BY <2>3, <2>4, CanonRevalued
  <2>6. Canon!BodyOK'
    <3> HIDE DEF code
    <3> QED  BY <2>2, <2>5 DEF Canon!BodyOK
  <2>7. body'.iso.offers = body.iso.offers /\ body'.iso.value = code
    <3> HIDE DEF code
    <3> QED  BY <2>2, CanonOffered DEF Canon!BodyOK, Canon!Offered
  <2>8. CanonAuto' = (code = Canon!AutoIso)
    BY <2>7 DEF CanonAuto, Canon!AutoIso
  <2>9. CASE t = CanonIsoAuto
    <3>1. v \in BOOLEAN /\ t.type = "IsoAuto"
      BY <2>9, CanonParts DEF CanonPartsAre
    <3>3. code = Canon!AutoIso <=> v
      <4>1. CASE v = TRUE
        BY <3>1, <4>1 DEF Canon!Code
      <4>2. CASE v = FALSE
        <5>1. code = Canon!FirstOf(body.iso.offers, CanonConcrete)
          BY <3>1, <4>2, CanonToSet DEF Canon!Code, Canon!set_iso_manual_impl, CanonConcrete
        <5>2. code # None
          BY <2>1 DEF Canon!Takes
        <5>3. code \in CanonConcrete
          <6> HIDE DEF code
          <6> QED  BY <5>1, <5>2, CanonFirstOf, CanonOffered
        <5> QED  BY <4>2, <5>3 DEF CanonConcrete
      <4> QED  BY <3>1, <4>1, <4>2
    <3>4. CanonIsoAuto' \in Canon!get_parameters_impl'
      BY <1>3, <2>7, CanonPrimed DEF CanonListIs
    <3>5. CanonIsoAuto'.type = "IsoAuto" /\ CanonIsoAuto'.current = CanonAuto'
      BY CanonPrimed DEF CanonPartsAre
    <3> QED  BY <2>6, <2>8, <3>1, <3>3, <3>4, <3>5
  <2>10. CASE t = CanonIso /\ t.type = "Iso"
    <3>1. v \in CanonConcrete /\ ~CanonAuto
      BY <2>10, CanonParts DEF CanonPartsAre
    <3>2. code = v
      BY <2>10 DEF Canon!Code
    <3>3. ~CanonAuto'
      BY <2>8, <3>1, <3>2 DEF CanonConcrete
    <3>4. CanonIso' \in Canon!get_parameters_impl'
      BY <1>3, <2>7, CanonPrimed DEF CanonListIs
    <3>5. CanonIso'.type = "Iso" /\ CanonIso'.current = v
      BY <2>7, <3>2, <3>3, CanonPrimed DEF CanonPartsAre
    <3> QED  BY <2>6, <2>10, <3>4, <3>5
  <2> QED  BY <1>3, <2>1, <2>9, <2>10, CanonParts DEF CanonPartsAre
<1> QED  BY <1>1, <1>2, <1>3, CanonList DEF CanonListIs

LEMMA CanonConnects ==
    ASSUME Canon!BodyOK, Canon!force_jpeg_only_quality
    PROVE  Canon!BodyOK' /\ Canon!ForcedToJpeg
<1> DEFINE q == body.quality
           target == Canon!JpegTarget(q)
           jpegs == {c \in ToSet(q.offers) : ~Canon!image_quality_has_raw(c)}
           jpeg == IF q.value.jpeg = None THEN "fine" ELSE q.value.jpeg
           kept == Canon!Quality(FALSE, jpeg)
<1>1. q \in Canon!Offered(Canon!Qualities) /\ q.offers \in Seq(Canon!Qualities)
      /\ q.value \in Canon!Qualities /\ \A c \in ToSet(q.offers) : c \in Canon!Qualities
  BY CanonBody, CanonOffered
<1>2. /\ q.value.raw \in BOOLEAN
      /\ q.value = [raw |-> q.value.raw, jpeg |-> q.value.jpeg]
      /\ q.value.jpeg \in STRING \cup {None}
  BY <1>1 DEF Canon!Qualities
<1>3. kept \in Canon!Qualities /\ kept.raw = FALSE /\ kept.jpeg = jpeg
  <2>1. jpeg \in STRING \cup {None}
    <3>1. CASE q.value.jpeg = None
      <4>1. jpeg = "fine"
        BY <3>1
      <4> QED  BY <4>1, WordAssumption
    <3>2. CASE q.value.jpeg # None
      <4>1. jpeg = q.value.jpeg
        BY <3>2
      <4> QED  BY <1>2, <4>1
    <3> QED  BY <3>1, <3>2
  <2> HIDE DEF jpeg
  <2> QED  BY <2>1 DEF Canon!Quality, Canon!Qualities
<1>4. target = IF q.offers = <<>> \/ kept \in ToSet(q.offers) THEN kept
               ELSE Canon!FirstOf(q.offers, jpegs)
  BY CanonToSet DEF Canon!JpegTarget
<1>5. \/ Canon!FirstOf(q.offers, jpegs) = None /\ jpegs = {}
      \/ Canon!FirstOf(q.offers, jpegs) \in jpegs
  <2> HIDE DEF q
  <2> QED  BY <1>1, CanonFirstOf
<1>6. \A c \in jpegs : c.raw = FALSE /\ c \in ToSet(q.offers)
  BY <1>1 DEF Canon!image_quality_has_raw, Canon!Qualities
<1>7. /\ body' = IF q.value.raw /\ Canon!Takes(q, target)
                 THEN [body EXCEPT !.quality.value = target] ELSE body
      /\ changed' = [type |-> "Connected", value |-> body'.quality.value]
  BY DEF Canon!force_jpeg_only_quality, Canon!image_quality_has_raw, Canon!Accepts
<1> HIDE DEF target, jpegs, kept
<1>8. CASE q.value.raw /\ Canon!Takes(q, target)
  <2>1. /\ target # None
        /\ q.offers = <<>> \/ target \in ToSet(q.offers)
    BY <1>8, CanonToSet DEF Canon!Takes
  <2>2. target = kept \/ target \in jpegs
    BY <1>4, <1>5, <2>1
  <2>3. target \in Canon!Qualities /\ target.raw = FALSE
    BY <1>1, <1>3, <1>6, <2>2
  <2>4. [body.quality EXCEPT !.value = target] \in Canon!Offered(Canon!Qualities)
    BY <1>1, <2>1, <2>3, CanonRevalued
  <2>5. Canon!BodyOK'
    BY <1>7, <1>8, <2>4, CanonBody DEF Canon!BodyOK
  <2>6. body'.quality.value = target
    BY <1>1, <1>7, <1>8 DEF Canon!BodyOK, Canon!Offered
  <2>7. q.value.jpeg # None /\ Canon!Quality(FALSE, q.value.jpeg) \in ToSet(q.offers) =>
          target = Canon!Quality(FALSE, q.value.jpeg)
    BY <1>4 DEF kept
  <2> QED  BY <1>7, <2>3, <2>5, <2>6, <2>7, CanonToSet DEF Canon!ForcedToJpeg
<1>9. CASE q.value.raw /\ ~Canon!Takes(q, target)
  <2>1. \/ target = None
        \/ q.offers # <<>> /\ target \notin ToSet(q.offers)
    BY <1>9, CanonToSet DEF Canon!Takes
  <2>2. target = None /\ jpegs = {} /\ kept \notin ToSet(q.offers)
    BY <1>1, <1>3, <1>4, <1>5, <1>6, <2>1, NoneAssumption
  <2>3. \A c \in ToSet(q.offers) : c.raw
    BY <2>2 DEF jpegs, Canon!image_quality_has_raw
  <2>4. q.value.jpeg # None => Canon!Quality(FALSE, q.value.jpeg) \notin ToSet(q.offers)
    BY <2>2 DEF kept
  <2> QED  BY <1>7, <1>9, <2>3, <2>4, CanonToSet DEF Canon!ForcedToJpeg, Canon!BodyOK
<1>10. CASE ~q.value.raw
  <2>1. q.value.jpeg # None => Canon!Quality(FALSE, q.value.jpeg) = q.value
    BY <1>2, <1>10 DEF Canon!Quality
  <2> QED  BY <1>7, <1>10, <2>1 DEF Canon!ForcedToJpeg, Canon!BodyOK
<1> QED  BY <1>8, <1>9, <1>10

LEMMA CanonSteps ==
    ASSUME Canon!BodyOK, Canon!CanonControlsNext
    PROVE  /\ Canon!BodyOK'
           /\ Canon!ForcedToJpeg
           /\ changed' # None /\ changed'.type \notin Positions \cup {"Connected"} =>
                \E t \in Canon!get_parameters_impl' :
                  t.type = changed'.type /\ t.current = changed'.value
<1>1. CASE Canon!force_jpeg_only_quality
  BY <1>1, CanonConnects DEF Canon!force_jpeg_only_quality, Canon!Accepts
<1>2. CASE Canon!Refuses
  BY <1>2, NoneAssumption DEF Canon!Refuses, Canon!BodyOK, Canon!ForcedToJpeg
<1>3. CASE \E t \in Canon!get_parameters_impl : \E v \in t.options :
             LET p == Canon!PropertyOf(t.type)
                 code == Canon!Code(t.type, v)
             IN  /\ ~t.disabled
                 /\ Canon!Takes(body[p], code)
                 /\ body' = [body EXCEPT ![p].value = code]
                 /\ Canon!Accepts(t.type, v)
  <2>0. PICK t \in Canon!get_parameters_impl : \E v \in t.options :
             LET p == Canon!PropertyOf(t.type)
                 code == Canon!Code(t.type, v)
             IN  /\ ~t.disabled
                 /\ Canon!Takes(body[p], code)
                 /\ body' = [body EXCEPT ![p].value = code]
                 /\ Canon!Accepts(t.type, v)
    BY <1>3
  <2>1. PICK v \in t.options :
             LET p == Canon!PropertyOf(t.type)
                 code == Canon!Code(t.type, v)
             IN  /\ ~t.disabled
                 /\ Canon!Takes(body[p], code)
                 /\ body' = [body EXCEPT ![p].value = code]
                 /\ Canon!Accepts(t.type, v)
    BY <2>0
  <2>2. /\ Canon!BodyOK'
        /\ \E u \in Canon!get_parameters_impl' : u.type = t.type /\ u.current = v
    BY <2>1, CanonWrite
  <2>3. changed' = [type |-> t.type, value |-> v] /\ t.type # "Connected"
    BY <2>1, CanonList, CanonParts DEF Canon!Accepts, CanonListIs, CanonPartsAre
  <2> QED  BY <2>2, <2>3 DEF Canon!ForcedToJpeg
<1>4. CASE Canon!set_evf_zoom_axis_impl
  <2>1. PICK isX \in BOOLEAN, v \in {0, 1} :
          LET now == IF body.tells THEN body.window ELSE <<0, 0>>
          IN  /\ body' = [body EXCEPT !.window = IF isX THEN <<v, now[2]>> ELSE <<now[1], v>>]
              /\ Canon!Accepts(IF isX THEN "LiveViewPan" ELSE "LiveViewTilt", v)
    BY <1>4 DEF Canon!set_evf_zoom_axis_impl
  <2>2. changed'.type \in Positions /\ changed'.type # "Connected"
    BY <2>1 DEF Canon!Accepts, Positions
  <2>3. Canon!BodyOK'
    BY <2>1 DEF Canon!BodyOK
  <2> QED  BY <2>2, <2>3 DEF Canon!ForcedToJpeg
<1>5. CASE Canon!Dial
  <2>0. PICK p \in {"iso", "speed", "quality"} : \E code \in ToSet(body[p].offers) :
          body' = [body EXCEPT ![p].value = code]
    BY <1>5, CanonToSet DEF Canon!Dial
  <2>1. PICK code \in ToSet(body[p].offers) : body' = [body EXCEPT ![p].value = code]
    BY <2>0
  <2>2. CASE p = "quality"
    <3>1. [body.quality EXCEPT !.value = code] \in Canon!Offered(Canon!Qualities)
      BY <2>1, <2>2, CanonBody, CanonOffered, CanonRevalued
    <3> QED  BY <1>5, <2>1, <2>2, <3>1 DEF Canon!BodyOK, Canon!Dial, Canon!ForcedToJpeg
  <2>3. CASE p = "iso"
    <3>1. [body.iso EXCEPT !.value = code] \in Canon!Offered(Nat)
      BY <2>1, <2>3, CanonBody, CanonOffered, CanonRevalued
    <3> QED  BY <1>5, <2>1, <2>3, <3>1 DEF Canon!BodyOK, Canon!Dial, Canon!ForcedToJpeg
  <2>4. CASE p = "speed"
    <3>1. [body.speed EXCEPT !.value = code] \in Canon!Offered(Nat)
      BY <2>1, <2>4, CanonBody, CanonOffered, CanonRevalued
    <3> QED  BY <1>5, <2>1, <2>4, <3>1 DEF Canon!BodyOK, Canon!Dial, Canon!ForcedToJpeg
  <2> QED  BY <2>1, <2>2, <2>3, <2>4
<1> QED  BY <1>1, <1>2, <1>3, <1>4, <1>5 DEF Canon!CanonControlsNext, Canon!set_parameter_impl

-----------------------------------------------------------------------------
(* Sony. *)
LEMMA SonyToSet == \A s : Sony!ToSet(s) = ToSet(s)
  BY DEF Sony!ToSet, ToSet

LEMMA SonyCardinality == \A S : Sony!Cardinality(S) = Cardinality(S)
  BY DEF Sony!Cardinality, Cardinality

LEMMA SonyMin ==
    ASSUME NEW S, S # {}, \A x \in S : x \in Nat
    PROVE  Sony!Min(S) \in S
<1>1. Sony!Min(S) = Min(S)
  BY DEF Min, Sony!Min
<1> QED  BY <1>1, MinIsLeast

LEMMA SonyBody ==
    ASSUME Sony!BodyOK, NEW p \in {"IsoP", "SpeedP", "BiasP"}
    PROVE  /\ body[p] \in Sony!Property
           /\ body[p].offers \in Seq(0..3)
           /\ body[p].value \in 0..15
           /\ body[p].writable \in BOOLEAN
           /\ Sony!Mask(body[p].value) \in 0..3
           /\ Sony!Mask(body[p].value) \in ToSet(body[p].offers)
           /\ \A v \in ToSet(body[p].offers) : v \in 0..3
<1>1. /\ body \in [IsoP : Sony!Property, SpeedP : Sony!Property, BiasP : Sony!Property]
      /\ \A q \in DOMAIN body : Sony!Mask(body[q].value) \in ToSet(body[q].offers)
  BY SonyToSet DEF Sony!BodyOK
<1>2. body[p] \in Sony!Property /\ p \in DOMAIN body
  BY <1>1
<1>3. /\ body[p].offers \in Seq(0..3)
      /\ body[p].value \in 0..15
      /\ body[p].writable \in BOOLEAN
  BY <1>2 DEF Sony!Property, Sony!Word
<1>4. \A v \in ToSet(body[p].offers) : v \in 0..3
  BY <1>3 DEF ToSet
<1>5. Sony!Mask(body[p].value) \in 0..3
  BY <1>3 DEF Sony!Mask
<1> QED  BY <1>1, <1>2, <1>3, <1>4, <1>5

(* The controls that a Sony body may have. *)
SonyNow(p) == Sony!Mask(body[p].value)
SonyAuto == SonyNow("IsoP") = Sony!IsoAutoValue
SonyFixed(p) == ~body[p].writable
SonyIsos == Sony!concrete(body.IsoP)
SonyIsoShut == SonyAuto \/ SonyFixed("IsoP")
SonyOffers(type, p) == Sony!options(type, body[p])
SonyOptions(type, p) ==
  IF SonyOffers(type, p) = {} THEN {SonyNow(p)} ELSE SonyOffers(type, p)
SonyShut(type, p) == Sony!shut(type, body[p])

SonyIsoAuto == Sony!Toggle("IsoAuto", SonyAuto, SonyFixed("IsoP"))
SonyIso == Sony!Control("Iso", SonyNow("IsoP"), SonyIsos, SonyIsoShut)
SonyPlain(type, p) == Sony!Control(type, SonyNow(p), SonyOptions(type, p), SonyShut(type, p))

SonyListIs ==
    \A t : t \in Sony!get_parameters_impl <=>
      \/ t = SonyIsoAuto
      \/ t = SonyIso /\ ~(Cardinality(SonyIsos) < 2)
      \/ t = SonyPlain("ShutterSpeed", "SpeedP")
      \/ t = SonyPlain("ExposureCompensation", "BiasP")

LEMMA SonyList == SonyListIs
<1>1. ASSUME NEW type, NEW p
      PROVE  Sony!build_parameter(type, body[p]) = {SonyPlain(type, p)}
  BY DEF Sony!build_parameter, SonyPlain, SonyShut, SonyOptions, SonyOffers, SonyNow
<1>2. Sony!build_iso_params(body.IsoP) =
        {SonyIsoAuto} \cup IF Cardinality(SonyIsos) < 2 THEN {} ELSE {SonyIso}
  BY SonyCardinality DEF Sony!build_iso_params, SonyNow, SonyAuto, SonyIsos, SonyIso, SonyIsoShut,
     SonyFixed, SonyIsoAuto, Sony!iso_is_auto
<1>3. Sony!get_parameters_impl =
        Sony!build_iso_params(body.IsoP)
          \cup Sony!build_parameter("ShutterSpeed", body["SpeedP"])
          \cup Sony!build_parameter("ExposureCompensation", body["BiasP"])
  BY DEF Sony!get_parameters_impl
<1> QED  BY <1>1, <1>2, <1>3 DEF SonyListIs

(* What the sets of values are. *)
LEMMA SonyValues ==
    /\ \A v : v \in SonyIsos <=> v \in ToSet(body.IsoP.offers) /\ v # Sony!IsoAutoValue
    /\ \A type, p, v : v \in SonyOffers(type, p) <=>
         v \in ToSet(body[p].offers) /\ ~Sony!is_hidden_option(type, v)
  BY SonyToSet DEF SonyIsos, SonyOffers, Sony!concrete, Sony!options, Sony!iso_is_auto

SonyPartsAre ==
    /\ SonyIsoAuto.type = "IsoAuto" /\ SonyIsoAuto.current = SonyAuto
    /\ SonyIsoAuto.options = {TRUE, FALSE} /\ SonyIsoAuto.disabled = SonyFixed("IsoP")
    /\ SonyIso.type = "Iso" /\ SonyIso.current = SonyNow("IsoP")
    /\ SonyIso.options = SonyIsos /\ SonyIso.disabled = SonyIsoShut
    /\ \A type, p :
         LET t == SonyPlain(type, p)
         IN  /\ t.type = type /\ t.current = SonyNow(p)
             /\ t.options = SonyOptions(type, p) /\ t.disabled = SonyShut(type, p)

LEMMA SonyParts == SonyPartsAre
<1>1. /\ SonyIsoAuto.type = "IsoAuto" /\ SonyIsoAuto.current = SonyAuto
      /\ SonyIsoAuto.options = {TRUE, FALSE} /\ SonyIsoAuto.disabled = SonyFixed("IsoP")
  BY DEF SonyIsoAuto, Sony!Toggle, Sony!Control
<1>2. /\ SonyIso.type = "Iso" /\ SonyIso.current = SonyNow("IsoP")
      /\ SonyIso.options = SonyIsos /\ SonyIso.disabled = SonyIsoShut
  BY DEF SonyIso, Sony!Control
<1>3. \A type, p :
         LET t == SonyPlain(type, p)
         IN  /\ t.type = type /\ t.current = SonyNow(p)
             /\ t.options = SonyOptions(type, p) /\ t.disabled = SonyShut(type, p)
  BY DEF SonyPlain, Sony!Control
<1> QED  BY <1>1, <1>2, <1>3 DEF SonyPartsAre

LEMMA SonyPrimed == SonyListIs' /\ SonyPartsAre'
  BY SonyList, SonyParts, PTL

(* An open control has two things to choose from. *)
LEMMA TwoOf ==
    /\ Cardinality({}) = 0
    /\ Cardinality({TRUE, FALSE}) = 2
    /\ \A S : \A n \in Nat : S \in SUBSET (0..n) => Cardinality(S) \in Nat
<1>1. Cardinality({}) = 0
  BY FS_EmptySet
<1>2. Cardinality({TRUE, FALSE}) = 2
  <2>1. ASSUME NEW a, NEW b, a # b  PROVE Cardinality({a, b}) = 2
    <3>1. IsFiniteSet({b}) /\ Cardinality({b}) = 1
      BY FS_Singleton
    <3>2. Cardinality({b} \cup {a}) = Cardinality({b}) + 1
      BY <2>1, <3>1, FS_AddElement
    <3>3. {b} \cup {a} = {a, b}
      OBVIOUS
    <3> QED  BY <3>1, <3>2, <3>3
  <2>2. TRUE # FALSE
    OBVIOUS
  <2> QED  BY <2>1, <2>2, Zenon
<1>3. ASSUME NEW n \in Nat, NEW S \in SUBSET (0..n)  PROVE Cardinality(S) \in Nat
  <2>1. IsFiniteSet(0..n)
    BY FS_Interval
  <2> QED  BY <2>1, FS_Subset, FS_CardinalityType
<1> QED  BY <1>1, <1>2, <1>3

LEMMA SonyIsSound ==
    ASSUME Sony!BodyOK
    PROVE  LET list == Sony!get_parameters_impl
           IN  /\ \A t, u \in list : t.type = u.type => t = u
               /\ \A t, u \in list :
                    t.type = "IsoAuto" /\ t.current /\ u.type = "Iso" => u.disabled
               /\ \A t \in list : t.type # "FocusAuto"
               /\ \A t \in list :
                    \/ t.disabled \/ t.current \in t.options
                    \/ t.type \in {"ShutterSpeed", "ImageQuality"}
               /\ \A t \in list : t.disabled \/ Cardinality(t.options) >= 2
<1> USE DEF SonyListIs, SonyPartsAre
<1>1. \A t, u \in Sony!get_parameters_impl : t.type = u.type => t = u
  BY SonyList, SonyParts
<1>2. ASSUME NEW t \in Sony!get_parameters_impl, NEW u \in Sony!get_parameters_impl,
             t.type = "IsoAuto", t.current, u.type = "Iso"
      PROVE  u.disabled
  <2>1. u = SonyIso /\ t = SonyIsoAuto
    BY <1>2, SonyList, SonyParts
  <2>2. SonyAuto => SonyIsoShut
    BY DEF SonyIsoShut
  <2> QED  BY <1>2, <2>1, <2>2, SonyParts
<1>3. ASSUME NEW t \in Sony!get_parameters_impl  PROVE t.type # "FocusAuto"
  BY <1>3, SonyList, SonyParts
<1>4. ASSUME NEW t \in Sony!get_parameters_impl
      PROVE  /\ t.disabled \/ t.current \in t.options \/ t.type \in {"ShutterSpeed", "ImageQuality"}
             /\ t.disabled \/ Cardinality(t.options) >= 2
  <2>1. CASE t = SonyIsoAuto
    <3>1. t.type = "IsoAuto" /\ t.options = {TRUE, FALSE} /\ t.current = SonyAuto
      BY <2>1, SonyParts
    <3>2. SonyAuto \in {TRUE, FALSE}
      BY DEF SonyAuto
    <3>3. Cardinality(t.options) >= 2
      BY <3>1, TwoOf
    <3> QED  BY <3>1, <3>2, <3>3
  <2>2. CASE t = SonyIso /\ ~(Cardinality(SonyIsos) < 2)
    <3>1. SonyNow("IsoP") \in ToSet(body.IsoP.offers)
      BY SonyBody DEF SonyNow
    <3>2. SonyAuto \/ SonyNow("IsoP") \in SonyIsos
      BY <3>1, SonyValues DEF SonyAuto
    <3>3. Cardinality(SonyIsos) \in Nat
      <4>1. SonyIsos \in SUBSET (0..3)
        BY SonyBody, SonyValues
      <4> QED  BY <4>1, TwoOf
    <3>4. Cardinality(SonyIsos) >= 2
      BY <2>2, <3>3
    <3>5. t.current = SonyNow("IsoP") /\ t.options = SonyIsos /\ t.disabled = SonyIsoShut
      BY <2>2, SonyParts
    <3>6. SonyAuto => SonyIsoShut
      BY DEF SonyIsoShut
    <3>7. CASE SonyAuto
      BY <3>4, <3>5, <3>6, <3>7
    <3> QED  BY <3>2, <3>4, <3>5, <3>7
  <2>3. ASSUME NEW type \in {"ShutterSpeed", "ExposureCompensation"},
               NEW p \in {"SpeedP", "BiasP"}, t = SonyPlain(type, p)
        PROVE  /\ \/ t.disabled \/ t.current \in t.options
                  \/ t.type \in {"ShutterSpeed", "ImageQuality"}
               /\ t.disabled \/ Cardinality(t.options) >= 2
    <3> DEFINE options == SonyOffers(type, p)
    <3>1. /\ t.type = type /\ t.current = SonyNow(p)
          /\ t.options = SonyOptions(type, p) /\ t.disabled = SonyShut(type, p)
      BY <2>3, SonyParts
    <3>2. options \in SUBSET (0..3)
      BY SonyBody, SonyValues
    <3>3. Cardinality(options) \in Nat
      BY <3>2, TwoOf
    <3>4. t.disabled \/ (Cardinality(options) >= 2 /\ options # {})
      <4> HIDE DEF options
      <4>1. t.disabled \/ Cardinality(options) >= 2
        <5>1. ~SonyShut(type, p) => ~(Cardinality(options) < 2)
          BY SonyCardinality DEF SonyShut, Sony!shut, SonyOffers, options
        <5>2. CASE SonyShut(type, p)
          BY <3>1, <5>2
        <5> QED  BY <3>3, <5>1, <5>2
      <4> QED  BY <4>1, TwoOf
    <3>5. options # {} => t.options = options
      BY <3>1 DEF SonyOptions
    <3>6. type # "ShutterSpeed" /\ options # {} => t.current \in t.options
      <4>1. SonyNow(p) \in ToSet(body[p].offers)
        BY SonyBody DEF SonyNow
      <4> QED  BY <3>1, <3>5, <4>1, SonyValues DEF Sony!is_hidden_option
    <3> HIDE DEF options
    <3> QED  BY <3>1, <3>4, <3>5, <3>6
  <2> QED  BY <2>1, <2>2, <2>3, SonyList
<1> QED  BY <1>1, <1>2, <1>3, <1>4

(* A property that is set to one of its offers. *)
LEMMA SonyRevalued ==
    ASSUME Sony!BodyOK, NEW p \in {"IsoP", "SpeedP", "BiasP"}, NEW w \in 0..15,
           Sony!Mask(w) \in ToSet(body[p].offers),
           body' = [body EXCEPT ![p].value = w]
    PROVE  /\ Sony!BodyOK'
           /\ \A q \in {"IsoP", "SpeedP", "BiasP"} :
                /\ body'[q].offers = body[q].offers
                /\ body'[q].writable = body[q].writable
                /\ body'[q].value = IF q = p THEN w ELSE body[q].value
<1>1. /\ body \in [IsoP : Sony!Property, SpeedP : Sony!Property, BiasP : Sony!Property]
      /\ \A q \in DOMAIN body : Sony!Mask(body[q].value) \in ToSet(body[q].offers)
  BY SonyToSet DEF Sony!BodyOK
<1>2. \A q \in {"IsoP", "SpeedP", "BiasP"} :
                /\ body'[q].offers = body[q].offers
                /\ body'[q].writable = body[q].writable
                /\ body'[q].value = IF q = p THEN w ELSE body[q].value
  BY <1>1 DEF Sony!Property
<1>3. [body[p] EXCEPT !.value = w] \in Sony!Property
  <2>1. body[p] \in Sony!Property
    BY <1>1
  <2>2. w \in 0..(Sony!Word - 1)
    BY DEF Sony!Word
  <2> QED  BY <2>1, <2>2 DEF Sony!Property
<1>4. body' \in [IsoP : Sony!Property, SpeedP : Sony!Property, BiasP : Sony!Property]
  BY <1>1, <1>3
<1>5. \A q \in DOMAIN body' : Sony!Mask(body'[q].value) \in ToSet(body'[q].offers)
  <2> TAKE q \in DOMAIN body'
  <2>1. q \in {"IsoP", "SpeedP", "BiasP"} /\ q \in DOMAIN body
    BY <1>1, <1>4
  <2> QED  BY <1>1, <1>2, <2>1
<1> QED  BY <1>2, <1>4, <1>5, SonyToSet DEF Sony!BodyOK

(* Whatever the body makes of an accepted value is what the next list shows;
   it is the choice of the client if the body took its value. *)
LEMMA SonyWrite ==
    ASSUME Sony!BodyOK, NEW t \in Sony!get_parameters_impl, NEW v \in t.options, ~t.disabled,
           Sony!Value(t.type, v) # None,
           Sony!set_property(Sony!PropertyOf(t.type), Sony!Value(t.type, v))
    PROVE  /\ Sony!BodyOK'
           /\ \E u \in Sony!get_parameters_impl' :
                u.type = t.type /\ u.current = Sony!Outcome(t.type, v)
<1> DEFINE p == Sony!PropertyOf(t.type)
           x == Sony!Value(t.type, v)
           now == Sony!Mask(body'[p].value)
           seen == Sony!Outcome(t.type, v)
<1> USE DEF SonyListIs, SonyPartsAre
<1>1. p \in {"IsoP", "SpeedP", "BiasP"}
  BY SonyList, SonyParts DEF Sony!PropertyOf
<1>2. /\ x \in ToSet(body[p].offers)
      /\ (\E w \in ToSet(body[p].offers) : Sony!Takes(p, w)) \/ UNCHANGED body
  BY SonyToSet DEF Sony!set_property
<1>a. seen = IF now = x THEN v ELSE Sony!Seen(t.type, now)
  BY DEF Sony!Outcome
<1> HIDE DEF p, x, seen, now
<1>5. /\ Sony!BodyOK'
      /\ \A q \in {"IsoP", "SpeedP", "BiasP"} :
           /\ body'[q].offers = body[q].offers
           /\ body'[q].writable = body[q].writable
  <2>1. ASSUME NEW y \in ToSet(body[p].offers), Sony!Takes(p, y)
        PROVE  /\ Sony!BodyOK'
               /\ \A q \in {"IsoP", "SpeedP", "BiasP"} :
                    /\ body'[q].offers = body[q].offers
                    /\ body'[q].writable = body[q].writable
    <3>1. y \in 0..3
      BY <1>1, <2>1, SonyBody
    <3>2. PICK raw \in {y, y + 16 - 4} :
            body' = [body EXCEPT ![p].value = IF y >= 2 THEN raw ELSE y]
      BY <2>1 DEF Sony!Takes, Sony!Word
    <3> DEFINE w == IF y >= 2 THEN raw ELSE y
    <3>3. w \in 0..15 /\ Sony!Mask(w) = y
      <4>1. CASE w = y
        BY <3>1, <4>1 DEF Sony!Mask
      <4>2. CASE w = y + 12 /\ y \in {2, 3}
        BY <3>1, <4>2 DEF Sony!Mask
      <4> QED  BY <3>1, <4>1, <4>2
    <3>4. body' = [body EXCEPT ![p].value = w]
      BY <3>2
    <3> HIDE DEF w
    <3> QED  BY <1>1, <2>1, <3>3, <3>4, SonyRevalued
  <2>2. CASE UNCHANGED body
    BY <2>2 DEF Sony!BodyOK
  <2> QED  BY <1>2, <2>1, <2>2
<1>6. SonyNow(p)' = now
  BY DEF SonyNow, now
<1>7. CASE t = SonyIsoAuto
  <2>1. t.type = "IsoAuto" /\ v \in BOOLEAN /\ p = "IsoP"
    BY <1>7, SonyParts DEF p, Sony!PropertyOf
  <2>2. SonyAuto' = (now = Sony!IsoAutoValue)
    BY <1>6, <2>1 DEF SonyAuto, Sony!IsoAutoValue
  <2>3. (x = Sony!IsoAutoValue) = v
    <3>1. x = Sony!sn_set_iso_auto(body.IsoP, v)
      BY <2>1 DEF x, Sony!Value
    <3>2. CASE v = TRUE
      BY <3>1, <3>2 DEF Sony!sn_set_iso_auto
    <3>3. CASE v = FALSE
      <4>1. SonyIsos # {} /\ x = Sony!Min(SonyIsos)
        BY <3>1, <3>3 DEF Sony!sn_set_iso_auto, SonyIsos, x
      <4>2. \A y \in SonyIsos : y \in Nat
        BY SonyBody, SonyValues
      <4>3. x \in SonyIsos
        BY <4>1, <4>2, SonyMin
      <4> QED  BY <3>3, <4>3, SonyValues
    <3> QED  BY <2>1, <3>2, <3>3
  <2>4. SonyIsoAuto' \in Sony!get_parameters_impl' /\ SonyIsoAuto'.type = "IsoAuto"
        /\ SonyIsoAuto'.current = SonyAuto'
    BY SonyPrimed
  <2>5. seen = (now = Sony!IsoAutoValue)
    BY <1>a, <2>1, <2>3 DEF Sony!Seen, Sony!iso_is_auto
  <2> QED  BY <1>5, <2>1, <2>2, <2>4, <2>5 DEF seen
<1>8. CASE t = SonyIso /\ ~(Cardinality(SonyIsos) < 2)
  <2>1. t.type = "Iso" /\ p = "IsoP" /\ x = v
    BY <1>8, SonyParts DEF p, x, Sony!PropertyOf, Sony!Value
  <2>2. SonyIsos' = SonyIsos
    BY <1>5 DEF SonyIsos, Sony!concrete, Sony!ToSet
  <2>3. SonyIso' \in Sony!get_parameters_impl' /\ SonyIso'.type = "Iso"
        /\ SonyIso'.current = SonyNow(p)'
    BY <1>8, <2>1, <2>2, SonyPrimed
  <2>4. seen = now
    BY <1>a, <2>1 DEF Sony!Seen
  <2> QED  BY <1>5, <1>6, <2>1, <2>3, <2>4 DEF seen
<1>9. ASSUME NEW type \in {"ShutterSpeed", "ExposureCompensation"},
             NEW q \in {"SpeedP", "BiasP"}, t = SonyPlain(type, q),
             type = "ShutterSpeed" <=> q = "SpeedP"
      PROVE  \E u \in Sony!get_parameters_impl' : u.type = t.type /\ u.current = seen
  <2>1. t.type = type /\ p = q /\ x = v
    BY <1>9, SonyParts DEF p, x, Sony!PropertyOf, Sony!Value
  <2>2. /\ SonyPlain(type, q)' \in Sony!get_parameters_impl'
        /\ SonyPlain(type, q)'.type = type
        /\ SonyPlain(type, q)'.current = SonyNow(q)'
    BY <1>9, SonyPrimed
  <2>3. seen = now
    BY <1>a, <1>9, <2>1 DEF Sony!Seen
  <2> QED  BY <1>6, <2>1, <2>2, <2>3
<1> QED  BY <1>5, <1>7, <1>8, <1>9, SonyList DEF seen

LEMMA SonySteps ==
    ASSUME Sony!BodyOK, Sony!SonyControlsNext
    PROVE  /\ Sony!BodyOK'
           /\ changed' # None =>
                \E t \in Sony!get_parameters_impl' :
                  t.type = changed'.type /\ t.current = changed'.value
<1>1. CASE Sony!Refuses
  BY <1>1 DEF Sony!Refuses, Sony!BodyOK
<1>2. CASE \E t \in Sony!get_parameters_impl : \E v \in t.options :
             /\ ~t.disabled
             /\ Sony!Value(t.type, v) # None
             /\ Sony!set_property(Sony!PropertyOf(t.type), Sony!Value(t.type, v))
             /\ Sony!Accepts(t.type, Sony!Outcome(t.type, v))
  <2>0. PICK t \in Sony!get_parameters_impl : \E v \in t.options :
             /\ ~t.disabled
             /\ Sony!Value(t.type, v) # None
             /\ Sony!set_property(Sony!PropertyOf(t.type), Sony!Value(t.type, v))
             /\ Sony!Accepts(t.type, Sony!Outcome(t.type, v))
    BY <1>2
  <2>1. PICK v \in t.options :
             /\ ~t.disabled
             /\ Sony!Value(t.type, v) # None
             /\ Sony!set_property(Sony!PropertyOf(t.type), Sony!Value(t.type, v))
             /\ Sony!Accepts(t.type, Sony!Outcome(t.type, v))
    BY <2>0
  <2>3. /\ Sony!BodyOK'
        /\ \E u \in Sony!get_parameters_impl' :
             u.type = t.type /\ u.current = Sony!Outcome(t.type, v)
    BY <2>1, SonyWrite
  <2>4. changed' = [type |-> t.type, value |-> Sony!Outcome(t.type, v)]
    BY <2>1 DEF Sony!Accepts
  <2> QED  BY <2>3, <2>4
<1>3. CASE Sony!Dial
  <2>1. PICK p \in DOMAIN body :
           \/ \E v \in ToSet(body[p].offers) : body' = [body EXCEPT ![p].value = v]
           \/ body' = [body EXCEPT ![p].offers = <<Sony!Mask(body[p].value)>>]
    BY <1>3, SonyToSet DEF Sony!Dial
  <2>2. p \in {"IsoP", "SpeedP", "BiasP"}
    BY DEF Sony!BodyOK
  <2>3. ASSUME NEW v \in ToSet(body[p].offers), body' = [body EXCEPT ![p].value = v]
        PROVE  Sony!BodyOK'
    <3>1. v \in 0..3
      BY <2>2, SonyBody
    <3>2. v \in 0..15 /\ Sony!Mask(v) = v
      BY <3>1 DEF Sony!Mask
    <3> QED  BY <2>2, <2>3, <3>2, SonyRevalued
  <2>4. ASSUME body' = [body EXCEPT ![p].offers = <<Sony!Mask(body[p].value)>>]
        PROVE  Sony!BodyOK'
    <3> DEFINE now == Sony!Mask(body[p].value)
    <3>1. /\ body \in [IsoP : Sony!Property, SpeedP : Sony!Property, BiasP : Sony!Property]
          /\ \A q \in DOMAIN body : Sony!Mask(body[q].value) \in ToSet(body[q].offers)
      BY SonyToSet DEF Sony!BodyOK
    <3>2. now \in 0..3
      BY <2>2, SonyBody
    <3>3. <<now>> \in Seq(0..3) /\ now \in ToSet(<<now>>)
      <4> HIDE DEF now
      <4> QED  BY <3>2 DEF ToSet
    <3>4. [body[p] EXCEPT !.offers = <<now>>] \in Sony!Property
      <4> HIDE DEF now
      <4> QED  BY <2>2, <3>1, <3>3 DEF Sony!Property
    <3>5. body' \in [IsoP : Sony!Property, SpeedP : Sony!Property, BiasP : Sony!Property]
      BY <2>2, <2>4, <3>1, <3>4
    <3>6. ASSUME NEW q \in DOMAIN body'
          PROVE  Sony!Mask(body'[q].value) \in ToSet(body'[q].offers)
      <4>1. CASE q = p
        <5>1. body'[q].value = body[p].value /\ body'[q].offers = <<now>>
          BY <2>2, <2>4, <3>1, <4>1 DEF Sony!Property
        <5> QED  BY <3>3, <5>1
      <4>2. CASE q # p
        <5>1. body'[q] = body[q] /\ q \in DOMAIN body
          BY <2>2, <2>4, <3>1, <3>5, <4>2
        <5> QED  BY <3>1, <5>1
      <4> QED  BY <4>1, <4>2
    <3> QED  BY <3>5, <3>6, SonyToSet DEF Sony!BodyOK
  <2> QED  BY <1>3, <2>1, <2>3, <2>4 DEF Sony!Dial
<1> QED  BY <1>1, <1>2, <1>3 DEF Sony!SonyControlsNext, Sony!set_parameter_impl

-----------------------------------------------------------------------------
(* Nikon. *)
LEMMA NikonToSet == \A s : Nikon!ToSet(s) = ToSet(s)
  BY DEF Nikon!ToSet, ToSet

LEMMA NikonMin ==
    ASSUME NEW S, S # {}, \A x \in S : x \in Nat
    PROVE  Nikon!Min(S) \in S /\ \A x \in S : Nikon!Min(S) <= x
<1>1. Nikon!Min(S) = Min(S)
  BY DEF Min, Nikon!Min
<1> QED  BY <1>1, MinIsLeast

NikonRecord ==
  [isoAuto : BOOLEAN \cup {None}, iso : Nikon!Cap, speed : Nikon!Cap, focus : Seq(Nikon!Cap),
   quality : Nikon!Cap, window : {0, 1} \X {0, 1}, header : {0, 1} \X {0, 1} \cup {None}]

(* A capability that can be read is at one of its labels. *)
CapOK(cap) == cap \in Nikon!Cap /\ (Nikon!Readable(cap) => cap.value \in DOMAIN cap.labels)

NikonBodyIs ==
  Nikon!BodyOK <=>
    /\ body \in NikonRecord
    /\ CapOK(body.iso) /\ CapOK(body.speed) /\ CapOK(body.quality)
    /\ \A k \in DOMAIN body.focus : CapOK(body.focus[k])

LEMMA NikonBody == NikonBodyIs
<1>1. body \in NikonRecord => ToSet(body.focus) = {body.focus[k] : k \in DOMAIN body.focus}
  BY DEF ToSet
<1>2. body \in NikonRecord => \A k \in DOMAIN body.focus : body.focus[k] \in Nikon!Cap
  BY DEF NikonRecord
<1>3. body \in NikonRecord =>
        body.iso \in Nikon!Cap /\ body.speed \in Nikon!Cap /\ body.quality \in Nikon!Cap
  BY DEF NikonRecord
<1>4. Nikon!BodyOK <=>
        /\ body \in NikonRecord
        /\ \A cap \in {body.iso, body.speed, body.quality} \cup ToSet(body.focus) :
             Nikon!Readable(cap) => cap.value \in DOMAIN cap.labels
  BY NikonToSet DEF Nikon!BodyOK, NikonRecord
<1> QED  BY <1>1, <1>2, <1>3, <1>4 DEF NikonBodyIs, CapOK

LEMMA NikonBodyPrimed == NikonBodyIs'
  BY NikonBody, PTL

LEMMA NikonCap ==
    ASSUME NEW cap, CapOK(cap)
    PROVE  /\ cap.labels \in Seq(STRING) /\ cap.value \in Nat /\ cap.settable \in BOOLEAN
           /\ DOMAIN cap.labels = 1..Len(cap.labels) /\ Len(cap.labels) \in Nat
           /\ \A i \in DOMAIN cap.labels : i \in Nat /\ i > 0
<1>1. cap.labels \in Seq(STRING) /\ cap.value \in Nat /\ cap.settable \in BOOLEAN
  BY DEF CapOK, Nikon!Cap
<1> QED  BY <1>1

(* A capability that is set to another of its labels. *)
LEMMA NikonCapSet ==
    ASSUME NEW cap, CapOK(cap), NEW i \in DOMAIN cap.labels
    PROVE  LET set == [cap EXCEPT !.value = i]
           IN  /\ CapOK(set)
               /\ set.labels = cap.labels /\ set.settable = cap.settable /\ set.value = i
<1>1. i \in Nat
  BY NikonCap
<1> QED  BY <1>1 DEF CapOK, Nikon!Cap, Nikon!Readable

(* The capability in use. *)
Usable == {k \in DOMAIN body.focus : Nikon!Readable(body.focus[k])}

LEMMA NikonFocusCap ==
    ASSUME Nikon!BodyOK, Nikon!resolve_focus_cap # 0
    PROVE  LET k == Nikon!resolve_focus_cap
           IN  k \in DOMAIN body.focus /\ Nikon!Readable(body.focus[k])
<1> DEFINE settable == {k \in Usable : body.focus[k].settable}
<1>1. body.focus \in Seq(Nikon!Cap)
  BY NikonBody DEF NikonBodyIs, NikonRecord
<1>2. \A k \in Usable : k \in Nat
  BY <1>1 DEF Usable
<1>3. CASE settable # {}
  <2>1. Nikon!Min(settable) \in settable
    <3>1. \A k \in settable : k \in Nat
      BY <1>2
    <3> HIDE DEF settable
    <3> QED  BY <1>3, <3>1, NikonMin
  <2> QED  BY <1>3, <2>1 DEF Nikon!resolve_focus_cap, Usable
<1>4. CASE settable = {} /\ Usable # {}
  <2>1. Nikon!Min(Usable) \in Usable
    BY <1>2, <1>4, NikonMin
  <2> QED  BY <1>4, <2>1 DEF Nikon!resolve_focus_cap, Usable
<1> QED  BY <1>3, <1>4 DEF Nikon!resolve_focus_cap, Usable

-----------------------------------------------------------------------------
(* The controls that a Nikon body may have. *)
NikonSpeeds == DOMAIN body.speed.labels \ Nikon!Indices(body.speed, Nikon!BulbOrTime)
NikonFocus == body.focus[Nikon!resolve_focus_cap]
NikonAuto == ~Nikon!is_manual_focus(NikonFocus)
NikonModes == DOMAIN NikonFocus.labels \ Nikon!Indices(NikonFocus, Nikon!Manual)
NikonFixed == ~NikonFocus.settable
NikonModeShut == ~NikonAuto \/ NikonFixed
NikonIsoShut == body.isoAuto = TRUE
NikonKept == Nikon!jpeg_options(body.quality.labels)
NikonLevel == Nikon!Level(body.quality.labels[body.quality.value])
NikonBest == Nikon!find_jpeg_index(body.quality.labels)

NikonSpeed == Nikon!Control("ShutterSpeed", body.speed.value, NikonSpeeds, FALSE)
NikonIso == Nikon!Control("Iso", body.iso.value, DOMAIN body.iso.labels, NikonIsoShut)
NikonIsoAuto == Nikon!Toggle("IsoAuto", body.isoAuto, FALSE)
NikonQuality ==
  Nikon!Control("ImageQuality",
    IF NikonLevel = None THEN NikonBest
    ELSE CHOOSE i \in NikonKept : Nikon!Level(body.quality.labels[i]) = NikonLevel,
    NikonKept, FALSE)
NikonFocusAuto == Nikon!Toggle("FocusAuto", NikonAuto, NikonFixed)
NikonFocusMode ==
  Nikon!Control("FocusMode", IF NikonAuto THEN NikonFocus.value ELSE Nikon!Min(NikonModes),
                NikonModes, NikonModeShut)
NikonPan == Nikon!Control("LiveViewPan", body.header[1], {0, 1}, FALSE)
NikonTilt == Nikon!Control("LiveViewTilt", body.header[2], {0, 1}, FALSE)

NikonListIs ==
    \A t : t \in Nikon!get_parameters_impl <=>
      \/ t = NikonSpeed /\ Nikon!Readable(body.speed)
      \/ t = NikonIso /\ Nikon!Readable(body.iso)
      \/ t = NikonIsoAuto /\ body.isoAuto # None
      \/ t = NikonQuality /\ Nikon!Readable(body.quality) /\ NikonKept # {}
      \/ t = NikonFocusAuto /\ Nikon!resolve_focus_cap # 0
      \/ t = NikonFocusMode /\ Nikon!resolve_focus_cap # 0 /\ NikonModes # {}
      \/ (t = NikonPan \/ t = NikonTilt) /\ body.header # None

LEMMA NikonList == NikonListIs
<1>1. Nikon!read_enum_param("ShutterSpeed", body.speed, FALSE) =
        IF Nikon!Readable(body.speed) THEN {NikonSpeed} ELSE {}
  BY DEF Nikon!read_enum_param, NikonSpeed, NikonSpeeds
<1>2. Nikon!read_enum_param("Iso", body.iso, body.isoAuto = TRUE) =
        IF Nikon!Readable(body.iso) THEN {NikonIso} ELSE {}
  BY DEF Nikon!read_enum_param, NikonIso, NikonIsoShut
<1>3. Nikon!read_image_quality =
        IF ~Nikon!Readable(body.quality) \/ NikonKept = {} THEN {} ELSE {NikonQuality}
  BY DEF Nikon!read_image_quality, NikonQuality, NikonKept, NikonLevel, NikonBest
<1>4. Nikon!build_focus_params(NikonFocus) =
        {NikonFocusAuto} \cup IF NikonModes = {} THEN {} ELSE {NikonFocusMode}
  BY DEF Nikon!build_focus_params, NikonFocusAuto, NikonFocusMode, NikonModes, NikonAuto,
         NikonFixed, NikonModeShut
<1>5. Nikon!read_live_view_controls =
        IF body.header = None THEN {} ELSE {NikonPan, NikonTilt}
  BY DEF Nikon!read_live_view_controls, NikonPan, NikonTilt
<1>6. Nikon!get_parameters_impl =
        Nikon!read_enum_param("ShutterSpeed", body.speed, FALSE)
          \cup Nikon!read_enum_param("Iso", body.iso, body.isoAuto = TRUE)
          \cup (IF body.isoAuto = None THEN {} ELSE {NikonIsoAuto})
          \cup Nikon!read_image_quality
          \cup (IF Nikon!resolve_focus_cap = 0 THEN {} ELSE Nikon!build_focus_params(NikonFocus))
          \cup Nikon!read_live_view_controls
  BY DEF Nikon!get_parameters_impl, NikonIsoAuto, NikonFocus
<1>7. ASSUME NEW t
      PROVE  t \in Nikon!get_parameters_impl <=>
        \/ t \in Nikon!read_enum_param("ShutterSpeed", body.speed, FALSE)
        \/ t \in Nikon!read_enum_param("Iso", body.iso, body.isoAuto = TRUE)
        \/ t = NikonIsoAuto /\ body.isoAuto # None
        \/ t \in Nikon!read_image_quality
        \/ t \in Nikon!build_focus_params(NikonFocus) /\ Nikon!resolve_focus_cap # 0
        \/ t \in Nikon!read_live_view_controls
  BY <1>6, Zenon
<1>8. ASSUME NEW t
      PROVE  t \in Nikon!get_parameters_impl <=>
        \/ t = NikonSpeed /\ Nikon!Readable(body.speed)
        \/ t = NikonIso /\ Nikon!Readable(body.iso)
        \/ t = NikonIsoAuto /\ body.isoAuto # None
        \/ t = NikonQuality /\ Nikon!Readable(body.quality) /\ NikonKept # {}
        \/ t = NikonFocusAuto /\ Nikon!resolve_focus_cap # 0
        \/ t = NikonFocusMode /\ Nikon!resolve_focus_cap # 0 /\ NikonModes # {}
        \/ (t = NikonPan \/ t = NikonTilt) /\ body.header # None
  <2>1. t \in Nikon!read_enum_param("ShutterSpeed", body.speed, FALSE) <=>
          t = NikonSpeed /\ Nikon!Readable(body.speed)
    BY <1>1
  <2>2. t \in Nikon!read_enum_param("Iso", body.iso, body.isoAuto = TRUE) <=>
          t = NikonIso /\ Nikon!Readable(body.iso)
    BY <1>2
  <2>3. t \in Nikon!read_image_quality <=>
          t = NikonQuality /\ Nikon!Readable(body.quality) /\ NikonKept # {}
    BY <1>3
  <2>4. t \in Nikon!build_focus_params(NikonFocus) <=>
          t = NikonFocusAuto \/ (t = NikonFocusMode /\ NikonModes # {})
    BY <1>4
  <2>5. t \in Nikon!read_live_view_controls <=>
          (t = NikonPan \/ t = NikonTilt) /\ body.header # None
    BY <1>5
  <2> QED  BY <1>7, <2>1, <2>2, <2>3, <2>4, <2>5
<1> QED  BY <1>8 DEF NikonListIs

NikonPartsAre ==
    /\ NikonSpeed.type = "ShutterSpeed" /\ NikonSpeed.current = body.speed.value
    /\ NikonSpeed.options = NikonSpeeds /\ NikonSpeed.disabled = FALSE
    /\ NikonIso.type = "Iso" /\ NikonIso.current = body.iso.value
    /\ NikonIso.options = DOMAIN body.iso.labels /\ NikonIso.disabled = NikonIsoShut
    /\ NikonIsoAuto.type = "IsoAuto" /\ NikonIsoAuto.current = body.isoAuto
    /\ NikonIsoAuto.options = {TRUE, FALSE} /\ NikonIsoAuto.disabled = FALSE
    /\ NikonQuality.type = "ImageQuality" /\ NikonQuality.disabled = FALSE
    /\ NikonQuality.options = NikonKept
    /\ NikonLevel = None => NikonQuality.current = NikonBest
    /\ NikonLevel # None =>
         NikonQuality.current =
           CHOOSE i \in NikonKept : Nikon!Level(body.quality.labels[i]) = NikonLevel
    /\ NikonFocusAuto.type = "FocusAuto" /\ NikonFocusAuto.current = NikonAuto
    /\ NikonFocusAuto.options = {TRUE, FALSE} /\ NikonFocusAuto.disabled = NikonFixed
    /\ NikonFocusMode.type = "FocusMode" /\ NikonFocusMode.options = NikonModes
    /\ NikonFocusMode.disabled = NikonModeShut
    /\ NikonAuto => NikonFocusMode.current = NikonFocus.value
    /\ NikonPan.type = "LiveViewPan" /\ NikonPan.current = body.header[1]
    /\ NikonPan.options = {0, 1} /\ NikonPan.disabled = FALSE
    /\ NikonTilt.type = "LiveViewTilt" /\ NikonTilt.current = body.header[2]
    /\ NikonTilt.options = {0, 1} /\ NikonTilt.disabled = FALSE

LEMMA NikonParts == NikonPartsAre
<1>1. /\ NikonSpeed.type = "ShutterSpeed" /\ NikonSpeed.current = body.speed.value
      /\ NikonSpeed.options = NikonSpeeds /\ NikonSpeed.disabled = FALSE
  BY DEF NikonSpeed, Nikon!Control
<1>2. /\ NikonIso.type = "Iso" /\ NikonIso.current = body.iso.value
      /\ NikonIso.options = DOMAIN body.iso.labels /\ NikonIso.disabled = NikonIsoShut
  BY DEF NikonIso, Nikon!Control
<1>3. /\ NikonIsoAuto.type = "IsoAuto" /\ NikonIsoAuto.current = body.isoAuto
      /\ NikonIsoAuto.options = {TRUE, FALSE} /\ NikonIsoAuto.disabled = FALSE
  BY DEF NikonIsoAuto, Nikon!Toggle, Nikon!Control
<1>4. /\ NikonQuality.type = "ImageQuality" /\ NikonQuality.disabled = FALSE
      /\ NikonQuality.options = NikonKept
      /\ NikonLevel = None => NikonQuality.current = NikonBest
      /\ NikonLevel # None =>
           NikonQuality.current =
             CHOOSE i \in NikonKept : Nikon!Level(body.quality.labels[i]) = NikonLevel
  BY DEF NikonQuality, Nikon!Control
<1>5. /\ NikonFocusAuto.type = "FocusAuto" /\ NikonFocusAuto.current = NikonAuto
      /\ NikonFocusAuto.options = {TRUE, FALSE} /\ NikonFocusAuto.disabled = NikonFixed
  BY DEF NikonFocusAuto, Nikon!Toggle, Nikon!Control
<1>6. /\ NikonFocusMode.type = "FocusMode" /\ NikonFocusMode.options = NikonModes
      /\ NikonFocusMode.disabled = NikonModeShut
      /\ NikonAuto => NikonFocusMode.current = NikonFocus.value
  BY DEF NikonFocusMode, Nikon!Control
<1>7. /\ NikonPan.type = "LiveViewPan" /\ NikonPan.current = body.header[1]
      /\ NikonPan.options = {0, 1} /\ NikonPan.disabled = FALSE
      /\ NikonTilt.type = "LiveViewTilt" /\ NikonTilt.current = body.header[2]
      /\ NikonTilt.options = {0, 1} /\ NikonTilt.disabled = FALSE
  BY DEF NikonPan, NikonTilt, Nikon!Control
<1> QED  BY <1>1, <1>2, <1>3, <1>4, <1>5, <1>6, <1>7 DEF NikonPartsAre

LEMMA NikonPrimed == NikonListIs' /\ NikonPartsAre'
  BY NikonList, NikonParts, PTL

LEMMA NikonIsSound ==
    ASSUME Nikon!BodyOK
    PROVE  LET list == Nikon!get_parameters_impl
           IN  /\ \A t, u \in list : t.type = u.type => t = u
               /\ \A t, u \in list :
                    \/ t.type = "IsoAuto" /\ t.current /\ u.type = "Iso"
                    \/ t.type = "FocusAuto" /\ ~t.current /\ u.type = "FocusMode"
                    => u.disabled
               /\ \A t \in list :
                    \/ t.disabled \/ t.current \in t.options
                    \/ t.type \in {"ShutterSpeed", "ImageQuality"}
<1> USE DEF NikonListIs, NikonPartsAre
<1>1. ASSUME NEW t \in Nikon!get_parameters_impl, NEW u \in Nikon!get_parameters_impl,
             t.type = u.type
      PROVE  t = u
  BY <1>1, NikonList, NikonParts
<1>2. ASSUME NEW t \in Nikon!get_parameters_impl, NEW u \in Nikon!get_parameters_impl,
             t.type = "IsoAuto", t.current, u.type = "Iso"
      PROVE  u.disabled
  <2>1. t = NikonIsoAuto /\ u = NikonIso /\ body.isoAuto # None
    BY <1>2, NikonList, NikonParts
  <2>2. body.isoAuto = TRUE
    BY <1>2, <2>1, NikonParts, NikonBody DEF NikonBodyIs, NikonRecord
  <2> QED  BY <2>1, <2>2, NikonParts DEF NikonIsoShut
<1>3. ASSUME NEW t \in Nikon!get_parameters_impl, NEW u \in Nikon!get_parameters_impl,
             t.type = "FocusAuto", ~t.current, u.type = "FocusMode"
      PROVE  u.disabled
  <2>1. t = NikonFocusAuto /\ u = NikonFocusMode
    BY <1>3, NikonList, NikonParts
  <2>2. NikonModeShut
    BY <1>3, <2>1, NikonParts DEF NikonModeShut
  <2> QED  BY <2>1, <2>2, NikonParts
<1>4. ASSUME NEW t \in Nikon!get_parameters_impl
      PROVE  t.disabled \/ t.current \in t.options \/ t.type \in {"ShutterSpeed", "ImageQuality"}
  <2>1. CASE t = NikonIso /\ Nikon!Readable(body.iso)
    BY <2>1, NikonParts, NikonBody DEF NikonBodyIs, CapOK
  <2>2. CASE t = NikonIsoAuto /\ body.isoAuto # None
    BY <2>2, NikonParts, NikonBody DEF NikonBodyIs, NikonRecord
  <2>3. CASE t = NikonFocusAuto
    <3>1. NikonAuto \in {TRUE, FALSE}
      BY DEF NikonAuto
    <3> QED  BY <2>3, <3>1, NikonParts
  <2>4. CASE t = NikonFocusMode /\ Nikon!resolve_focus_cap # 0
    <3>1. NikonModeShut \/ NikonAuto
      BY DEF NikonModeShut
    <3>2. NikonFocus.value \in DOMAIN NikonFocus.labels
      BY <2>4, NikonFocusCap, NikonBody DEF NikonBodyIs, CapOK, NikonFocus
    <3>3. NikonAuto => NikonFocus.value \in NikonModes
      BY <3>2 DEF NikonAuto, NikonModes, Nikon!is_manual_focus, Nikon!Indices
    <3> QED  BY <2>4, <3>1, <3>3, NikonParts
  <2>5. CASE (t = NikonPan \/ t = NikonTilt) /\ body.header # None
    <3>1. body.header[1] \in {0, 1} /\ body.header[2] \in {0, 1}
      BY <2>5, NikonBody DEF NikonBodyIs, NikonRecord
    <3> QED  BY <2>5, <3>1, NikonParts
  <2>6. CASE t = NikonSpeed \/ t = NikonQuality
    BY <2>6, NikonParts
  <2> QED  BY <2>1, <2>2, <2>3, <2>4, <2>5, <2>6, NikonList
<1> QED  BY <1>1, <1>2, <1>3, <1>4
-----------------------------------------------------------------------------
(* Qualities. *)

LEMMA JpegLabels ==
    /\ \A l : Nikon!jpeg_label_rank(l) # None <=> l \in {"Fine*", "Fine", "Basic"}
    /\ Nikon!Level("Fine*") = 0 /\ Nikon!Level("Fine") = 0 /\ Nikon!Level("Basic") = 2
    /\ \A l : Nikon!Level(l) = None <=> Nikon!jpeg_label_rank(l) = None
    /\ \A l, m \in {"Fine*", "Fine", "Basic"} :
         Nikon!Better(l, m) <=> \/ l = "Fine*" /\ m \in {"Fine", "Basic"}
                                \/ l = "Fine" /\ m = "Basic"
<1>1. /\ Nikon!jpeg_label_rank("Fine*") = <<0, 0>>
      /\ Nikon!jpeg_label_rank("Fine") = <<0, 1>>
      /\ Nikon!jpeg_label_rank("Basic") = <<2, 1>>
      /\ \A l : l \notin {"Fine*", "Fine", "Basic"} => Nikon!jpeg_label_rank(l) = None
  BY DEF Nikon!jpeg_label_rank
<1>2. <<0, 0>> # None /\ <<0, 1>> # None /\ <<2, 1>> # None /\ 0 # None /\ 2 # None
  BY NoneAssumption
<1>3. \A l : Nikon!jpeg_label_rank(l) # None <=> l \in {"Fine*", "Fine", "Basic"}
  BY <1>1, <1>2
<1>4. /\ Nikon!Level("Fine*") = 0 /\ Nikon!Level("Fine") = 0 /\ Nikon!Level("Basic") = 2
      /\ \A l : l \notin {"Fine*", "Fine", "Basic"} => Nikon!Level(l) = None
  BY <1>1, <1>2 DEF Nikon!Level
<1>5. \A l : Nikon!Level(l) = None <=> Nikon!jpeg_label_rank(l) = None
  BY <1>1, <1>2, <1>4
<1>6. \A l, m \in {"Fine*", "Fine", "Basic"} :
         Nikon!Better(l, m) <=> \/ l = "Fine*" /\ m \in {"Fine", "Basic"}
                                \/ l = "Fine" /\ m = "Basic"
  BY <1>1 DEF Nikon!Better
<1> QED  BY <1>3, <1>4, <1>5, <1>6

(* A level that the labels have is listed once. *)
LEMMA KeptOnce ==
    ASSUME NEW labels \in Seq(STRING)
    PROVE  /\ \A i \in Nikon!jpeg_options(labels) :
                i \in DOMAIN labels /\ Nikon!Level(labels[i]) # None
           /\ \A i, j \in Nikon!jpeg_options(labels) :
                Nikon!Level(labels[i]) = Nikon!Level(labels[j]) => i = j
           /\ \A j \in DOMAIN labels : Nikon!Level(labels[j]) # None =>
                \E i \in Nikon!jpeg_options(labels) :
                  Nikon!Level(labels[i]) = Nikon!Level(labels[j])
<1> DEFINE jpegs == Nikon!Jpegs(labels)
           kept == Nikon!jpeg_options(labels)
<1>1. \A i : i \in jpegs <=> i \in DOMAIN labels /\ labels[i] \in {"Fine*", "Fine", "Basic"}
  BY JpegLabels DEF Nikon!Jpegs
<1>2. \A i \in jpegs : i \in Nat
  BY <1>1
<1>3. \A i : i \in kept <=>
        /\ i \in jpegs
        /\ \A j \in jpegs : j # i /\ Nikon!Level(labels[j]) = Nikon!Level(labels[i]) =>
             Nikon!Better(labels[i], labels[j]) \/ (labels[i] = labels[j] /\ i < j)
  BY DEF Nikon!jpeg_options
<1> HIDE DEF jpegs, kept
<1>4. \A i \in kept : i \in DOMAIN labels /\ Nikon!Level(labels[i]) # None
  BY <1>1, <1>3, JpegLabels
<1>5. ASSUME NEW i \in kept, NEW j \in kept,
             Nikon!Level(labels[i]) = Nikon!Level(labels[j]), i # j
      PROVE  FALSE
  <2>1. /\ i \in jpegs /\ j \in jpegs
        /\ Nikon!Better(labels[i], labels[j]) \/ (labels[i] = labels[j] /\ i < j)
        /\ Nikon!Better(labels[j], labels[i]) \/ (labels[j] = labels[i] /\ j < i)
    BY <1>3, <1>5
  <2>2. i \in Nat /\ j \in Nat /\ labels[i] \in {"Fine*", "Fine", "Basic"}
        /\ labels[j] \in {"Fine*", "Fine", "Basic"}
    BY <1>1, <1>2, <2>1
  <2> QED  BY <2>1, <2>2, JpegLabels
<1>6. ASSUME NEW j \in DOMAIN labels, Nikon!Level(labels[j]) # None
      PROVE  \E i \in kept : Nikon!Level(labels[i]) = Nikon!Level(labels[j])
  <2> DEFINE With(l) == {i \in jpegs : labels[i] = l}
  <2>1. ASSUME NEW l \in {"Fine*", "Fine", "Basic"}, With(l) # {},
               l # "Fine" \/ With("Fine*") = {}
        PROVE  \E i \in kept : labels[i] = l
    <3>1. Nikon!Min(With(l)) \in With(l) /\ \A x \in With(l) : Nikon!Min(With(l)) <= x
      <4>1. \A x \in With(l) : x \in Nat
        BY <1>2
      <4> HIDE DEF With
      <4> QED  BY <2>1, <4>1, NikonMin
    <3>2. PICK i \in With(l) : \A x \in With(l) : i <= x
      BY <3>1
    <3>3. i \in jpegs /\ labels[i] = l
      OBVIOUS
    <3>4. ASSUME NEW k \in jpegs, k # i, Nikon!Level(labels[k]) = Nikon!Level(labels[i])
          PROVE  Nikon!Better(labels[i], labels[k]) \/ (labels[i] = labels[k] /\ i < k)
      <4>1. labels[k] \in {"Fine*", "Fine", "Basic"} /\ k \in Nat /\ i \in Nat
        BY <1>1, <1>2
      <4>2. CASE labels[k] = l
        BY <3>2, <3>3, <3>4, <4>1, <4>2
      <4>3. CASE labels[k] # l
        <5>1. {l, labels[k]} = {"Fine*", "Fine"}
          BY <3>3, <3>4, <4>1, <4>3, JpegLabels
        <5>2. labels[k] # "Fine*"
          BY <2>1, <4>3, <5>1
        <5> QED  BY <3>3, <5>1, <5>2, JpegLabels
      <4> QED  BY <4>2, <4>3
    <3> QED  BY <1>3, <3>3, <3>4
  <2>2. j \in jpegs /\ labels[j] \in {"Fine*", "Fine", "Basic"}
    BY <1>1, <1>6, JpegLabels
  <2>3. CASE labels[j] = "Basic"
    BY <2>1, <2>2, <2>3
  <2>4. CASE labels[j] \in {"Fine*", "Fine"} /\ With("Fine*") # {}
    BY <2>1, <2>4, JpegLabels
  <2>5. CASE labels[j] \in {"Fine*", "Fine"} /\ With("Fine*") = {}
    <3>1. With("Fine") # {}
      BY <2>2, <2>5
    <3> QED  BY <2>1, <2>5, <3>1, JpegLabels
  <2> QED  BY <2>2, <2>3, <2>4, <2>5
<1> QED  BY <1>4, <1>5, <1>6 DEF kept

(* The first of the best. *)
LEMMA BestIsFound ==
    ASSUME NEW labels \in Seq(STRING)
    PROVE  \/ Nikon!find_jpeg_index(labels) = 0 /\ Nikon!jpeg_options(labels) = {}
           \/ /\ Nikon!find_jpeg_index(labels) \in DOMAIN labels
              /\ Nikon!find_jpeg_index(labels) # 0
              /\ Nikon!Level(labels[Nikon!find_jpeg_index(labels)]) # None
<1> DEFINE jpegs == Nikon!Jpegs(labels)
           best == {i \in jpegs : \A j \in jpegs : ~Nikon!Better(labels[j], labels[i])}
<1>1. \A i : i \in jpegs <=> i \in DOMAIN labels /\ labels[i] \in {"Fine*", "Fine", "Basic"}
  BY JpegLabels DEF Nikon!Jpegs
<1>2. \A i \in jpegs : i \in Nat /\ i > 0
  BY <1>1
<1>3. Nikon!find_jpeg_index(labels) = IF best = {} THEN 0 ELSE Nikon!Min(best)
  BY DEF Nikon!find_jpeg_index
<1>4. CASE best # {}
  <2>1. Nikon!Min(best) \in best
    <3>1. \A i \in best : i \in Nat
      BY <1>2
    <3> HIDE DEF best
    <3> QED  BY <1>4, <3>1, NikonMin
  <2> QED  BY <1>1, <1>2, <1>3, <1>4, <2>1, JpegLabels
<1>5. CASE best = {}
  <2>1. ASSUME NEW j \in jpegs  PROVE FALSE
    <3> HIDE DEF jpegs
    <3>1. \A i \in jpegs : \E k \in jpegs : Nikon!Better(labels[k], labels[i])
      BY <1>5
    <3>2. \A i \in jpegs : labels[i] \in {"Fine*", "Fine", "Basic"}
      BY <1>1
    <3>3. \A i \in jpegs : labels[i] # "Fine*"
      BY <3>1, <3>2, JpegLabels
    <3>4. \A i \in jpegs : labels[i] # "Fine"
      BY <3>1, <3>2, <3>3, JpegLabels
    <3> QED  BY <3>1, <3>2, <3>3, <3>4, JpegLabels
  <2>2. Nikon!jpeg_options(labels) = {}
    BY <2>1 DEF Nikon!jpeg_options
  <2> QED  BY <1>3, <1>5, <2>2
<1> QED  BY <1>4, <1>5

-----------------------------------------------------------------------------
(* Writes. *)

LEMMA NikonCapWrite ==
    ASSUME Nikon!BodyOK, NEW f \in {"iso", "speed", "quality"}, NEW i \in DOMAIN body[f].labels,
           body' = [body EXCEPT ![f].value = i]
    PROVE  /\ Nikon!BodyOK'
           /\ body'[f].labels = body[f].labels /\ body'[f].value = i
           /\ body'.isoAuto = body.isoAuto
<1>1. body \in NikonRecord /\ CapOK(body[f])
  BY NikonBody DEF NikonBodyIs
<1>2. LET set == [body[f] EXCEPT !.value = i]
      IN  /\ CapOK(set) /\ set \in Nikon!Cap
          /\ set.labels = body[f].labels /\ set.value = i
  BY <1>1, NikonCapSet DEF CapOK
<1>3. body' \in NikonRecord
  BY <1>1, <1>2 DEF NikonRecord
<1>4. /\ body'[f] = [body[f] EXCEPT !.value = i]
      /\ \A g \in {"iso", "speed", "quality", "focus", "isoAuto"} \ {f} : body'[g] = body[g]
  BY <1>1 DEF NikonRecord
<1>5. \A g \in {"iso", "speed", "quality"} : CapOK(body'[g])
  BY <1>2, <1>4, NikonBody DEF NikonBodyIs
<1>6. body'.focus = body.focus /\ body'.isoAuto = body.isoAuto
  BY <1>4
<1>7. Nikon!BodyOK'
  BY <1>3, <1>5, <1>6, NikonBody, NikonBodyPrimed DEF NikonBodyIs
<1> QED  BY <1>2, <1>4, <1>6, <1>7

LEMMA NikonFocusWrite ==
    ASSUME Nikon!BodyOK, NEW k \in DOMAIN body.focus, NEW i \in DOMAIN body.focus[k].labels,
           body' = [body EXCEPT !.focus[k].value = i]
    PROVE  /\ Nikon!BodyOK'
           /\ Nikon!resolve_focus_cap' = Nikon!resolve_focus_cap
           /\ body'.focus[k] = [body.focus[k] EXCEPT !.value = i]
<1>1. body \in NikonRecord /\ body.focus \in Seq(Nikon!Cap) /\ CapOK(body.focus[k])
  BY NikonBody DEF NikonBodyIs, NikonRecord
<1> DEFINE set == [body.focus[k] EXCEPT !.value = i]
<1>2. /\ CapOK(set) /\ set \in Nikon!Cap
      /\ set.labels = body.focus[k].labels /\ set.settable = body.focus[k].settable
  BY <1>1, NikonCapSet DEF CapOK
<1>3. body' = [body EXCEPT !.focus = [body.focus EXCEPT ![k] = set]]
  BY <1>1 DEF NikonRecord
<1> HIDE DEF set
<1>4. /\ [body.focus EXCEPT ![k] = set] \in Seq(Nikon!Cap)
      /\ DOMAIN [body.focus EXCEPT ![k] = set] = DOMAIN body.focus
  BY <1>1, <1>2, ExceptSeq
<1>5. /\ body' \in NikonRecord
      /\ body'.focus = [body.focus EXCEPT ![k] = set]
      /\ \A g \in {"iso", "speed", "quality"} : body'[g] = body[g]
  BY <1>1, <1>3, <1>4 DEF NikonRecord
<1>6. \A l \in DOMAIN body.focus : body'.focus[l] = IF l = k THEN set ELSE body.focus[l]
  BY <1>1, <1>5
<1>7. Nikon!BodyOK'
  BY <1>2, <1>4, <1>5, <1>6, NikonBody, NikonBodyPrimed DEF NikonBodyIs
<1>8. DOMAIN body'.focus = DOMAIN body.focus
  BY <1>4, <1>5
<1>9. \A l \in DOMAIN body.focus : /\ Nikon!Readable(body'.focus[l]) = Nikon!Readable(body.focus[l])
                                   /\ body'.focus[l].settable = body.focus[l].settable
  BY <1>2, <1>6 DEF Nikon!Readable
<1> DEFINE settable == {l \in Usable : body.focus[l].settable}
<1>10. Usable' = Usable /\ settable' = settable
  BY <1>8, <1>9 DEF Usable
<1>11. Nikon!resolve_focus_cap =
         IF settable # {} THEN Nikon!Min(settable)
         ELSE IF Usable # {} THEN Nikon!Min(Usable) ELSE 0
  BY DEF Nikon!resolve_focus_cap, Usable
<1>12. Nikon!resolve_focus_cap' =
         IF settable' # {} THEN Nikon!Min(settable')
         ELSE IF Usable' # {} THEN Nikon!Min(Usable') ELSE 0
  BY DEF Nikon!resolve_focus_cap, Usable, Nikon!Min
<1>13. k \in DOMAIN body'.focus /\ body'.focus[k] = set
  BY <1>6, <1>8
<1> HIDE DEF settable
<1> QED  BY <1>7, <1>10, <1>11, <1>12, <1>13 DEF set

LEMMA NikonQualityWrite ==
    ASSUME Nikon!BodyOK, Nikon!Readable(body.quality), NEW v \in NikonKept,
           body' = [body EXCEPT !.quality.value = v]
    PROVE  /\ Nikon!BodyOK'
           /\ NikonQuality' \in Nikon!get_parameters_impl'
           /\ NikonQuality'.type = "ImageQuality" /\ NikonQuality'.current = v
<1> DEFINE labels == body.quality.labels
<1>1. labels \in Seq(STRING)
  BY NikonBody, NikonCap DEF NikonBodyIs
<1>2. /\ v \in DOMAIN labels /\ Nikon!Level(labels[v]) # None
      /\ \A j \in NikonKept : Nikon!Level(labels[j]) = Nikon!Level(labels[v]) => j = v
  BY <1>1, KeptOnce DEF NikonKept
<1>3. /\ Nikon!BodyOK'
      /\ body'.quality.labels = labels /\ body'.quality.value = v
  BY <1>2, NikonCapWrite
<1> HIDE DEF labels
<1>4. NikonKept' = NikonKept
  BY <1>3 DEF NikonKept, labels, Nikon!jpeg_options, Nikon!Jpegs, Nikon!Level, Nikon!Better,
              Nikon!jpeg_label_rank
<1>5. \A l : Nikon!Level(l)' = Nikon!Level(l)
  BY DEF Nikon!Level, Nikon!jpeg_label_rank
<1>6. NikonLevel' = Nikon!Level(labels[v])
  BY <1>3 DEF NikonLevel, Nikon!Level, Nikon!jpeg_label_rank
<1>7. NikonQuality'.current =
        CHOOSE j \in NikonKept' : Nikon!Level(body'.quality.labels[j]) = NikonLevel'
  BY <1>2, <1>6, NikonPrimed DEF NikonPartsAre, Nikon!Level, Nikon!jpeg_label_rank
<1>8. (CHOOSE j \in NikonKept : Nikon!Level(labels[j]) = Nikon!Level(labels[v])) = v
  BY <1>2
<1>9. NikonQuality'.current = v
  BY <1>3, <1>4, <1>6, <1>7, <1>8
<1>10. Nikon!Readable(body'.quality) /\ NikonKept' # {}
  BY <1>3, <1>4 DEF Nikon!Readable, labels
<1> QED  BY <1>3, <1>9, <1>10, NikonPrimed DEF NikonListIs, NikonPartsAre

LEMMA NikonWrite ==
    ASSUME Nikon!BodyOK, NEW t \in Nikon!get_parameters_impl, NEW v \in t.options, ~t.disabled,
           Nikon!Sets(t.type, v)
    PROVE  /\ Nikon!BodyOK'
           /\ t.type \notin Positions =>
                \E u \in Nikon!get_parameters_impl' : u.type = t.type /\ u.current = v
<1> USE DEF NikonListIs, NikonPartsAre
<1>1. CASE t = NikonSpeed /\ Nikon!Readable(body.speed)
  <2>1. t.type = "ShutterSpeed" /\ v \in NikonSpeeds
    BY <1>1, NikonParts
  <2>2. body' = [body EXCEPT !.speed.value = v] /\ v \in DOMAIN body.speed.labels
    BY <2>1 DEF Nikon!Sets, NikonSpeeds
  <2>3. Nikon!BodyOK' /\ body'.speed.labels = body.speed.labels /\ body'.speed.value = v
    BY <2>2, NikonCapWrite
  <2>4. Nikon!Readable(body'.speed)
    BY <1>1, <2>3 DEF Nikon!Readable
  <2> QED  BY <2>1, <2>3, <2>4, NikonPrimed
<1>2. CASE t = NikonIso /\ Nikon!Readable(body.iso)
  <2>1. t.type = "Iso" /\ v \in DOMAIN body.iso.labels
    BY <1>2, NikonParts
  <2>2. body' = [body EXCEPT !.iso.value = v]
    BY <2>1 DEF Nikon!Sets
  <2>3. Nikon!BodyOK' /\ body'.iso.labels = body.iso.labels /\ body'.iso.value = v
    BY <2>1, <2>2, NikonCapWrite
  <2>4. Nikon!Readable(body'.iso)
    BY <1>2, <2>3 DEF Nikon!Readable
  <2> QED  BY <2>1, <2>3, <2>4, NikonPrimed
<1>3. CASE t = NikonIsoAuto /\ body.isoAuto # None
  <2>1. t.type = "IsoAuto" /\ v \in BOOLEAN
    BY <1>3, NikonParts
  <2>2. body' = [body EXCEPT !.isoAuto = v]
    BY <2>1 DEF Nikon!Sets
  <2>3. /\ body' \in NikonRecord /\ body'.isoAuto = v
        /\ \A g \in {"iso", "speed", "quality", "focus"} : body'[g] = body[g]
    BY <2>1, <2>2, NikonBody DEF NikonBodyIs, NikonRecord
  <2>4. Nikon!BodyOK'
    BY <2>3, NikonBody, NikonBodyPrimed DEF NikonBodyIs
  <2>5. body'.isoAuto # None
    BY <2>1, <2>3, NoneAssumption
  <2> QED  BY <2>1, <2>3, <2>4, <2>5, NikonPrimed
<1>4. CASE t = NikonQuality /\ Nikon!Readable(body.quality) /\ NikonKept # {}
  <2>1. t.type = "ImageQuality" /\ v \in NikonKept
    BY <1>4, NikonParts
  <2>2. body' = [body EXCEPT !.quality.value = v]
    BY <2>1 DEF Nikon!Sets
  <2> QED  BY <1>4, <2>1, <2>2, NikonQualityWrite
<1>5. CASE (t = NikonFocusAuto \/ t = NikonFocusMode) /\ Nikon!resolve_focus_cap # 0
  <2> DEFINE k == Nikon!resolve_focus_cap
             i == IF t = NikonFocusAuto THEN Nikon!FocusIndex(body.focus[k], v) ELSE v
  <2>1. k \in DOMAIN body.focus /\ Nikon!Readable(body.focus[k]) /\ CapOK(body.focus[k])
    BY <1>5, NikonFocusCap, NikonBody DEF NikonBodyIs
  <2>2. /\ t = NikonFocusAuto => t.type = "FocusAuto" /\ v \in BOOLEAN
        /\ t = NikonFocusMode => t.type = "FocusMode" /\ v \in NikonModes /\ ~NikonModeShut
    BY <1>5, NikonParts
  <2>3. body' = [body EXCEPT !.focus[k].value = i]
    <3>1. CASE t = NikonFocusAuto
      BY <2>2, <3>1 DEF Nikon!Sets, Nikon!set_focus_auto
    <3>2. CASE t # NikonFocusAuto
      BY <1>5, <2>2, <3>2 DEF Nikon!Sets, Nikon!set_focus_mode
    <3> QED  BY <3>1, <3>2
  <2>4. /\ i \in DOMAIN body.focus[k].labels
        /\ t = NikonFocusAuto => (body.focus[k].labels[i] \in Nikon!Manual <=> ~v)
        /\ t = NikonFocusMode => i = v /\ body.focus[k].labels[i] \notin Nikon!Manual
    <3>1. CASE t = NikonFocusAuto
      <4> DEFINE cap == body.focus[k]
                 manual == Nikon!Indices(cap, Nikon!Manual)
                 side == IF v THEN DOMAIN cap.labels \ manual ELSE manual
      <4>1. i # 0 /\ i = IF v # Nikon!is_manual_focus(cap) THEN cap.value
                        ELSE IF side = {} THEN 0 ELSE Nikon!Min(side)
        <5>1. i = Nikon!FocusIndex(cap, v) /\ i # 0
          BY <2>2, <3>1 DEF Nikon!Sets, Nikon!set_focus_auto
        <5> QED  BY <5>1 DEF Nikon!FocusIndex
      <4>2. /\ v \in BOOLEAN
            /\ t # NikonFocusMode
        BY <2>2, <3>1, NikonParts
      <4>3. \A x : x \in manual <=> x \in DOMAIN cap.labels /\ cap.labels[x] \in Nikon!Manual
        BY DEF Nikon!Indices
      <4>4. cap.value \in DOMAIN cap.labels
        BY <2>1 DEF CapOK
      <4> HIDE DEF manual
      <4>5. \A x : x \in side <=>
              x \in DOMAIN cap.labels /\ (cap.labels[x] \in Nikon!Manual <=> ~v)
        BY <4>2, <4>3
      <4> HIDE DEF i
      <4>6. CASE v # Nikon!is_manual_focus(cap)
        BY <4>1, <4>2, <4>4, <4>6 DEF Nikon!is_manual_focus
      <4>7. CASE v = Nikon!is_manual_focus(cap) /\ side # {} /\ i = Nikon!Min(side)
        <5>1. \A x \in side : x \in Nat
          BY <2>1, <4>5, NikonCap
        <5>2. i \in side
          <6> HIDE DEF side
          <6> QED  BY <4>7, <5>1, NikonMin
        <5> QED  BY <4>2, <4>5, <5>2
      <4> HIDE DEF side
      <4> QED  BY <4>1, <4>6, <4>7
    <3>2. CASE t # NikonFocusAuto
      BY <1>5, <2>2, <3>2 DEF NikonModes, NikonFocus, Nikon!Indices
    <3> QED  BY <3>1, <3>2, NikonParts
  <2> HIDE DEF i, k
  <2>5. /\ Nikon!BodyOK'
        /\ k' = k
        /\ body'.focus[k] = [body.focus[k] EXCEPT !.value = i]
    BY <2>1, <2>3, <2>4, NikonFocusWrite DEF k
  <2>6. NikonFocus' = [NikonFocus EXCEPT !.value = i]
    BY <2>5 DEF NikonFocus, k
  <2>7. /\ NikonFocus'.labels = NikonFocus.labels /\ NikonFocus'.value = i
    BY <2>1, <2>4, <2>6, NikonCapSet DEF NikonFocus, k
  <2>8. NikonAuto' <=> NikonFocus.labels[i] \notin Nikon!Manual
    BY <2>7 DEF NikonAuto, Nikon!is_manual_focus, Nikon!Manual
  <2>9. k # 0 /\ k' # 0
    BY <1>5, <2>5 DEF k
  <2>10. CASE t = NikonFocusAuto
    <3>1. /\ NikonFocusAuto' \in Nikon!get_parameters_impl'
          /\ NikonFocusAuto'.type = "FocusAuto" /\ NikonFocusAuto'.current = NikonAuto'
      BY <2>9, NikonPrimed DEF k
    <3>2. NikonAuto' = v
      <4>1. v \in BOOLEAN /\ NikonAuto' \in BOOLEAN
        BY <2>2, <2>10 DEF NikonAuto
      <4>2. NikonAuto' <=> v
        BY <2>4, <2>8, <2>10, <4>1 DEF NikonFocus, k
      <4> QED  BY <4>1, <4>2
    <3> QED  BY <2>2, <2>5, <2>10, <3>1, <3>2
  <2>11. CASE t = NikonFocusMode
    <3>1. NikonModes' = NikonModes
      BY <2>7 DEF NikonModes, Nikon!Indices, Nikon!Manual
    <3>2. NikonAuto' /\ NikonModes' # {} /\ i = v
      BY <2>2, <2>4, <2>8, <2>11, <3>1 DEF NikonFocus, k
    <3>3. /\ NikonFocusMode' \in Nikon!get_parameters_impl'
          /\ NikonFocusMode'.type = "FocusMode" /\ NikonFocusMode'.current = v
      BY <2>7, <2>9, <3>2, NikonPrimed DEF k
    <3> QED  BY <2>2, <2>5, <2>11, <3>3
  <2> QED  BY <1>5, <2>10, <2>11
<1>6. CASE (t = NikonPan \/ t = NikonTilt) /\ body.header # None
  <2>1. /\ t.type \in Positions /\ v \in {0, 1}
        /\ t.type \in {"LiveViewPan", "LiveViewTilt"}
    BY <1>6, NikonParts DEF Positions
  <2>2. Nikon!set_lv_zoom_axis(TRUE, v) \/ Nikon!set_lv_zoom_axis(FALSE, v)
    BY <2>1 DEF Nikon!Sets
  <2>3. PICK w \in {0, 1} \X {0, 1} : body' = [body EXCEPT !.window = w]
    <3>1. body.header \in {0, 1} \X {0, 1}
      BY <1>6, NikonBody DEF NikonBodyIs, NikonRecord
    <3>2. <<v, body.header[2]>> \in {0, 1} \X {0, 1} /\ <<body.header[1], v>> \in {0, 1} \X {0, 1}
      BY <2>1, <3>1
    <3> QED  BY <2>2, <3>2 DEF Nikon!set_lv_zoom_axis
  <2>4. /\ body' \in NikonRecord
        /\ \A g \in {"iso", "speed", "quality", "focus"} : body'[g] = body[g]
    BY <2>3, NikonBody DEF NikonBodyIs, NikonRecord
  <2>5. Nikon!BodyOK'
    BY <2>4, NikonBody, NikonBodyPrimed DEF NikonBodyIs
  <2> QED  BY <2>1, <2>5
<1> QED  BY <1>1, <1>2, <1>3, <1>4, <1>5, <1>6, NikonList

(* What is listed is of the level that the body is at. *)
NikonListedLevelIs ==
  Nikon!BodyOK /\ NikonLevel # None =>
    \A t \in Nikon!read_image_quality :
      Nikon!Level(body.quality.labels[t.current]) = NikonLevel

LEMMA NikonListedLevel == NikonListedLevelIs
<1> DEFINE labels == body.quality.labels
<1> SUFFICES ASSUME Nikon!BodyOK, NikonLevel # None, NEW t \in Nikon!read_image_quality
             PROVE  Nikon!Level(labels[t.current]) = NikonLevel
  BY DEF NikonListedLevelIs
<1>1. CapOK(body.quality) /\ labels \in Seq(STRING)
  BY NikonBody, NikonCap DEF NikonBodyIs
<1>2. t = NikonQuality /\ Nikon!Readable(body.quality)
  BY DEF Nikon!read_image_quality, NikonQuality, NikonKept, NikonLevel, NikonBest
<1>3. t.current = CHOOSE i \in NikonKept : Nikon!Level(labels[i]) = NikonLevel
  BY <1>2, NikonParts DEF NikonPartsAre
<1>4. body.quality.value \in DOMAIN labels
  BY <1>1, <1>2 DEF CapOK
<1> HIDE DEF labels
<1>5. \E i \in NikonKept : Nikon!Level(labels[i]) = NikonLevel
  BY <1>1, <1>4, KeptOnce DEF NikonKept, NikonLevel, labels
<1> QED  BY <1>3, <1>5

LEMMA NikonListedPrimed == NikonListedLevelIs'
  BY NikonListedLevel, PTL

(* A capture uses the quality that is listed, and lists the one it uses. *)
NikonShot ==
  changed # None /\ changed.type = "Shot" =>
    \A t \in Nikon!read_image_quality :
      Nikon!Level(body.quality.labels[t.current]) = Nikon!Level(body.quality.labels[changed.value])

LEMMA NikonShoots ==
    ASSUME Nikon!BodyOK, Nikon!ensure_jpeg_quality
    PROVE  Nikon!BodyOK' /\ Nikon!ShownIsShot /\ NikonShot'
<1> DEFINE cap == body.quality
           labels == cap.labels
           best == Nikon!find_jpeg_index(labels)
           value == IF Nikon!Readable(cap) /\ Nikon!jpeg_label_rank(labels[cap.value]) = None
                         /\ best # 0
                    THEN best ELSE cap.value
<1>1. CapOK(cap) /\ body \in NikonRecord
  BY NikonBody DEF NikonBodyIs
<1>2. labels \in Seq(STRING) /\ cap.value \in Nat
  BY <1>1, NikonCap
<1>3. /\ body' = [body EXCEPT !.quality.value = value]
      /\ changed' = [type |-> "Shot", value |-> value]
  BY DEF Nikon!ensure_jpeg_quality, Nikon!Accepts
<1> HIDE DEF labels
<1>4. \/ best = 0 /\ Nikon!jpeg_options(labels) = {}
      \/ best \in DOMAIN labels /\ best # 0
  BY <1>2, BestIsFound
<1>5. value \in DOMAIN labels \/ (~Nikon!Readable(cap) /\ value = cap.value)
  BY <1>1, <1>4 DEF CapOK, labels
<1> HIDE DEF value
<1>6. Nikon!BodyOK'
  <2>1. CASE value \in DOMAIN labels
    BY <1>3, <2>1, NikonCapWrite DEF labels
  <2>2. CASE value = cap.value
    <3>1. body' = body
      BY <1>1, <1>3, <2>2 DEF NikonRecord, Nikon!Cap
    <3> QED  BY <3>1 DEF Nikon!BodyOK
  <2> QED  BY <1>5, <2>1, <2>2
<1>7. ASSUME NEW t \in Nikon!read_image_quality
      PROVE  Nikon!Level(labels[t.current]) = Nikon!Level(labels[value])
  <2>1. t = NikonQuality /\ Nikon!Readable(cap) /\ NikonKept # {}
    BY DEF Nikon!read_image_quality, NikonQuality, NikonKept, NikonLevel, NikonBest, labels
  <2>2. CASE NikonLevel = None
    <3>1. t.current = best
      BY <2>1, <2>2, NikonParts DEF NikonPartsAre, NikonBest, labels
    <3>2. best # 0
      BY <1>4, <2>1 DEF NikonKept, labels
    <3>3. value = best
      BY <2>1, <2>2, <3>2, JpegLabels DEF value, NikonLevel, labels
    <3> QED  BY <3>1, <3>3
  <2>3. CASE NikonLevel # None
    <3>1. value = cap.value
      BY <2>3, JpegLabels DEF value, NikonLevel, labels
    <3> QED  BY <2>3, <3>1, NikonListedLevel DEF NikonListedLevelIs, NikonLevel, labels
  <2> QED  BY <2>2, <2>3
<1>8. Nikon!ShownIsShot
  BY <1>3, <1>7 DEF Nikon!ShownIsShot, labels
<1>9. body'.quality.labels = labels /\ body'.quality.value = value
  BY <1>1, <1>3 DEF NikonRecord, Nikon!Cap, labels
<1>10. NikonLevel' = Nikon!Level(labels[value])
  BY <1>9 DEF NikonLevel, Nikon!Level, Nikon!jpeg_label_rank
<1>11. ASSUME NEW t \in Nikon!read_image_quality'
       PROVE  Nikon!Level(labels[t.current]) = Nikon!Level(labels[value])
  <2>1. Nikon!Readable(cap)
    BY <1>9 DEF Nikon!read_image_quality, Nikon!Readable, labels
  <2>2. Nikon!jpeg_options(labels) # {}
    <3>1. NikonKept' # {}
      BY DEF Nikon!read_image_quality, NikonKept
    <3>2. NikonKept' = NikonKept
      BY <1>9 DEF NikonKept, labels, Nikon!jpeg_options, Nikon!Jpegs, Nikon!Level, Nikon!Better,
                  Nikon!jpeg_label_rank
    <3> QED  BY <3>1, <3>2 DEF NikonKept, labels
  <2>3. NikonLevel' # None
    <3>1. best # 0
      BY <1>4, <2>2
    <3>2. CASE Nikon!jpeg_label_rank(labels[cap.value]) # None
      BY <1>10, <3>2, JpegLabels DEF value
    <3>3. CASE Nikon!jpeg_label_rank(labels[cap.value]) = None
      <4>1. value = best
        BY <2>1, <3>1, <3>3 DEF value
      <4>2. Nikon!Level(labels[best]) # None
        BY <1>2, <3>1, BestIsFound
      <4> QED  BY <1>10, <4>1, <4>2
    <3> QED  BY <3>2, <3>3
  <2>4. Nikon!Level(body'.quality.labels[t.current]) = NikonLevel'
    BY <1>6, <2>3, NikonListedPrimed DEF NikonListedLevelIs, Nikon!Level, Nikon!jpeg_label_rank
  <2> QED  BY <1>9, <1>10, <2>4
<1>12. NikonShot'
  BY <1>3, <1>9, <1>11 DEF NikonShot, Nikon!Level, Nikon!jpeg_label_rank
<1> QED  BY <1>6, <1>8, <1>12

LEMMA NikonSteps ==
    ASSUME Nikon!BodyOK, Nikon!NikonControlsNext, NikonShot,
           changed # None /\ changed.type \notin Positions \cup {"Shot", "Connected"} =>
             \E t \in Nikon!get_parameters_impl :
               t.type = changed.type /\ t.current = changed.value
    PROVE  /\ Nikon!BodyOK' /\ NikonShot'
           /\ Nikon!ShownIsShot
           /\ changed' # None /\ changed'.type \notin Positions \cup {"Shot", "Connected"} =>
                \E t \in Nikon!get_parameters_impl' :
                  t.type = changed'.type /\ t.current = changed'.value
<1>1. CASE Nikon!ensure_jpeg_quality
  BY <1>1, NikonShoots DEF Nikon!ensure_jpeg_quality, Nikon!Accepts
<1>2. CASE Nikon!Refuses
  BY <1>2 DEF Nikon!Refuses, Nikon!BodyOK, Nikon!ShownIsShot, NikonShot
<1>3. CASE \E t \in Nikon!get_parameters_impl : \E v \in t.options :
             ~t.disabled /\ Nikon!Sets(t.type, v) /\ Nikon!Accepts(t.type, v)
  <2>1. PICK t \in Nikon!get_parameters_impl : \E v \in t.options :
             ~t.disabled /\ Nikon!Sets(t.type, v) /\ Nikon!Accepts(t.type, v)
    BY <1>3
  <2>2. PICK v \in t.options :
             ~t.disabled /\ Nikon!Sets(t.type, v) /\ Nikon!Accepts(t.type, v)
    BY <2>1
  <2>3. /\ Nikon!BodyOK'
        /\ t.type \notin Positions =>
             \E u \in Nikon!get_parameters_impl' : u.type = t.type /\ u.current = v
    BY <2>2, NikonWrite
  <2>4. changed' = [type |-> t.type, value |-> v] /\ t.type # "Shot"
    BY <2>2, NikonList, NikonParts DEF Nikon!Accepts, NikonListIs, NikonPartsAre
  <2> QED  BY <2>3, <2>4 DEF Nikon!ShownIsShot, NikonShot
<1>4. CASE Nikon!live_view_data_proc
  <2>1. /\ body' = [body EXCEPT !.header = body.window]
        /\ changed' = changed
    BY <1>4 DEF Nikon!live_view_data_proc
  <2>2. /\ body' \in NikonRecord
        /\ \A g \in {"iso", "isoAuto", "speed", "quality", "focus"} : body'[g] = body[g]
    BY <2>1, NikonBody DEF NikonBodyIs, NikonRecord
  <2>3. Nikon!BodyOK'
    BY <2>2, NikonBody, NikonBodyPrimed DEF NikonBodyIs
  <2>4. Nikon!read_image_quality' = Nikon!read_image_quality
    BY <2>2 DEF Nikon!read_image_quality
  <2>5. Nikon!ShownIsShot /\ NikonShot'
    BY <2>1, <2>2, <2>4 DEF Nikon!ShownIsShot, NikonShot, Nikon!Level, Nikon!jpeg_label_rank
  <2>6. ASSUME NEW t \in Nikon!get_parameters_impl, t.type \notin Positions
        PROVE  t \in Nikon!get_parameters_impl'
    <3>1. t \in Nikon!read_enum_param("ShutterSpeed", body.speed, FALSE)
             \cup Nikon!read_enum_param("Iso", body.iso, body.isoAuto = TRUE)
             \cup (IF body.isoAuto = None THEN {}
                   ELSE {Nikon!Toggle("IsoAuto", body.isoAuto, FALSE)})
             \cup Nikon!read_image_quality
             \cup (IF Nikon!resolve_focus_cap = 0 THEN {}
                   ELSE Nikon!build_focus_params(body.focus[Nikon!resolve_focus_cap]))
      <4>1. t \notin Nikon!read_live_view_controls
        BY <2>6, NikonParts DEF Nikon!read_live_view_controls, NikonPan, NikonTilt, NikonPartsAre,
                             Positions
      <4> QED  BY <4>1 DEF Nikon!get_parameters_impl
    <3>2. Nikon!resolve_focus_cap' = Nikon!resolve_focus_cap
      <4>1. body'.focus = body.focus
        BY <2>2
      <4> QED  BY <4>1 DEF Nikon!resolve_focus_cap
    <3>3. /\ Nikon!read_enum_param("ShutterSpeed", body'.speed, FALSE) =
                Nikon!read_enum_param("ShutterSpeed", body.speed, FALSE)
          /\ Nikon!read_enum_param("Iso", body'.iso, body'.isoAuto = TRUE) =
                Nikon!read_enum_param("Iso", body.iso, body.isoAuto = TRUE)
          /\ body'.isoAuto = body.isoAuto
          /\ body'.focus = body.focus
      BY <2>2
    <3>4. t \in Nikon!read_enum_param("ShutterSpeed", body'.speed, FALSE)
             \cup Nikon!read_enum_param("Iso", body'.iso, body'.isoAuto = TRUE)
             \cup (IF body'.isoAuto = None THEN {}
                   ELSE {Nikon!Toggle("IsoAuto", body'.isoAuto, FALSE)})
             \cup Nikon!read_image_quality'
             \cup (IF Nikon!resolve_focus_cap' = 0 THEN {}
                   ELSE Nikon!build_focus_params(body'.focus[Nikon!resolve_focus_cap']))
      BY <2>4, <3>1, <3>2, <3>3
    <3> QED  BY <3>4 DEF Nikon!get_parameters_impl
  <2> QED  BY <2>1, <2>3, <2>5, <2>6
<1>5. CASE Nikon!Dial
  <2>1. changed' = None
    BY <1>5 DEF Nikon!Dial
  <2>2. ASSUME NEW i \in DOMAIN body.quality.labels, body' = [body EXCEPT !.quality.value = i]
        PROVE  Nikon!BodyOK'
    BY <2>2, NikonCapWrite
  <2>3. ASSUME NEW i \in DOMAIN body.speed.labels, body' = [body EXCEPT !.speed.value = i]
        PROVE  Nikon!BodyOK'
    BY <2>3, NikonCapWrite
  <2>4. ASSUME NEW k \in DOMAIN body.focus, NEW i \in DOMAIN body.focus[k].labels,
               body' = [body EXCEPT !.focus[k].value = i]
        PROVE  Nikon!BodyOK'
    BY <2>4, NikonFocusWrite
  <2> QED  BY <1>5, <2>1, <2>2, <2>3, <2>4 DEF Nikon!Dial, Nikon!ShownIsShot, NikonShot
<1> QED  BY <1>1, <1>2, <1>3, <1>4, <1>5 DEF Nikon!NikonControlsNext, Nikon!set_parameter_impl

-----------------------------------------------------------------------------
(* Any body that keeps to what it offers, not only those that TLC is given. *)
AnySpec == backend \in Backends /\ BodyOK /\ changed = None /\ [][Next]_vars

(* The bodies that TLC is given are some of all. *)
THEOREM BodiesAreCases == Spec => AnySpec
  BY PTL DEF Spec, Init, AnySpec

(* What was set is shown, and what was shot is what is shown. *)
ControlsInv ==
  /\ ControlsTypeOK
  /\ SetIsSeen
  /\ backend = "nikon" => NikonShot

LEMMA StepsKeepIt ==
    ASSUME ControlsInv, Next
    PROVE  /\ ControlsInv'
           /\ backend = "gphoto2" => GPhoto!WriteLandsOnShown
           /\ backend = "nikon" => Nikon!ShownIsShot
           /\ backend = "canon" => Canon!ForcedToJpeg
<1> USE DEF ControlsInv, ControlsTypeOK, Backends
<1>0. backend' = backend
  BY DEF Next
<1>1. CASE backend = "gphoto2"
  <2>1. GPhoto!TreeOK(body) /\ GPhoto!GPhotoControlsNext
    BY <1>1 DEF BodyOK, Next
  <2>2. /\ GPhoto!TreeOK(body')
        /\ GPhoto!WriteLandsOnShown
        /\ changed' # None /\ changed'.type \notin GPhoto!Torn' =>
             \E t \in GPhoto!get_parameters' :
               t.control.type = changed'.type /\ t.control.current = changed'.value
    BY <2>1, GPhotoSteps
  <2>3. BodyOK'
    BY <1>0, <1>1, <2>2 DEF BodyOK
  <2>4. Torn' = GPhoto!Torn' /\ Listed' = {t.control : t \in GPhoto!get_parameters'}
    BY <1>0, <1>1 DEF Torn, Listed
  <2>5. SetIsSeen'
    <3> SUFFICES ASSUME changed' # None, changed'.type \notin GPhoto!Torn'
                 PROVE  \E t \in Listed' : t.type = changed'.type /\ t.current = changed'.value
      BY <2>4 DEF SetIsSeen
    <3> QED  BY <2>2, <2>4
  <2> QED  BY <1>0, <1>1, <2>2, <2>3, <2>5
<1>2. CASE backend = "nikon"
  <2>1. Nikon!BodyOK /\ Nikon!NikonControlsNext /\ NikonShot
    BY <1>2 DEF BodyOK, Next
  <2>2. Torn = {} /\ Listed = Nikon!get_parameters_impl
    BY <1>2 DEF Torn, Listed
  <2>3. Torn' = {} /\ Listed' = Nikon!get_parameters_impl'
    BY <1>0, <1>2 DEF Torn, Listed
  <2>4. changed # None /\ changed.type \notin Positions \cup {"Shot", "Connected"} =>
          \E t \in Nikon!get_parameters_impl : t.type = changed.type /\ t.current = changed.value
    BY <2>1, <2>2 DEF SetIsSeen
  <2>5. /\ Nikon!BodyOK' /\ NikonShot'
        /\ Nikon!ShownIsShot
        /\ changed' # None /\ changed'.type \notin Positions \cup {"Shot", "Connected"} =>
             \E t \in Nikon!get_parameters_impl' :
               t.type = changed'.type /\ t.current = changed'.value
    BY <2>1, <2>4, NikonSteps
  <2>6. BodyOK' /\ SetIsSeen'
    BY <1>0, <1>2, <2>3, <2>5 DEF BodyOK, SetIsSeen
  <2> QED  BY <1>0, <1>2, <2>5, <2>6
<1>3. CASE backend = "canon"
  <2>1. Canon!BodyOK /\ Canon!CanonControlsNext
    BY <1>3 DEF BodyOK, Next
  <2>2. Torn' = {} /\ Listed' = Canon!get_parameters_impl'
    BY <1>0, <1>3 DEF Torn, Listed
  <2>3. /\ Canon!BodyOK'
        /\ Canon!ForcedToJpeg
        /\ changed' # None /\ changed'.type \notin Positions \cup {"Connected"} =>
             \E t \in Canon!get_parameters_impl' :
               t.type = changed'.type /\ t.current = changed'.value
    BY <2>1, CanonSteps
  <2>4. BodyOK' /\ SetIsSeen'
    BY <1>0, <1>3, <2>2, <2>3 DEF BodyOK, SetIsSeen
  <2> QED  BY <1>0, <1>3, <2>3, <2>4
<1>4. CASE backend = "sony"
  <2>1. Sony!BodyOK /\ Sony!SonyControlsNext
    BY <1>4 DEF BodyOK, Next
  <2>2. Torn' = {} /\ Listed' = Sony!get_parameters_impl'
    BY <1>0, <1>4 DEF Torn, Listed
  <2>3. /\ Sony!BodyOK'
        /\ changed' # None =>
             \E t \in Sony!get_parameters_impl' :
               t.type = changed'.type /\ t.current = changed'.value
    BY <2>1, SonySteps
  <2>4. BodyOK' /\ SetIsSeen'
    BY <1>0, <1>4, <2>2, <2>3 DEF BodyOK, SetIsSeen
  <2> QED  BY <1>0, <1>4, <2>3, <2>4
<1> QED  BY <1>1, <1>2, <1>3, <1>4

LEMMA ControlsSame ==
    ASSUME ControlsInv, body' = body, changed' = changed, backend' = backend
    PROVE  ControlsInv'
<1>1. BodyOK' = BodyOK
  BY DEF BodyOK, Nikon!BodyOK, Canon!BodyOK, Sony!BodyOK
<1>2. SetIsSeen' = SetIsSeen
  <2>1. Torn' = Torn
    BY DEF Torn, GPhoto!Torn, GPhoto!walk_widget
  <2>2. Listed' = Listed
    <3>1. GPhoto!get_parameters' = GPhoto!get_parameters
      BY DEF GPhoto!get_parameters, GPhoto!walk_widget
    <3>2. Nikon!get_parameters_impl' = Nikon!get_parameters_impl
      BY DEF Nikon!get_parameters_impl, Nikon!read_image_quality, Nikon!resolve_focus_cap,
             Nikon!read_live_view_controls
    <3>3. Canon!get_parameters_impl' = Canon!get_parameters_impl
      BY DEF Canon!get_parameters_impl
    <3>4. Sony!get_parameters_impl' = Sony!get_parameters_impl
      BY DEF Sony!get_parameters_impl
    <3> QED  BY <3>1, <3>2, <3>3, <3>4 DEF Listed
  <2> QED  BY <2>1, <2>2 DEF SetIsSeen
<1>3. NikonShot' = NikonShot
  BY DEF NikonShot, Nikon!read_image_quality
<1> QED  BY <1>1, <1>2, <1>3 DEF ControlsInv, ControlsTypeOK

LEMMA AnyInv == AnySpec => []ControlsInv
<1>1. backend \in Backends /\ BodyOK /\ changed = None => ControlsInv
  BY DEF ControlsInv, ControlsTypeOK, SetIsSeen, NikonShot
<1>2. ControlsInv /\ [Next]_vars => ControlsInv'
  <2> SUFFICES ASSUME ControlsInv, UNCHANGED vars  PROVE ControlsInv'
    BY StepsKeepIt
  <2>1. UNCHANGED <<body, changed, backend>>
    BY DEF vars, controlVars
  <2> QED  BY <2>1, ControlsSame
<1> QED  BY <1>1, <1>2, PTL DEF AnySpec

(* A body keeps to what it offers, whatever clients and owner do to it: a      *)
(* write that the code lets through never leaves it at a value of its own.   *)
THEOREM ControlsKeepTypes == AnySpec => []ControlsTypeOK
<1>1. ControlsInv => ControlsTypeOK
  BY DEF ControlsInv
<1> QED  BY <1>1, AnyInv, PTL

(* What came of an accepted write is what the next list shows, of every backend:
   the value that the client set, or on Sony, if the body did not take it within
   the wait of the call, what the body is at.  *)
THEOREM WhatIsSetIsSeen == AnySpec => []SetIsSeen
<1>1. ControlsInv => SetIsSeen
  BY DEF ControlsInv
<1> QED  BY <1>1, AnyInv, PTL

LEMMA ListIsAlwaysSound ==
    ASSUME ControlsTypeOK
    PROVE  ListIsSound
<1>1. CASE backend = "gphoto2"
  <2>1. GPhoto!TreeOK(body)
    BY <1>1 DEF ControlsTypeOK, BodyOK
  <2>2. Torn = GPhoto!Torn /\ Listed = {t.control : t \in GPhoto!get_parameters}
    BY <1>1 DEF Torn, Listed
  <2>3. \A t, u \in Listed : t.type = u.type => t = u
    BY <2>1, <2>2, GPhotoIsSound
  <2>4. \A t, u \in Listed :
          \/ t.type = "IsoAuto" /\ t.current /\ u.type = "Iso"
          \/ t.type = "FocusAuto" /\ ~t.current /\ u.type = "FocusMode" /\ t.type \notin Torn
          => u.disabled
    BY <2>1, <2>2, GPhotoIsSound
  <2>5. \A t \in Listed :
          t.disabled \/ t.current \in t.options \/ t.type \in {"ShutterSpeed", "ImageQuality"}
    BY <2>1, <2>2, GPhotoIsSound
  <2>6. \A t \in Listed : t.disabled \/ Cardinality(t.options) >= 2
    <3>1. \A S : GPhoto!Cardinality(S) = Cardinality(S)
      BY DEF GPhoto!Cardinality, Cardinality
    <3> QED  BY <2>1, <2>2, <3>1, GPhotoIsSound
  <2> QED  BY <2>3, <2>4, <2>5, <2>6 DEF ListIsSound
<1>2. CASE backend = "nikon"
  <2>1. Nikon!BodyOK
    BY <1>2 DEF ControlsTypeOK, BodyOK
  <2>2. Listed = Nikon!get_parameters_impl
    BY <1>2 DEF Listed
  <2> QED  BY <1>2, <2>1, <2>2, NikonIsSound DEF ListIsSound
<1>3. CASE backend = "canon"
  <2>1. Canon!BodyOK
    BY <1>3 DEF ControlsTypeOK, BodyOK
  <2>2. Listed = Canon!get_parameters_impl
    BY <1>3 DEF Listed
  <2> QED  BY <1>3, <2>1, <2>2, CanonIsSound DEF ListIsSound
<1>4. CASE backend = "sony"
  <2>1. Sony!BodyOK
    BY <1>4 DEF ControlsTypeOK, BodyOK
  <2>2. Listed = Sony!get_parameters_impl
    BY <1>4 DEF Listed
  <2> QED  BY <1>4, <2>1, <2>2, SonyIsSound DEF ListIsSound
<1> QED  BY <1>1, <1>2, <1>3, <1>4 DEF ControlsTypeOK, Backends

(* The lists are always sound: whatever the names, orders and choices of a    *)
(* body, whatever was written or dialled before.                            *)
THEOREM ListsAreSound == AnySpec => []ListIsSound
<1>1. ControlsInv => ListIsSound
  BY ListIsAlwaysSound DEF ControlsInv
<1> QED  BY <1>1, AnyInv, PTL

(* gphoto2's two ways through the tree, the one that reads and the one that   *)
(* writes, end at one widget.                                               *)
THEOREM WritesLand == AnySpec => WriteLandsOnShown
<1>1. ControlsInv /\ [Next]_vars => [backend = "gphoto2" => GPhoto!WriteLandsOnShown]_vars
  BY StepsKeepIt
<1> QED  BY <1>1, AnyInv, PTL DEF AnySpec, WriteLandsOnShown

(* A photo has the quality that is listed (Nikon); a connected body shoots    *)
(* JPEG alone, if it can (Canon).                                           *)
THEOREM QualityStays == AnySpec => QualityIsKept
<1>1. ControlsInv /\ [Next]_vars =>
        [/\ backend = "nikon" => Nikon!ShownIsShot
         /\ backend = "canon" => Canon!ForcedToJpeg]_vars
  BY StepsKeepIt
<1> QED  BY <1>1, AnyInv, PTL DEF AnySpec, QualityIsKept
=============================================================================
