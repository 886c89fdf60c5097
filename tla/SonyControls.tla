----------------------------- MODULE SonyControls -----------------------------
(***************************************************************************)
(* The parameters of a Sony body: properties of a width, with the values it *)
(* offers at the moment.  Automatic ISO is one value of the ISO list.  A    *)
(* write takes effect some time after the SDK accepted it.                 *)
(***************************************************************************)
EXTENDS Controls

(* Widths are scaled down: a property is two bits wide in a word of four, and *)
(* a value of the body may come sign-extended.                              *)
Word == 16
Mask(raw) == raw % 4

Property == [offers : Seq(0..3), value : 0..(Word - 1), writable : BOOLEAN]

BodyOK ==
  /\ body \in [IsoP : Property, SpeedP : Property, BiasP : Property]
  /\ \A p \in DOMAIN body : Mask(body[p].value) \in ToSet(body[p].offers)

IsoAutoValue == 3
BulbSpeed == 0
is_hidden_option(type, v) == type = "ShutterSpeed" /\ v = BulbSpeed
iso_is_auto(v) == v = IsoAutoValue

-----------------------------------------------------------------------------
(* Reading. *)

concrete(p) == {v \in ToSet(p.offers) : ~iso_is_auto(v)}

(* The toggle, and the list without the automatic entry. *)
build_iso_params(p) ==
  LET now == Mask(p.value)
      auto == iso_is_auto(now)
  IN  {Toggle("IsoAuto", auto, ~p.writable)}
        \cup IF Cardinality(concrete(p)) < 2 THEN {}
             ELSE {Control("Iso", now, concrete(p), auto \/ ~p.writable)}

options(type, p) == {v \in ToSet(p.offers) : ~is_hidden_option(type, v)}
shut(type, p) == ~p.writable \/ Cardinality(options(type, p)) < 2

(* Mutant: the value is shown as the body sent it, sign and all. *)
BuildUnmasked(type, p) ==
  {Control(type, p.value, IF options(type, p) = {} THEN {p.value} ELSE options(type, p),
           shut(type, p))}

(* A control without a choice stays, shut, with what the body is at. *)
build_parameter(type, p) ==
  {Control(type, Mask(p.value),
           IF options(type, p) = {} THEN {Mask(p.value)} ELSE options(type, p),
           shut(type, p))}

get_parameters_impl ==
  build_iso_params(body.IsoP)
    \cup build_parameter("ShutterSpeed", body.SpeedP)
    \cup build_parameter("ExposureCompensation", body.BiasP)

-----------------------------------------------------------------------------
(* Writing. *)

(* The body comes to be at w, which it may give sign-extended. *)
Takes(p, w) ==
  \E raw \in {w, w + Word - 4} :
    body' = [body EXCEPT ![p].value = IF w >= 2 THEN raw ELSE w]

(* The SDK accepts the value.  In the two seconds that the call waits the    *)
(* body takes it, takes another one near it, or does nothing: the call says  *)
(* that it went well in each case.                                         *)
set_property(p, v) ==
  /\ v \in ToSet(body[p].offers)
  /\ body[p].writable
  /\ (\E w \in ToSet(body[p].offers) : Takes(p, w)) \/ UNCHANGED body

(* Automatic ISO off: the lowest concrete value. *)
sn_set_iso_auto(p, enable) ==
  IF enable THEN IsoAutoValue ELSE IF concrete(p) = {} THEN None ELSE Min(concrete(p))

Value(type, v) == IF type = "IsoAuto" THEN sn_set_iso_auto(body.IsoP, v) ELSE v

PropertyOf(type) ==
  CASE type \in {"Iso", "IsoAuto"} -> "IsoP"
    [] type = "ShutterSpeed" -> "SpeedP"
    [] type = "ExposureCompensation" -> "BiasP"

(* How a client sees the value that a body is at. *)
Seen(type, x) == IF type = "IsoAuto" THEN iso_is_auto(x) ELSE x

(* What came of it: the choice, if the body took its value, or what the body *)
(* is at instead.                                                          *)
Outcome(type, v) ==
  LET now == Mask(body'[PropertyOf(type)].value)
  IN  IF now = Value(type, v) THEN v ELSE Seen(type, now)

set_parameter_impl ==
  \/ \E t \in get_parameters_impl : \E v \in t.options :
       /\ ~t.disabled
       /\ Value(t.type, v) # None
       /\ set_property(PropertyOf(t.type), Value(t.type, v))
       /\ Accepts(t.type, Outcome(t.type, v))
  \/ Refuses

(* The owner turns a dial: a value, or which values there are to choose.     *)
Dial ==
  /\ \E p \in DOMAIN body :
       \/ \E v \in ToSet(body[p].offers) : body' = [body EXCEPT ![p].value = v]
       \/ body' = [body EXCEPT ![p].offers = <<Mask(body[p].value)>>]
  /\ changed' = None

SonyControlsNext == set_parameter_impl \/ Dial

=============================================================================
