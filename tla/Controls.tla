------------------------------ MODULE Controls ------------------------------
(***************************************************************************)
(* What the vendor backends share when they turn the settings of a body     *)
(* into a list of typed controls for the clients, and a client's choice     *)
(* back into a write to the body.                                          *)
(***************************************************************************)
EXTENDS Naturals, Sequences, SequencesExt, FiniteSetsExt

CONSTANT None

VARIABLES
  body,    \* the settings of the body that is connected
  changed  \* what came of the last write that was accepted: [type, value]

controlVars == <<body, changed>>

(* A control as a client sees it: the value shown, the values it may choose. *)
Control(type, current, options, disabled) ==
  [type |-> type, current |-> current, options |-> options, disabled |-> disabled]

Toggle(type, on, disabled) == Control(type, on, {TRUE, FALSE}, disabled)

Accepts(type, value) == changed' = [type |-> type, value |-> value]

(* The body refuses, which a caller is told: nothing has changed. *)
Refuses == changed' = None /\ UNCHANGED body

(* The first of the choices that is in the set. *)
FirstOf(choices, set) ==
  LET hits == {i \in DOMAIN choices : choices[i] \in set}
  IN  IF hits = {} THEN None ELSE choices[Min(hits)]

=============================================================================
