---------------------------- MODULE MCConductor -----------------------------
(* Instances of the conductor for TLC. *)
EXTENDS Conductor

\* The script of the test strict_order_one_actor_at_a_time: a, a, b, a.
TwoActorScript == <<0, 0, 1, 0>>

\* Three actors, with a hand-over between every pair and a repeated owner.
ThreeActorScript == <<0, 1, 1, 2, 0>>

FirstDevice == {0}

NoDevice == {}

NextOnly == {"next"}

AnyVerb == {"claim", "next", "done"}

Reliable == {}
=============================================================================
