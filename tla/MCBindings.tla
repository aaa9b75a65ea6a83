---------------------------- MODULE MCBindings -----------------------------
(* Two requests of either binding that may share the address of a basket.     *)
(* One of them may block: two that do have nothing in common.                 *)
EXTENDS Bindings

First == CHOOSE r \in Requests : TRUE
MCStyles == {s \in [Requests -> {"blocking", "polled"}] : \A r \in Requests \ {First} : s[r] = "polled"}
=============================================================================
