----------------------------- MODULE MCLifecycle -----------------------------
(* Instances of Lifecycle: two vaults, and one or two chains of awaits.       *)
EXTENDS Lifecycle

=============================================================================
