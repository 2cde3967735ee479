------------------------------ MODULE MCCalls -------------------------------
(* Instances of Calls for TLC.                                             *)
EXTENDS Calls

CONSTANTS a, b

(* The caller's chain: a top-level call, a nested one, and one that comes  *)
(* back to Me through another module.                                      *)
TopLevel == {<<>>}
Nested   == {<<"caller">>}
Cyclic   == {<<Me, "caller">>}
MCChains == Nested \cup Cyclic

MCTwo == <<a, b>>
MCOne == <<a>>

Entry(module, enabled, desc, timeout) ==
  [module |-> module, enabled |-> enabled, desc |-> desc, timeout |-> timeout]

(* A declared timeout beyond the global one, a negative one, none; gating  *)
(* by the instance only and by the descriptor only; a disabled module.     *)
MCEntries == {Entry("plain", TRUE, FALSE, None), Entry("plain", TRUE, TRUE, 2),
              Entry("gated", TRUE, FALSE, None), Entry("gated", FALSE, FALSE, None),
              Entry("plain", TRUE, FALSE, -1)}
MCPlain   == {Entry("plain", TRUE, FALSE, t) : t \in {None, 2}}
=============================================================================
