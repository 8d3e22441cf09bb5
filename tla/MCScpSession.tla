---------------------------- MODULE MCScpSession ----------------------------
(***************************************************************************)
(* Instances of ScpSession for TLC: the walks, and names with a space.     *)
(***************************************************************************)
EXTENDS ScpSession

D(n) == [type |-> "D", name |-> n]
F(n) == [type |-> "C", name |-> n]
E(n) == [type |-> "E", name |-> n]

AllNames == {"a", "a b", "d", "e"}
Words == [n \in AllNames |-> IF n = "a b" THEN "a" ELSE n]

AllKinds == {"upload", "download", "downloadDir"}

Walks == {
    <<F("a")>>,
    <<F("a"), F("e")>>,
    <<D("d"), E("d")>>,
    <<F("a"), D("d"), F("a"), E("d")>>,
    <<D("d"), F("a"), E("d"), D("e"), F("a"), E("e"), F("e")>>,
    <<D("d"), D("e"), F("a"), E("e"), F("a"), E("d")>>,
    <<D("d"), F("a"), E("d"), D("e"), D("d"), E("d"), F("d"), E("e")>>,
    <<D("d"), F("a b"), F("a"), E("d")>>}
=============================================================================
