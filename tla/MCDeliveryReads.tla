-------------------------- MODULE MCDeliveryReads --------------------------
(* Instances of DeliveryReads for TLC. *)
EXTENDS DeliveryReads, TLC

\* Requests are interchangeable.
MCSymmetry == Permutations(Requests)

Public  == V4(93, 184, 215, 14)
Private == V4(10, 0, 0, 1)

MCPool == {Public, Private}

\* Host names and an address that is blocked.
NameA == Url("a", "https", FALSE, {})
NameB == Url("b", "https", FALSE, {})
NameC == Url("c", "https", FALSE, {})

MCUrls == {NameC, Url("p", "https", FALSE, {Private})}

MCInitial == [e \in {"e1", "e2"} |-> IF e = "e1" THEN NameA ELSE NameB]
=============================================================================
