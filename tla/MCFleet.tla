------------------------------ MODULE MCFleet ------------------------------
(***************************************************************************)
(* An app to deploy with two replicas, in a pool that has no server yet;   *)
(* one with a portable volume on s1 and one without on s2, an empty server *)
(* s3, the servers that deployments would provision and one that is        *)
(* requested.                                                              *)
(***************************************************************************)
EXTENDS FleetProperties

CONSTANTS fresh, stored, plain, s1, s2, s3, ours, theirs, unused, asked

MCApp == {fresh, stored, plain}
MCServer == {s1, s2, s3, ours, theirs, unused, asked}
MCOld == {s1, s2, s3}
MCOwn == [x \in MCApp |-> CASE x = fresh -> ours [] x = plain -> theirs [] x = stored -> unused]
MCPool == [x \in MCApp \cup MCServer |-> IF x \in {fresh, ours, asked} THEN "edge" ELSE "general"]
MCWant == [x \in MCApp |-> IF x = fresh THEN 2 ELSE 1]
MCHome == [x \in {stored, plain} |-> IF x = stored THEN s1 ELSE s2]
MCPortable == {stored}
=============================================================================
