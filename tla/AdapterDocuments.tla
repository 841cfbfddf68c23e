-------------------------- MODULE AdapterDocuments --------------------------
(***************************************************************************)
(* What the adapters of module Adapters write: the documents of their      *)
(* sources, flattened.                                                     *)
(***************************************************************************)
EXTENDS Adapters, Documents

ASSUME FlattenedAssumption ==
    Flattened = [value \in Payloads |-> Flatten(WritesTo, value)]

(***************************************************************************)
(* What is written is a whole document: every branch of it is in the       *)
(* scene, under the prefix, and no other leaf has changed.                 *)
(***************************************************************************)
Written(document) ==
    {<<JoinAll(WritesTo, b[1]), b[2]>> :
        b \in {b \in Branches(document) : JoinAll(WritesTo, b[1]) # <<>>}}

WholeDocuments ==
    [][leaves' # leaves =>
          \E document \in Payloads :
              LET pairs == Written(document)
                  paths == {w[1] : w \in pairs}
              IN  /\ DOMAIN leaves' = DOMAIN leaves \cup paths
                  /\ \A p \in DOMAIN leaves' :
                        IF p \in paths THEN <<p, leaves'[p]>> \in pairs
                        ELSE leaves'[p] = leaves[p]]_vars
=============================================================================
