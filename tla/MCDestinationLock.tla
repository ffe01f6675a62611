-------------------------- MODULE MCDestinationLock --------------------------
(* Runs on one node that receive into a dataset and into children of it.    *)
EXTENDS DestinationLock

Parent == [node |-> "b", path |-> <<"tank", "dst">>]
Child(name) == [node |-> "b", path |-> <<"tank", "dst", name>>]

\* The middle name is the parent's, so a child comes before and after it.
ParentAndChildren == [r \in Runs |-> IF r = 2 THEN Parent
                                     ELSE IF r = 1 THEN Child("x") ELSE Child("y")]
=============================================================================
