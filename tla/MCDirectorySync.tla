--------------------------- MODULE MCDirectorySync ---------------------------
(***************************************************************************)
(* Workspace A has an owner and a member; B does not exist yet.             *)
(***************************************************************************)
EXTENDS DirectorySync, TLC

CONSTANTS r1, r2, r3, owner, member, A, B, eOwner, eMember, eNew, dCorp, dOther

MCSeedRow == [s \in {owner, member} |->
    IF s = owner THEN [tenant |-> A, email |-> eOwner, role |-> "owner", active |-> TRUE, epoch |-> None]
                 ELSE [tenant |-> A, email |-> eMember, role |-> "member", active |-> TRUE, epoch |-> None]]

MCDomainOf == [e \in Emails |-> IF e = eNew THEN dOther ELSE dCorp]

MCRowIds == Req \cup Seeds \cup 1..Work

Symmetry == Permutations(Req)
=============================================================================
