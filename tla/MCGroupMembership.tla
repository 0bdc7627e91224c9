--------------------------- MODULE MCGroupMembership ---------------------------
(***************************************************************************)
(* GroupMembership on small sets of groups, users, invites and requests.   *)
(***************************************************************************)
EXTENDS GroupMembership, TLC

Symmetry == Permutations(Groups) \union Permutations(Users) \union Permutations(Rows)
            \union Permutations(Requests)

(* The steps of CalmSpec, as a constraint on those of Spec.                *)
CalmStep == Calm'

(* Assumption: administrators do not add members to a group while it is    *)
(* pending deletion (every one of them holds up one pass of the purge).    *)
NoLateAdds ==
    \A p \in Requests : calls[p].pc = "joining" /\ calls[p].invite = Null =>
        groups[calls[p].group].status # "pending_deletion"

LiveSpec == Init /\ [][Next /\ NoLateAdds']_vars /\ Fairness

================================================================================
