----------------------------- MODULE MCProjects -----------------------------
(* Instances of Projects for TLC.                                          *)
EXTENDS Projects, TLC

CONSTANTS alice, bob

\* Two people, one of them an administrator, with fixed UIDs: the UIDs of the
\* primary accounts are interchangeable, so one assignment stands for all.
FixedUIDs == \A p \in People : uid[Primary(p)] = IF p = alice THEN 1 ELSE 2

MCInit == Init /\ FixedUIDs
MCSpec == MCInit /\ [][Next]_vars

\* With an administrator who works on the accounts outside Soda, and every
\* process scheduled: all requests without faults, or one less and every fault.
MCNativeNext == NativeNext /\ (requests' = 0 => faults' = MaxFaults)
MCNativeFairSpec == MCInit /\ [][MCNativeNext]_vars /\ Fairness

\* Every setup and removal finds work to do: the project is catalogued and
\* both people have a complete workspace in it.
WithWorkspaces ==
    /\ catalog = [j \in ProjectIDs |-> CHOOSE u \in URLs : TRUE]
    /\ uid = [a \in Accounts |->
         (IF a \in Workspaces THEN 2 ELSE 0) + (IF a[1] = alice THEN 1 ELSE 2)]
    /\ home = [a \in Accounts |->
         IF a \in Workspaces
         THEN [owner |-> uid[a], keys |-> TRUE, git |-> TRUE, clone |-> catalog[a[2]]]
         ELSE [NewHome(uid[a]) EXCEPT !.keys = TRUE]]

\* Setups are interchangeable: nothing orders or chooses among them.
SetupSymmetry == Permutations(Setups)

MCWorkspacesInit == WithWorkspaces /\ InitProcesses
MCWorkspacesSpec == MCWorkspacesInit /\ [][Next]_vars
=============================================================================
