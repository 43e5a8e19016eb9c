---------------------------- MODULE MCLifecycle ----------------------------
(* Constants for the runs of Lifecycle *)
EXTENDS Lifecycle, TLC

CONSTANTS idle, init, c1, c2, procLock, nil

MCProc == {idle, init, c1, c2}
Sym == Permutations({c1, c2})

\* what is checked ends where the properties' histories do
Followed == ~early /\ ~killed

\* the arguments and local variables of a system call count only until their
\* last use
InKillOrSpawn == {"kill_lock", "kill_check", "kill_checked", "kill_relock", "kill_act",
                  "spawn_unlock", "spawn_create", "spawn_parent"}
View ==
  <<vars, listed, ppid, exit_code, at, spawned, disturbed,
    [p \in Proc |-> IF at[p] \in InKillOrSpawn THEN arg[p] ELSE Nil],
    {p \in Proc : children[p] /\ at[p] \in {"wait_none", "wait_test"}}>>
=============================================================================
