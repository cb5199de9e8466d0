-------------------------- MODULE MCCheckpointStore --------------------------
(***************************************************************************)
(* Two ranks; PPO with an actor and a critic that keep different numbers   *)
(* of checkpoints, PPO that keeps all, SFT; and PPO that keeps only one.   *)
(***************************************************************************)
EXTENDS CheckpointStore

MCRoles == {"actor", "critic"}

Ppo(a, c) == [trainer |-> "ppo", roles |-> <<"actor", "critic">>,
              keep |-> [actor |-> a, critic |-> c]]
Sft(k) == [trainer |-> "sft", roles |-> <<"actor">>,
           keep |-> [actor |-> k, critic |-> 0]]

MCConfigs == {Ppo(2, 3), Ppo(2, 0), Sft(2)}
KeepOne == {Ppo(1, 1)}
=============================================================================
