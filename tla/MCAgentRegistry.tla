-------------------------- MODULE MCAgentRegistry --------------------------
(* Instances of AgentRegistry for TLC. *)
EXTENDS AgentRegistry

CONSTANT w1

MCWalletOf == [c \in Clients |-> CHOOSE o \in Wallets : TRUE]
=============================================================================
