------------------------------ MODULE MCWallets ------------------------------
(***************************************************************************)
(* Where passphrases are kept and how they are asked for, in one instance  *)
(* for TLC: the stores driven by a command or a library, the Secret        *)
(* Service, and the prompters.  They share no state: a behaviour is one of *)
(* one part, chosen at the start, and the others stay as they begin.       *)
(***************************************************************************)
EXTENDS Wallets, SecretService, Prompts, TLC

VARIABLE part

storesVars == <<part, walletVars, ssVars, prVars>>

StoresInit ==
  /\ part \in {"wallets", "secret_service", "prompts"}
  /\ WalletsInit /\ (part # "wallets" => kind = "1password")
  /\ SecretServiceInit /\ PromptsInit

StoresNext ==
  /\ UNCHANGED part
  /\ \/ part = "wallets" /\ WalletsNext
     \/ part = "secret_service" /\ SecretServiceNext
     \/ part = "prompts" /\ PromptsNext
  /\ part # "wallets" => UNCHANGED walletVars
  /\ part # "secret_service" => UNCHANGED ssVars
  /\ part # "prompts" => UNCHANGED prVars

StoresSpec == StoresInit /\ [][StoresNext]_storesVars

(* Every part keeps its types.                                              *)
StoresTypeOK == WalletsTypeOK /\ SecretServiceTypeOK /\ PromptsTypeOK

(* What an operation answered and gave out is not read once it is over, and *)
(* the parts that do not move are as they began: states that differ in that *)
(* alone are one to TLC.                                                    *)
Seen ==
  CASE part = "wallets" ->
         <<kind, items, call, at, found, own, late, walletFailures, walletOutside, history>>
    [] part = "secret_service" -> <<part, ssVars>>
    [] part = "prompts" -> <<part, prVars>>

(* The name sshakku would not give contains that of each service.           *)
Contained == [s \in Services |-> {Foreign}]

Alike == Permutations(Shells) \cup Permutations(Secrets)
=============================================================================
