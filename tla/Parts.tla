------------------------------- MODULE Parts -------------------------------
(***************************************************************************)
(* Parts of the system that share no state and never wait for each other:  *)
(* header collections, sockets whose options are set, resources that calls *)
(* move from one guest to another, and the tasks that reload manifests.    *)
(* A behaviour of one of them, the others at rest, stands for all in which *)
(* they alternate.                                                         *)
(***************************************************************************)
EXTENDS HttpFields, SocketOptions, Transfer, Reload

VARIABLE part   \* the part that this behaviour is about

partsVars == <<part, fieldsVars, optionVars, transferVars, reloadVars>>

PartsTypeOK ==
  /\ part \in {"fields", "options", "transfer", "reload"}
  /\ FieldsTypeOK /\ OptionsTypeOK /\ TransferTypeOK /\ ReloadTypeOK

\* A main that has returned is at rest.
PartsInit ==
  /\ part \in {"fields", "options", "transfer", "reload"}
  /\ FieldsInit /\ TransferInit
  /\ OptionsInit /\ (part # "options" => option = "hop-limit")
  /\ IF part = "reload" THEN ReloadInit
     ELSE main = "failed" /\ file = NoFile /\ NothingHappened

PartsNext ==
  /\ \/ /\ part = "fields" /\ FieldsNext
        /\ UNCHANGED <<optionVars, transferVars, reloadVars>>
     \/ /\ part = "options" /\ OptionsNext
        /\ UNCHANGED <<fieldsVars, transferVars, reloadVars>>
     \/ /\ part = "transfer" /\ TransferNext
        /\ UNCHANGED <<fieldsVars, optionVars, reloadVars>>
     \/ /\ part = "reload" /\ ReloadNext
        /\ UNCHANGED <<fieldsVars, optionVars, transferVars>>
  /\ UNCHANGED part

PartsSpec == PartsInit /\ [][PartsNext]_partsVars /\ ReloadFairness
=============================================================================
