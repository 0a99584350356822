-------------------------------- MODULE MCDesk --------------------------------
(* The application gateway (part = "gateway") and the credential vault it   *)
(* starts (part = "vault") for TLC.  The gateway sees of the vault whether  *)
(* its process lives, the vault nothing of the gateway, so one run takes    *)
(* them one at a time; the other stays where it starts.                     *)
EXTENDS Credentials, AppGateway

VARIABLE part

allVars == <<part, vars, gatewayVars>>

DeskInit ==
  /\ part \in {"vault", "gateway"}
  /\ Init /\ (part = "gateway" => backend = "keyring" /\ fields = [k \in Key |-> Absent])
  /\ GatewayInit /\ (part = "vault" => config = Anyone)

DeskNext ==
  \/ part = "vault" /\ Next /\ UNCHANGED <<part, gatewayVars>>
  \/ part = "gateway" /\ GatewayNext /\ UNCHANGED <<part, vars>>

\* The fairness of the vault; nothing is claimed of where the gateway gets to.
DeskSpec ==
  /\ DeskInit /\ [][DeskNext]_allVars
  /\ WF_vars(part = "vault" /\ Renewal) /\ WF_vars(part = "vault" /\ Tick)
  /\ \A c \in Client : WF_vars(part = "vault" /\ Serve(c))
===============================================================================
