------------------------------ MODULE MCFiles ------------------------------
(* Three kinds of files other than the runtime's own state: a user's source,  *)
(* a model artifact, and the installation.  They share no state; which one a  *)
(* behaviour is about is chosen in its initial state, the others rest (in one  *)
(* initial state of theirs), and fairness is asked of the chosen one alone.    *)
EXTENDS SourceInstall, ModelFiles, SystemInstall

CONSTANTS r1, r2

VARIABLE subject

filesVars == <<subject, vars, modelFilesVars, systemInstallVars>>

FilesInit ==
  /\ subject \in {"source", "model", "install"}
  /\ Init /\ ModelFilesInit /\ SystemInstallInit
  /\ subject = "source" \/ name["target"] = CHOOSE i \in Inodes : TRUE
  /\ managed => subject = "model"
  /\ windows => subject = "install"

FilesNext ==
  \/ subject = "source" /\ Next /\ UNCHANGED <<subject, modelFilesVars, systemInstallVars>>
  \/ subject = "model" /\ ModelFilesNext /\ UNCHANGED <<subject, vars, systemInstallVars>>
  \/ subject = "install" /\ SystemInstallNext /\ UNCHANGED <<subject, vars, modelFilesVars>>

(* FairSpec, ModelFilesFairness and SystemInstallFairness, each of its own subject. *)
FilesFairness ==
  /\ \A r \in Runners : WF_vars(subject = "source" /\ Step(r))
  /\ WF_vars(subject = "source" /\ \E r \in Runners : Recover(r))
  /\ \A p \in Fetcher : WF_modelFilesVars(subject = "model" /\ FetchStep(p))
  /\ WF_modelFilesVars(subject = "model" /\ CleanupFailed /\ told = "part")
  /\ WF_modelFilesVars(subject = "model" /\ MoveAway)
  /\ \A p \in Command : WF_systemInstallVars(subject = "install" /\ CmdStep(p))
  /\ WF_systemInstallVars(subject = "install" /\ Invoke(Remover, "uninstall", FALSE))
  /\ WF_systemInstallVars(subject = "install" /\ ScriptStep)
  /\ WF_systemInstallVars(subject = "install" /\ StopBackend)

FilesSpec == FilesInit /\ [][FilesNext]_filesVars /\ FilesFairness
=============================================================================
