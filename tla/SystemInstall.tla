--------------------------- MODULE SystemInstall ---------------------------
(* The user-local installation: install, clean install, update and clean     *)
(* uninstall, against the starts of a backend, all under the runtime lease.   *)
(* Ownership of the binary and, on Windows, of the PATH entry is recorded     *)
(* after the fact.  On Windows a command cannot replace or remove the binary  *)
(* it runs from: it leaves a script that waits for its exit and then works    *)
(* without the lease; a marker keeps other commands from the binary while an  *)
(* update is pending, nothing while a removal is.                             *)
EXTENDS Naturals

CONSTANTS
    Command,       \* the processes that run a command
    Remover,       \* the one that uninstalls, from an extracted binary, until it is done
    NoCommand,
    CommandBudget, \* commands of all the others
    KillBudget     \* processes and scripts killed, and moves that fail

ASSUME SystemInstallAssumption ==
    /\ Remover \in Command /\ NoCommand \notin Command
    /\ CommandBudget \in Nat /\ KillBudget \in Nat

VARIABLES
    windows,    \* the platform
    transition, \* the holder of the runtime lease
    binary,     \* whether the installed binary is in place
    rollback,   \* whether the copy an update script moved aside is there
    owned,      \* the ownership record of the binary
    onPath,     \* whether the PATH names the directory
    pathOwned,  \* the ownership record of the PATH entry, on Windows
    marker,     \* the pending-update marker
    state,      \* whether there is application data
    backend,    \* the backend server
    cmd,        \* what each process does
    updater,    \* the update script
    deleter,    \* the removal script
    orphan,     \* what an install that was killed left without its record
    swept,      \* whether a removal script removed the binary of a later install
    removed,    \* whether an uninstall removed the binary and its record is still, or again, there
    spentHere   \* the budgets used

systemInstallVars == <<windows, transition, binary, rollback, owned, onPath, pathOwned, marker,
                       state, backend, cmd, updater, deleter, orphan, swept, removed, spentHere>>

Kinds == {"install", "clean", "update", "uninstall", "start"}
Idle == [kind |-> "none", do |-> "rest", installed |-> FALSE]
NoScript == [at |-> "none", parent |-> NoCommand]

CmdAt(p, step) == cmd[p].do = step
CmdGo(p, step) == cmd' = [cmd EXCEPT ![p].do = step]
(* A command is over and drops the lease; its process may live on. *)
CmdOver(p) == CmdGo(p, "over") /\ transition' = NoCommand
Charge(what, budget) == spentHere[what] < budget /\ spentHere' = [spentHere EXCEPT ![what] = @ + 1]
Binaries == <<binary, rollback, owned, marker, removed>>
Paths == <<onPath, pathOwned>>
Scripts == <<updater, deleter, swept>>
(* Windows neither replaces nor removes a binary that runs. *)
InUse == windows /\ \E q \in Command : cmd[q].installed

(* A command starts, from the installed binary or from an extracted one. *)
Invoke(p, kind, installed) ==
    /\ CmdAt(p, "rest") /\ (installed => binary)
    /\ IF p = Remover THEN kind = "uninstall" /\ ~installed /\ UNCHANGED spentHere
                      ELSE Charge("commands", CommandBudget)
    /\ cmd' = [cmd EXCEPT ![p] = [kind |-> kind, do |-> "lease", installed |-> installed]]
    /\ UNCHANGED <<windows, transition, Binaries, Paths, state, backend, Scripts, orphan>>

FirstStep == [install |-> "copy", clean |-> "inactive", update |-> "target",
              uninstall |-> "pending", start |-> "spawn"]

(* runtime_mutation::acquire: a lease that is held refuses the command. *)
AcquireTransition(p) ==
    /\ CmdAt(p, "lease")
    /\ IF transition = NoCommand
         THEN transition' = p /\ CmdGo(p, FirstStep[cmd[p].kind])
         ELSE CmdGo(p, "over") /\ UNCHANGED transition
    /\ UNCHANGED <<windows, Binaries, Paths, state, backend, Scripts, orphan, spentHere>>

(* ensure_no_pending_binary_mutation, first of an uninstall. *)
CheckPending(p) ==
    /\ CmdAt(p, "pending")
    /\ IF marker = "none" THEN CmdGo(p, "inactive") /\ UNCHANGED transition ELSE CmdOver(p)
    /\ UNCHANGED <<windows, Binaries, Paths, state, backend, Scripts, orphan, spentHere>>

RequireInactive_Spawned(p) ==
    /\ CmdAt(p, "inactive")
    /\ CmdGo(p, IF cmd[p].kind = "clean" THEN "copy" ELSE "unpath") /\ UNCHANGED transition
    /\ UNCHANGED <<windows, Binaries, Paths, state, backend, Scripts, orphan, spentHere>>

(* require_inactive_runtime: a recorded server or generation that lives refuses. *)
RequireInactive(p) ==
    /\ CmdAt(p, "inactive")
    /\ IF backend = "recorded" THEN CmdOver(p)
       ELSE CmdGo(p, IF cmd[p].kind = "clean" THEN "copy" ELSE "unpath") /\ UNCHANGED transition
    /\ UNCHANGED <<windows, Binaries, Paths, state, backend, Scripts, orphan, spentHere>>

(* install_binary: nothing may be pending; the binary is copied unless it is the one
   that runs ... *)
CopyBinary(p) ==
    /\ CmdAt(p, "copy")
    /\ \/ /\ marker # "none" \/ (~cmd[p].installed /\ InUse)
          /\ CmdOver(p) /\ UNCHANGED <<binary, removed>>
       \/ /\ marker = "none" /\ (cmd[p].installed \/ ~InUse)
          /\ CmdGo(p, "own") /\ UNCHANGED transition
          /\ binary' = (binary \/ ~cmd[p].installed)
          /\ removed' = (removed /\ cmd[p].installed)
    /\ UNCHANGED <<windows, rollback, owned, marker, Paths, state, backend, Scripts, orphan, spentHere>>

(* ... and then its ownership is recorded, even of a binary that runs and that an uninstall
   removed while the command, its paths read, waited for the lease. *)
RecordOwnership(p) ==
    /\ CmdAt(p, "own")
    /\ owned' = TRUE /\ orphan' = orphan \ {"binary"}
    /\ removed' = (removed \/ (~binary /\ ~windows))
    /\ CmdGo(p, "path")
    /\ UNCHANGED <<windows, transition, binary, rollback, marker, Paths, state, backend, Scripts,
                   spentHere>>

AfterPath(p) == IF cmd[p].kind = "clean" THEN CmdGo(p, "wipe") /\ UNCHANGED transition ELSE CmdOver(p)

(* ensure_user_path: a profile block names its owner; a Windows entry is recorded only by
   the command that adds it. *)
EnsurePath(p) ==
    /\ CmdAt(p, "path")
    /\ onPath' = TRUE
    /\ IF windows /\ ~onPath THEN CmdGo(p, "pathown") /\ UNCHANGED transition ELSE AfterPath(p)
    /\ UNCHANGED <<windows, Binaries, pathOwned, state, backend, Scripts, orphan, spentHere>>

RecordPath(p) ==
    /\ CmdAt(p, "pathown")
    /\ pathOwned' = TRUE /\ orphan' = orphan \ {"path"}
    /\ AfterPath(p)
    /\ UNCHANGED <<windows, Binaries, onPath, state, backend, Scripts, spentHere>>

(* remove_user_path: every managed block, or the Windows entry if it is owned ... *)
RemovePath(p) ==
    /\ CmdAt(p, "unpath")
    /\ onPath' = (windows /\ ~pathOwned /\ onPath)
    /\ orphan' = IF windows /\ ~pathOwned THEN orphan ELSE orphan \ {"path"}
    /\ CmdGo(p, IF windows /\ pathOwned THEN "unpathown" ELSE "wipe")
    /\ UNCHANGED <<windows, transition, Binaries, pathOwned, state, backend, Scripts, spentHere>>

(* ... and its record. *)
RemovePathRecord(p) ==
    /\ CmdAt(p, "unpathown")
    /\ pathOwned' = FALSE
    /\ CmdGo(p, "wipe")
    /\ UNCHANGED <<windows, transition, Binaries, onPath, state, backend, Scripts, orphan, spentHere>>

(* remove_clean_state. *)
Wipe(p) ==
    /\ CmdAt(p, "wipe")
    /\ state' = FALSE
    /\ IF cmd[p].kind = "clean" THEN CmdOver(p) ELSE CmdGo(p, "remove") /\ UNCHANGED transition
    /\ UNCHANGED <<windows, Binaries, Paths, backend, Scripts, orphan, spentHere>>

RemoveBinary_Present(p) ==
    /\ CmdAt(p, "remove")
    /\ \/ /\ marker # "none" \/ ~owned \/ ~binary \/ (InUse /\ ~cmd[p].installed)
          /\ CmdOver(p) /\ UNCHANGED <<binary, deleter, removed>>
       \/ /\ marker = "none" /\ owned /\ binary /\ windows /\ cmd[p].installed
          /\ deleter' = [at |-> "wait", parent |-> p]
          /\ CmdGo(p, "disown") /\ UNCHANGED <<transition, binary, removed>>
       \/ /\ marker = "none" /\ owned /\ binary /\ ~InUse
          /\ binary' = FALSE /\ removed' = TRUE
          /\ CmdGo(p, "disown") /\ UNCHANGED <<transition, deleter>>
    /\ UNCHANGED <<windows, rollback, owned, marker, Paths, state, backend, updater, swept, orphan,
                   spentHere>>

(* remove_installed_binary: a binary without a record is not touched; the one that runs
   is left to a script on Windows; of one already gone only the record is left. *)
RemoveBinary(p) ==
    /\ CmdAt(p, "remove")
    /\ \/ /\ marker # "none" \/ ~owned \/ (binary /\ InUse /\ ~cmd[p].installed)
          /\ CmdOver(p) /\ UNCHANGED <<binary, deleter, removed>>
       \/ /\ marker = "none" /\ owned /\ binary /\ windows /\ cmd[p].installed
          /\ deleter' = [at |-> "wait", parent |-> p]
          /\ CmdGo(p, "disown") /\ UNCHANGED <<transition, binary, removed>>
       \/ /\ marker = "none" /\ owned /\ ~(binary /\ InUse)
          /\ binary' = FALSE /\ removed' = TRUE
          /\ CmdGo(p, "disown") /\ UNCHANGED <<transition, deleter>>
    /\ UNCHANGED <<windows, rollback, owned, marker, Paths, state, backend, updater, swept, orphan,
                   spentHere>>

(* The record goes last; what it leaves in place with no script to come is nobody's. *)
Disown(p) ==
    /\ CmdAt(p, "disown")
    /\ owned' = FALSE /\ removed' = FALSE
    /\ orphan' = IF binary /\ deleter.at = "none" THEN orphan \cup {"binary"} ELSE orphan
    /\ CmdOver(p)
    /\ UNCHANGED <<windows, binary, rollback, marker, Paths, state, backend, Scripts, spentHere>>

(* update: the installed binary that runs, owned, with nothing pending; the download may
   fail, and both are looked at again. *)
CheckTarget(p) ==
    /\ CmdAt(p, "target")
    /\ \/ /\ marker = "none" /\ cmd[p].installed /\ owned /\ binary
          /\ CmdGo(p, "apply") /\ UNCHANGED transition
       \/ CmdOver(p)
    /\ UNCHANGED <<windows, Binaries, Paths, state, backend, Scripts, orphan, spentHere>>

(* apply_staged_update: replaced at once, or the marker is created for a script. *)
Apply(p) ==
    /\ CmdAt(p, "apply")
    /\ \/ (marker # "none" \/ ~owned \/ ~binary \/ ~windows) /\ CmdOver(p) /\ UNCHANGED marker
       \/ /\ marker = "none" /\ owned /\ binary /\ windows
          /\ marker' = "empty" /\ CmdGo(p, "sign") /\ UNCHANGED transition
    /\ UNCHANGED <<windows, binary, rollback, owned, removed, Paths, state, backend, Scripts, orphan,
                   spentHere>>

(* reserve_windows_update_marker writes the operation's id into the marker. *)
Sign(p) ==
    /\ CmdAt(p, "sign")
    /\ marker' = "signed"
    /\ CmdGo(p, "spawnscript")
    /\ UNCHANGED <<windows, transition, binary, rollback, owned, removed, Paths, state, backend,
                   Scripts, orphan, spentHere>>

(* The script is started, or the marker taken back. *)
SpawnScript(p) ==
    /\ CmdAt(p, "spawnscript")
    /\ \/ updater' = [at |-> "wait", parent |-> p] /\ UNCHANGED <<marker, spentHere>>
       \/ marker' = "none" /\ UNCHANGED updater /\ Charge("kills", KillBudget)
    /\ CmdOver(p)
    /\ UNCHANGED <<windows, binary, rollback, owned, removed, Paths, state, backend, deleter, swept,
                   orphan>>

SpawnBackend_Unleased(p) ==
    /\ CmdAt(p, "spawn") /\ backend = "none"
    /\ backend' = "spawned" /\ state' = TRUE
    /\ CmdGo(p, "record") /\ transition' = NoCommand
    /\ UNCHANGED <<windows, Binaries, Paths, Scripts, orphan, spentHere>>

(* backend start, and in the same way the begin of a generation: spawned under the lease ... *)
SpawnBackend(p) ==
    /\ CmdAt(p, "spawn")
    /\ IF backend # "none" THEN CmdOver(p) /\ UNCHANGED <<backend, state>>
       ELSE backend' = "spawned" /\ state' = TRUE /\ CmdGo(p, "record") /\ UNCHANGED transition
    /\ UNCHANGED <<windows, Binaries, Paths, Scripts, orphan, spentHere>>

(* ... and recorded under it. *)
RecordBackend(p) ==
    /\ CmdAt(p, "record")
    /\ backend' = IF backend = "spawned" THEN "recorded" ELSE backend
    /\ CmdOver(p)
    /\ UNCHANGED <<windows, Binaries, Paths, state, Scripts, orphan, spentHere>>

(* backend stop, or the server's own end; a server without a record too. *)
StopBackend ==
    /\ backend \in {"recorded", "lost"}
    /\ backend' = "none"
    /\ UNCHANGED <<windows, transition, Binaries, Paths, state, cmd, Scripts, orphan, spentHere>>

(* The process of a command that is over exits. *)
Exit(p) ==
    /\ CmdAt(p, "over")
    /\ cmd' = [cmd EXCEPT ![p] = Idle]
    /\ UNCHANGED <<windows, transition, Binaries, Paths, state, backend, Scripts, orphan, spentHere>>

(* A command is killed; its lease is recovered by whoever wants it next. *)
CmdDies(p) ==
    /\ cmd[p].do \notin {"rest", "over"}
    /\ Charge("kills", KillBudget)
    /\ transition' = IF transition = p THEN NoCommand ELSE transition
    /\ backend' = IF CmdAt(p, "record") THEN "lost" ELSE backend
    /\ orphan' = orphan \cup (IF CmdAt(p, "own") /\ ~owned THEN {"binary"} ELSE {})
                        \cup (IF CmdAt(p, "pathown") THEN {"path"} ELSE {})
    /\ cmd' = [cmd EXCEPT ![p] = Idle]
    /\ UNCHANGED <<windows, Binaries, Paths, state, Scripts>>

UpdaterAt(step) == updater.at = step
UpdaterGo(step) == updater' = [updater EXCEPT !.at = step]

(* The update script waits for the process that left it. *)
UpdaterWaits ==
    /\ UpdaterAt("wait") /\ cmd[updater.parent].do = "rest"
    /\ UpdaterGo("move")
    /\ UNCHANGED <<windows, transition, Binaries, Paths, state, backend, cmd, deleter, swept, orphan,
                   spentHere>>

(* It moves the binary aside, if it is there and the one the update was made for ... *)
MoveAside ==
    /\ UpdaterAt("move")
    /\ \/ binary /\ rollback' = TRUE /\ binary' = FALSE /\ UpdaterGo("place")
       \/ UpdaterGo("finish") /\ UNCHANGED <<rollback, binary>>
    /\ UNCHANGED <<windows, transition, owned, marker, removed, Paths, state, backend, cmd, deleter,
                   swept, orphan, spentHere>>

(* ... and the new one in its place; if that fails the old one back, and that may fail too. *)
MoveInPlace ==
    /\ UpdaterAt("place")
    /\ \/ binary' = TRUE /\ UNCHANGED <<rollback, spentHere>>
       \/ binary' = TRUE /\ rollback' = FALSE /\ Charge("kills", KillBudget)
       \/ UNCHANGED <<binary, rollback>> /\ Charge("kills", KillBudget)
    /\ UpdaterGo("finish")
    /\ UNCHANGED <<windows, transition, owned, marker, removed, Paths, state, backend, cmd,
                   deleter, swept, orphan>>

Finish_Tidy ==
    /\ UpdaterAt("finish")
    /\ rollback' = FALSE
    /\ marker' = IF marker = "signed" THEN "none" ELSE marker
    /\ updater' = NoScript
    /\ UNCHANGED <<windows, transition, binary, owned, removed, Paths, state, backend, cmd, deleter,
                   swept, orphan, spentHere>>

(* Whatever happened, the copy goes if a binary is there, and the marker if it is its own. *)
Finish ==
    /\ UpdaterAt("finish")
    /\ rollback' = (rollback /\ ~binary)
    /\ marker' = IF marker = "signed" THEN "none" ELSE marker
    /\ updater' = NoScript
    /\ UNCHANGED <<windows, transition, binary, owned, removed, Paths, state, backend, cmd, deleter,
                   swept, orphan, spentHere>>

(* The removal script waits for the exit and removes what is in place by then. *)
Sweep ==
    /\ deleter.at = "wait" /\ cmd[deleter.parent].do = "rest"
    /\ binary' = (binary /\ InUse)
    /\ swept' = (swept \/ (binary /\ ~InUse /\ (owned \/ \E p \in Command : CmdAt(p, "own"))))
    /\ orphan' = IF binary /\ InUse /\ ~owned THEN orphan \cup {"binary"} ELSE orphan \ {"binary"}
    /\ deleter' = NoScript
    /\ UNCHANGED <<windows, transition, rollback, owned, marker, removed, Paths, state, backend, cmd,
                   updater, spentHere>>

(* A script is killed, by a reboot or a user that logs out. *)
ScriptDies ==
    /\ Charge("kills", KillBudget)
    /\ \/ updater.at # "none" /\ updater' = NoScript /\ UNCHANGED <<deleter, orphan>>
       \/ deleter.at # "none" /\ deleter' = NoScript /\ UNCHANGED updater
          /\ orphan' = IF binary /\ ~owned THEN orphan \cup {"binary"} ELSE orphan
    /\ UNCHANGED <<windows, transition, Binaries, Paths, state, backend, cmd, swept>>

SystemInstallInit ==
    /\ windows \in BOOLEAN /\ transition = NoCommand
    /\ binary = FALSE /\ rollback = FALSE /\ owned = FALSE /\ onPath = FALSE /\ pathOwned = FALSE
    /\ marker = "none" /\ state = FALSE /\ backend = "none"
    /\ cmd = [p \in Command |-> Idle] /\ updater = NoScript /\ deleter = NoScript
    /\ orphan = {} /\ swept = FALSE /\ removed = FALSE
    /\ spentHere = [what \in {"commands", "kills"} |-> 0]

Install(p) == CopyBinary(p) \/ RecordOwnership(p) \/ EnsurePath(p) \/ RecordPath(p)
Uninstall(p) == \/ CheckPending(p) \/ RequireInactive(p) \/ RemovePath(p) \/ RemovePathRecord(p)
                \/ Wipe(p) \/ RemoveBinary(p) \/ Disown(p)
Update(p) == CheckTarget(p) \/ Apply(p) \/ Sign(p) \/ SpawnScript(p)
CmdStep(p) == \/ AcquireTransition(p) \/ Install(p) \/ Uninstall(p) \/ Update(p)
              \/ SpawnBackend(p) \/ RecordBackend(p) \/ Exit(p)
ScriptStep == UpdaterWaits \/ MoveAside \/ MoveInPlace \/ Finish \/ Sweep

SystemInstallNext ==
    \/ \E p \in Command : \/ \E kind \in Kinds, installed \in BOOLEAN : Invoke(p, kind, installed)
                          \/ CmdStep(p) \/ CmdDies(p)
    \/ ScriptStep \/ ScriptDies \/ StopBackend

SystemInstallFairness ==
    /\ \A p \in Command : WF_systemInstallVars(CmdStep(p))
    /\ WF_systemInstallVars(Invoke(Remover, "uninstall", FALSE))
    /\ WF_systemInstallVars(ScriptStep) /\ WF_systemInstallVars(StopBackend)

SystemInstallSpec ==
    SystemInstallInit /\ [][SystemInstallNext]_systemInstallVars /\ SystemInstallFairness

(* Every variable has its shape; only a command past its lease step holds the lease.        *)
SystemInstallTypeOK ==
    /\ {windows, binary, rollback, owned, onPath, pathOwned, state, swept, removed} \subseteq BOOLEAN
    /\ transition \in Command \cup {NoCommand}
    /\ marker \in {"none", "empty", "signed"} /\ backend \in {"none", "spawned", "recorded", "lost"}
    /\ orphan \subseteq {"binary", "path"}
    /\ \A p \in Command :
           cmd[p].do \notin {"rest", "lease", "over"} <=> transition = p

(* A binary that is recorded as ours can be found: in place, or moved aside by an update     *)
(* script that is under way or was killed or failed in between; or an uninstall removed it    *)
(* and was killed before the record, or its script came late, or an install that runs from    *)
(* the removed binary recorded it again.  Code: install_binary's order,  *)
(* the script's catch and finally blocks, remove_installed_binary.                             *)
OwnedFound == owned /\ ~binary => rollback \/ removed \/ swept

(* A backend that is recorded and lives keeps its application data: no clean removes it       *)
(* between the spawn and the record, or after.  Code: the runtime lease of start_sidecar and   *)
(* of execute_clean_uninstall, require_inactive_runtime under it.                              *)
StateKept == backend = "recorded" => state

InstallKept == SystemInstallTypeOK /\ OwnedFound /\ StateKept

(* An uninstall that is asked for until it is done leaves nothing of ours: no state, no       *)
(* record, no binary and no PATH entry but those an install was killed before recording, or    *)
(* whose script was killed; unless an update was killed and left its marker, which blocks      *)
(* every command on the binary for good.  Code: execute_clean_uninstall, the order of the      *)
(* removals and of their records.                                                              *)
Gone == /\ ~state /\ ~owned /\ ~pathOwned
        /\ binary => "binary" \in orphan
        /\ onPath => "path" \in orphan
UninstallEnds == <>[]Gone \/ <>[](marker # "none")
=============================================================================
